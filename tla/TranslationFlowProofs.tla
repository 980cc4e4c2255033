----------------------- MODULE TranslationFlowProofs -----------------------
(***************************************************************************)
(* The safety of TranslationFlow for any texts, any number of requests and *)
(* sessions and any cache limit.  The invariants are inductive only with   *)
(* what the TSF thread knows about the ids it handed out (Bookkeeping),    *)
(* and with what a session leaves behind (BetweenSessions).                *)
(***************************************************************************)
EXTENDS TranslationFlow, TLAPS

\* What the types alone do not say, and the steps need to keep them.
Typing ==
    /\ TypeOK
    /\ active => session # 0
    /\ worker.stage # "idle" => worker.id # NoId
    /\ tsf = "draining" => local # <<>>
    /\ request.id # NoId => request.key \in Text

\* What is known of the ids: those handed out are at most nextId, so that a
\* new one carries no flag; the text of a job never changes once its id is out;
\* a reply that speaks of a cancellation belongs to a job that was cancelled;
\* and the outstanding request is not one of those.
Bookkeeping ==
    /\ cancelled \subseteq 1 .. nextId
    /\ \A id \in Jobs!Ids : job[id] # "free" => id <= nextId
    /\ request.id # NoId =>
        /\ request.id <= nextId /\ request.id \notin cancelled
        /\ text[request.id] = request.key
    /\ \A i \in 1 .. Len(callbacks) :
        callbacks[i].outcome = "cancelled" => callbacks[i].id \in cancelled
    /\ \A i \in 1 .. Len(local) :
        local[i].outcome = "cancelled" => local[i].id \in cancelled

IInv == Bookkeeping /\ PendingMatchesRequest /\ CacheProvenance /\ NoCancelledAnswer

-----------------------------------------------------------------------------
\* The helpers that touch the cache.

\* Removing a key from the order leaves a sequence of texts.
LEMMA WithoutType ==
    ASSUME recency \in Seq(Text), NEW key \in Text
    PROVE  Without(key) \in Seq(Text)
<1>1. CASE \E i \in 1 .. Len(recency) : recency[i] = key
  <2>1. PICK i \in 1 .. Len(recency) : i = CHOOSE j \in 1 .. Len(recency) : recency[j] = key
    BY <1>1
  <2>2. SubSeq(recency, 1, i - 1) \in Seq(Text) /\ SubSeq(recency, i + 1, Len(recency)) \in Seq(Text)
    OBVIOUS
  <2>3. Without(key) = SubSeq(recency, 1, i - 1) \o SubSeq(recency, i + 1, Len(recency))
    BY <1>1, <2>1 DEF Without, RemoveAt
  <2> QED BY <2>2, <2>3
<1>2. CASE ~ \E i \in 1 .. Len(recency) : recency[i] = key
  BY <1>2 DEF Without
<1> QED BY <1>1, <1>2

\* Storing an answer keeps the types of the cache and of its order.
LEMMA StoreType ==
    ASSUME recency \in Seq(Text), cache \in [Text -> Entries],
           NEW key \in Text, NEW entry \in Entries, Store(key, entry)
    PROVE  recency' \in Seq(Text) /\ cache' \in [Text -> Entries]
<1> DEFINE order == Append(Without(key), key)
<1>0. Without(key) \in Seq(Text)
  BY WithoutType
<1>1. order \in Seq(Text) /\ Len(order) = Len(Without(key)) + 1
  BY <1>0
<1>2. Tail(order) \in Seq(Text)
  BY <1>0, <1>1
<1>3. recency' \in Seq(Text)
  BY <1>1, <1>2 DEF Store
<1>4. cache' \in [Text -> Entries]
  BY DEF Store, NoEntry, Entries, Texts
<1> QED BY <1>3, <1>4

\* The same of an answer that is looked at again, or erased.
LEMMA TouchType ==
    ASSUME recency \in Seq(Text), cache \in [Text -> Entries], NEW key \in Text
    PROVE  /\ Touch(key) => recency' \in Seq(Text) /\ cache' \in [Text -> Entries]
           /\ Erase(key) => recency' \in Seq(Text) /\ cache' \in [Text -> Entries]
<1>1. Without(key) \in Seq(Text)
  BY WithoutType
<1>2. Append(Without(key), key) \in Seq(Text)
  BY <1>1
<1>3. Touch(key) => recency' \in Seq(Text) /\ cache' \in [Text -> Entries]
  BY <1>2 DEF Touch
<1>4. NoEntry \in Entries
  BY DEF NoEntry, Entries, Texts
<1>5. Erase(key) => recency' \in Seq(Text) /\ cache' \in [Text -> Entries]
  BY <1>1, <1>4 DEF Erase
<1> QED BY <1>3, <1>5

-----------------------------------------------------------------------------
\* Type correctness.

\* What a step leaves alone keeps its type.
LEMMA Frame ==
    /\ LifeTypes /\ UNCHANGED lifeVars => LifeTypes'
    /\ ViewTypes /\ UNCHANGED viewVars => ViewTypes'
    /\ RequestTypes /\ UNCHANGED requestVars => RequestTypes'
    /\ CacheTypes /\ UNCHANGED cacheVars => CacheTypes'
    /\ WorkerTypes /\ UNCHANGED workerVars => WorkerTypes'
    /\ DispatchTypes /\ UNCHANGED dispatchVars => DispatchTypes'
    /\ Jobs!TypeOK /\ UNCHANGED jobVars => Jobs!TypeOK'
<1>1. LifeTypes /\ UNCHANGED lifeVars => LifeTypes'
  BY DEF LifeTypes, lifeVars
<1>2. ViewTypes /\ UNCHANGED viewVars => ViewTypes'
  BY DEF ViewTypes, viewVars
<1>3. RequestTypes /\ UNCHANGED requestVars => RequestTypes'
  BY DEF RequestTypes, requestVars
<1>4. CacheTypes /\ UNCHANGED cacheVars => CacheTypes'
  BY DEF CacheTypes, cacheVars
<1>5. WorkerTypes /\ UNCHANGED workerVars => WorkerTypes'
  BY DEF WorkerTypes, workerVars
<1>6. DispatchTypes /\ UNCHANGED dispatchVars => DispatchTypes'
  BY DEF DispatchTypes, dispatchVars
<1>7. Jobs!TypeOK /\ UNCHANGED jobVars => Jobs!TypeOK'
  BY DEF Jobs!TypeOK, jobVars
<1> QED BY <1>1, <1>2, <1>3, <1>4, <1>5, <1>6, <1>7

\* Forgetting the request keeps its type.
LEMMA DropType == DropRequest => RequestTypes' /\ request'.id = NoId
<1>1. NoRequest \in [id : MaybeIds, key : Texts] /\ NoRequest.id = NoId
  BY DEF NoRequest, MaybeIds, Texts
<1>2. FALSE \in BOOLEAN
  OBVIOUS
<1> QED BY <1>1, <1>2 DEF DropRequest, RequestTypes

\* CancelRequest, that many handlers end with, keeps the types.
LEMMA CancelType ==
    ASSUME TypeOK, CancelRequest
    PROVE  /\ RequestTypes' /\ request'.id = NoId
           /\ text' = text /\ Jobs!TypeOK'
           /\ worker' = worker => WorkerTypes'
<1>1. RequestTypes' /\ request'.id = NoId
  BY DropType DEF CancelRequest
<1>2. FlagsAfterCancel \subseteq Jobs!Ids
  BY DEF TypeOK, RequestTypes, MaybeIds, NoId, FlagsAfterCancel, Jobs!TypeOK
<1>3. Jobs!TypeOK'
  BY <1>2 DEF TypeOK, CancelRequest, Jobs!TypeOK
<1>4. worker' = worker => WorkerTypes'
  BY DEF TypeOK, CancelRequest, WorkerTypes
<1> QED BY <1>1, <1>3, <1>4 DEF CancelRequest

\* So does emptying the cache.
LEMMA ClearType == ClearCache => CacheTypes'
BY DEF ClearCache, CacheTypes, NoEntry, Entries, Texts

\* Every text can be shown, and so can the layers.
LEMMA ShownType ==
    /\ ShowLayer("layer1") => shown' \in [board : Boards, key : Texts]
    /\ ShowLayer("layer2") => shown' \in [board : Boards, key : Texts]
    /\ ShowLayer("closed") => shown' \in [board : Boards, key : Texts]
BY DEF ShowLayer, Boards, Texts

\* Asking for a translation keeps the types.
LEMMA StartType ==
    ASSUME Typing, active, NEW key \in Text, NEW force \in BOOLEAN,
           StartTranslationForCandidate(key, force), worker' = worker
    PROVE  /\ source' \in Texts
           /\ RequestTypes' /\ (request'.id # NoId => request'.key \in Text)
           /\ CacheTypes'
           /\ shown' \in [board : Boards, key : Texts]
           /\ WorkerTypes' /\ Jobs!TypeOK'
<1>1. source' \in Texts
  BY DEF StartTranslationForCandidate, Texts
<1>2. CASE ShowCached(key)
  <2>1. CacheTypes'
    BY <1>2, TouchType DEF Typing, TypeOK, CacheTypes, ShowCached
  <2>2. cache[key].outcome \in Boards
    BY <1>2 DEF Typing, TypeOK, CacheTypes, Entries, Outcomes, Boards, ShowCached, Cached
  <2>3. shown' \in [board : Boards, key : Texts]
    BY <1>2, <2>2 DEF ShowCached, Texts
  <2> QED BY <1>1, <1>2, <2>1, <2>3, CancelType DEF Typing, ShowCached
<1>3. CASE AskWorker(key, force)
  <2>1. CacheTypes'
    BY <1>3, TouchType DEF Typing, TypeOK, CacheTypes, AskWorker, cacheVars
  <2>2. FlagsAfterCancel \subseteq Jobs!Ids
    BY DEF Typing, TypeOK, RequestTypes, MaybeIds, NoId, FlagsAfterCancel, Jobs!TypeOK
  <2>3. nextId + 1 \in Jobs!Ids /\ nextId' \in 0 .. MaxId
    BY <1>3, BoundsAssumption DEF Typing, TypeOK, AskWorker, Jobs!Enlist, Jobs!TypeOK, Jobs!Ids
  <2>4. session \in Sessions
    BY BoundsAssumption DEF Typing, TypeOK, LifeTypes, Sessions
  <2>5. Jobs!TypeOK'
    BY <1>3, <2>2, <2>3, <2>4 DEF Typing, TypeOK, AskWorker, Jobs!Enlist, Jobs!TypeOK
  <2>6. WorkerTypes'
    BY <1>3, <2>3 DEF Typing, TypeOK, AskWorker, WorkerTypes, Texts
  <2>7. RequestTypes' /\ request'.key \in Text
    BY <1>3, <2>3 DEF AskWorker, RequestTypes, MaybeIds, Texts
  <2>8. shown' \in [board : Boards, key : Texts]
    BY <1>3 DEF AskWorker, Boards, Texts
  <2> QED BY <1>1, <2>1, <2>5, <2>6, <2>7, <2>8
<1>4. ASSUME AnswerAtOnce(key)
      PROVE  /\ RequestTypes' /\ request'.id = NoId /\ CacheTypes'
             /\ shown' \in [board : Boards, key : Texts]
             /\ WorkerTypes' /\ Jobs!TypeOK'
  <2>1. [from |-> key, outcome |-> "ok"] \in Entries
    BY DEF Entries, Texts, Outcomes
  <2>2. CacheTypes'
    BY <1>4, <2>1, StoreType DEF Typing, TypeOK, CacheTypes, AnswerAtOnce
  <2>3. shown' \in [board : Boards, key : Texts]
    BY <1>4 DEF AnswerAtOnce, Boards, Texts
  <2> QED BY <1>4, <2>2, <2>3, CancelType DEF Typing, AnswerAtOnce
<1> QED BY <1>1, <1>2, <1>3, <1>4 DEF StartTranslationForCandidate

\* Every step keeps the types.
LEMMA TypingStep == Typing /\ [Next]_vars => Typing'
<1> SUFFICES ASSUME Typing, [Next]_vars PROVE Typing'
  OBVIOUS
<1>1. ASSUME NEW kind \in {"llm", "dictionary", "unavailable"}, NEW created \in BOOLEAN,
             Activate(kind, created)
      PROVE  Typing'
  <2>1. LifeTypes' /\ (active' => session' # 0)
    BY <1>1, BoundsAssumption DEF Typing, TypeOK, LifeTypes, Activate
  <2>2. ViewTypes'
    BY <1>1 DEF Typing, TypeOK, ViewTypes, Activate
  <2> QED BY <1>1, <2>1, <2>2, Frame, CancelType, ClearType
          DEF Typing, TypeOK, Activate, dispatchVars
<1>2. CASE Deactivate
  <2>1. LifeTypes' /\ tsf' = "joining" /\ ~active'
    BY <1>2 DEF Typing, TypeOK, LifeTypes, Deactivate
  <2>2. ViewTypes'
    BY <1>2 DEF Typing, TypeOK, ViewTypes, Texts, Deactivate
  <2>3. Jobs!TypeOK'
    BY <1>2 DEF Typing, TypeOK, Deactivate, Jobs!CloseQueue, Jobs!LiveJobs, Jobs!TypeOK
  <2> QED BY <1>2, <2>1, <2>2, <2>3, Frame, DropType, ClearType
          DEF Typing, TypeOK, Deactivate, workerVars
<1>3. CASE DeactivateReturns
  <2>1. LifeTypes' /\ tsf' = "idle"
    BY <1>3 DEF Typing, TypeOK, LifeTypes, DeactivateReturns
  <2>2. DispatchTypes'
    BY <1>3 DEF Typing, TypeOK, DispatchTypes, DeactivateReturns
  <2> QED BY <1>3, <2>1, <2>2, Frame DEF Typing, TypeOK, DeactivateReturns, requestVars, workerVars
<1>4. ASSUME NEW t \in Text, OpenCandidateUI(t)
      PROVE  Typing'
  <2>1. ViewTypes'
    BY <1>4, ShownType DEF Typing, TypeOK, ViewTypes, Texts, OpenCandidateUI, ToLayer1
  <2> QED BY <1>4, <2>1, Frame, CancelType
          DEF Typing, TypeOK, OpenCandidateUI, lifeVars, dispatchVars
<1>5. ASSUME NEW t \in Text, EnterDraft(t)
      PROVE  Typing'
  <2>1. ViewTypes'
    BY <1>5, ShownType DEF Typing, TypeOK, ViewTypes, Texts, EnterDraft
  <2> QED BY <1>5, <2>1, Frame, CancelType
          DEF Typing, TypeOK, EnterDraft, lifeVars, dispatchVars
<1>6. ASSUME NEW t \in Text, MergeLayer2Selection(t)
      PROVE  Typing'
  <2>1. ViewTypes'
    BY <1>6, ShownType DEF Typing, TypeOK, ViewTypes, Texts, MergeLayer2Selection, ToLayer1
  <2> QED BY <1>6, <2>1, Frame
          DEF Typing, TypeOK, MergeLayer2Selection, lifeVars, dispatchVars, requestVars, workerVars
<1>7. CASE CloseCandidateUI
  <2>1. ViewTypes'
    BY <1>7, ShownType DEF Typing, TypeOK, ViewTypes, Texts, CloseCandidateUI, CloseView
  <2> QED BY <1>7, <2>1, Frame, CancelType
          DEF Typing, TypeOK, CloseCandidateUI, lifeVars, dispatchVars
<1>8. CASE SwitchToLayer2FromLayer1
  <2>1. ViewTypes'
    BY <1>8, ShownType DEF Typing, TypeOK, ViewTypes, SwitchToLayer2FromLayer1
  <2> QED BY <1>8, <2>1, Frame
          DEF Typing, TypeOK, SwitchToLayer2FromLayer1, lifeVars, dispatchVars, requestVars, workerVars
<1>9. CASE BackToLayer1
  <2>1. ViewTypes'
    BY <1>9, ShownType DEF Typing, TypeOK, ViewTypes, BackToLayer1, ToLayer1
  <2> QED BY <1>9, <2>1, Frame
          DEF Typing, TypeOK, BackToLayer1, lifeVars, dispatchVars, requestVars, workerVars
<1>10. CASE EscapeLayer2
  <2>1. ViewTypes'
    BY <1>10, ShownType DEF Typing, TypeOK, ViewTypes, EscapeLayer2, ToLayer1
  <2> QED BY <1>10, <2>1, Frame
          DEF Typing, TypeOK, EscapeLayer2, lifeVars, dispatchVars, requestVars, workerVars
<1>11. CASE EscapeTranslation
  <2>1. ViewTypes'
    BY <1>11, ShownType DEF Typing, TypeOK, ViewTypes, EscapeTranslation, ToLayer1
  <2> QED BY <1>11, <2>1, Frame, CancelType
          DEF Typing, TypeOK, EscapeTranslation, lifeVars, dispatchVars
<1>12. CASE ToggleKanaKanjiOnlyMode
  <2>1. kanaKanjiOnly' \in BOOLEAN
    BY <1>12 DEF Typing, TypeOK, ViewTypes, ToggleKanaKanjiOnlyMode
  <2>2. tab' \in {"Layer1", "Layer2", "Translation"} /\ shown' \in [board : Boards, key : Texts]
    BY <1>12, ShownType DEF Typing, TypeOK, ViewTypes, ToggleKanaKanjiOnlyMode, ToLayer1
  <2>3. ViewTypes'
    BY <1>12, <2>1, <2>2 DEF Typing, TypeOK, ViewTypes, ToggleKanaKanjiOnlyMode
  <2> QED BY <1>12, <2>3, Frame, CancelType
          DEF Typing, TypeOK, ToggleKanaKanjiOnlyMode, lifeVars, dispatchVars
<1>13. ASSUME NEW t \in Text, NEW force \in BOOLEAN, SwitchToTranslationTab(t, force)
       PROVE  Typing'
  <2>1. /\ active /\ StartTranslationForCandidate(t, force) /\ worker' = worker
        /\ tab' = "Translation" /\ UNCHANGED <<lifeVars, tsf, ui, merged, kanaKanjiOnly, dispatchVars>>
    BY <1>13 DEF SwitchToTranslationTab, Key
  <2>2. ViewTypes'
    BY <2>1, StartType DEF Typing, TypeOK, ViewTypes
  <2> QED BY <2>1, <2>2, Frame, StartType DEF Typing, TypeOK, lifeVars, dispatchVars
<1>14. ASSUME NEW force \in BOOLEAN, HandleTranslationSpace(force)
       PROVE  Typing'
  <2>1. /\ source \in Text
        /\ active /\ StartTranslationForCandidate(source, force) /\ worker' = worker
        /\ UNCHANGED <<lifeVars, tsf, ui, tab, merged, kanaKanjiOnly, dispatchVars>>
    BY <1>14 DEF Typing, TypeOK, ViewTypes, Texts, HandleTranslationSpace, Key
  <2>2. ViewTypes'
    BY <2>1, StartType DEF Typing, TypeOK, ViewTypes
  <2> QED BY <2>1, <2>2, Frame, StartType DEF Typing, TypeOK, lifeVars, dispatchVars
<1>15. CASE CommitTranslationSelection
  <2>1. ViewTypes'
    BY <1>15, ShownType DEF Typing, TypeOK, ViewTypes, Texts, CommitTranslationSelection, CloseView
  <2> QED BY <1>15, <2>1, Frame, CancelType
          DEF Typing, TypeOK, CommitTranslationSelection, lifeVars, dispatchVars
<1>16. ASSUME NEW id \in Jobs!Ids, WorkerBegin(id)
       PROVE  Typing'
  <2>1. WorkerTypes' /\ worker'.id # NoId
    BY <1>16 DEF Typing, TypeOK, WorkerTypes, MaybeIds, NoId, Jobs!Ids, WorkerBegin
  <2>2. Jobs!TypeOK'
    BY <1>16 DEF Typing, TypeOK, WorkerBegin, Jobs!BeginJob, Jobs!TypeOK
  <2> QED BY <1>16, <2>1, <2>2, Frame
          DEF Typing, TypeOK, WorkerBegin, lifeVars, requestVars, dispatchVars
<1>17. ASSUME NEW id \in Jobs!Ids, WorkerSkip(id)
       PROVE  Typing'
  <2>1. Jobs!TypeOK'
    BY <1>17 DEF Typing, TypeOK, WorkerSkip, Jobs!SkipJob, Jobs!TypeOK
  <2> QED BY <1>17, <2>1, Frame
          DEF Typing, TypeOK, WorkerSkip, lifeVars, requestVars, workerVars, dispatchVars
<1>18. ASSUME NEW outcome \in Outcomes, WorkerReply(outcome)
       PROVE  Typing'
  <2>1. worker.id \in Jobs!Ids
    BY <1>18 DEF Typing, TypeOK, WorkerTypes, MaybeIds, WorkerReply
  <2>2. WorkerTypes' /\ worker'.id # NoId
    BY <1>18, <2>1 DEF Typing, TypeOK, WorkerTypes, WorkerReply
  <2>3. DispatchTypes'
    BY <1>18, <2>1 DEF Typing, TypeOK, DispatchTypes, Replies, WorkerReply
  <2> QED BY <1>18, <2>2, <2>3, Frame DEF Typing, TypeOK, WorkerReply, lifeVars, requestVars
<1>19. CASE WorkerPostMessage
  <2>1. WorkerTypes' /\ worker'.id # NoId
    BY <1>19 DEF Typing, TypeOK, WorkerTypes, WorkerPostMessage
  <2>2. DispatchTypes'
    BY <1>19 DEF Typing, TypeOK, DispatchTypes, WorkerPostMessage
  <2> QED BY <1>19, <2>1, <2>2, Frame DEF Typing, TypeOK, WorkerPostMessage, lifeVars, requestVars
<1>20. CASE WorkerFinish
  <2>1. WorkerTypes' /\ worker'.stage = "idle"
    BY <1>20 DEF Typing, TypeOK, WorkerTypes, NoWork, MaybeIds, WorkerFinish
  <2>2. Jobs!TypeOK'
    BY <1>20 DEF Typing, TypeOK, WorkerFinish, Jobs!FinishJob, Jobs!TypeOK
  <2> QED BY <1>20, <2>1, <2>2, Frame
          DEF Typing, TypeOK, WorkerFinish, lifeVars, requestVars, dispatchVars
<1>21. CASE DrainMainThreadCallbacks
  <2>1. DispatchTypes' /\ tsf' \in {"idle", "draining"} /\ (tsf' = "draining" => local' # <<>>)
    BY <1>21 DEF Typing, TypeOK, DispatchTypes, DrainMainThreadCallbacks
  <2> QED BY <1>21, <2>1, Frame
          DEF Typing, TypeOK, DrainMainThreadCallbacks, lifeVars, requestVars, workerVars
<1>22. CASE RunCallback
  <2>1. local # <<>> /\ Head(local) \in Replies
    BY <1>22 DEF Typing, TypeOK, DispatchTypes, RunCallback
  <2>2. DispatchTypes' /\ tsf' \in {"idle", "draining"} /\ (tsf' = "draining" => local' # <<>>)
    BY <1>22, <2>1 DEF Typing, TypeOK, DispatchTypes, RunCallback
  <2>3. CASE ~ Accepts(Head(local).id)
    BY <1>22, <2>2, <2>3, Frame
       DEF Typing, TypeOK, RunCallback, lifeVars, viewVars, requestVars, workerVars
  <2>4. CASE Accepts(Head(local).id)
    <3>1. request.key \in Text /\ Head(local).id \in Jobs!Ids
      BY <2>1, <2>4 DEF Typing, Replies, Accepts, NoId, Jobs!Ids
    <3>2. [from |-> text[Head(local).id], outcome |-> Head(local).outcome] \in Entries
      BY <2>1, <3>1 DEF Typing, TypeOK, WorkerTypes, Replies, Entries
    <3>3. CacheTypes'
      BY <1>22, <2>4, <3>1, <3>2, StoreType DEF Typing, TypeOK, CacheTypes, RunCallback
    <3>4. RequestTypes' /\ request'.id = NoId
      BY <1>22, <2>4, DropType DEF RunCallback
    <3>5. [board |-> Head(local).outcome, key |-> request.key] \in [board : Boards, key : Texts]
      BY <2>1, <3>1 DEF Replies, Outcomes, Boards, Texts
    <3>6. ViewTypes'
      BY <1>22, <2>4, <3>5 DEF Typing, TypeOK, ViewTypes, RunCallback
    <3> QED BY <1>22, <2>2, <3>3, <3>4, <3>6, Frame
            DEF Typing, TypeOK, RunCallback, lifeVars, workerVars
  <2> QED BY <2>3, <2>4
<1>23. CASE UNCHANGED vars
  BY <1>23, Frame
     DEF Typing, TypeOK, vars, lifeVars, requestVars, workerVars, dispatchVars
<1> QED
  BY <1>1, <1>2, <1>3, <1>4, <1>5, <1>6, <1>7, <1>8, <1>9, <1>10, <1>11, <1>12, <1>13, <1>14,
     <1>15, <1>16, <1>17, <1>18, <1>19, <1>20, <1>21, <1>22, <1>23
     DEF Next, LifeStep, KeyStep, WorkerStep, DispatchStep

\* The program starts with the types right.
LEMMA TypingInit == Init => Typing
<1> SUFFICES ASSUME Init PROVE Typing
  OBVIOUS
<1>0. 0 \in 0 .. MaxSessions /\ 0 \in 0 .. MaxId
  BY BoundsAssumption
<1>1. LifeTypes /\ tsf = "idle" /\ active = FALSE
  BY <1>0, Zenon DEF Init, LifeTypes
<1>2. ViewTypes
  BY DEF Init, ViewTypes, Boards, Texts
<1>3. RequestTypes /\ request.id = NoId
  BY DEF Init, RequestTypes, NoRequest, MaybeIds, Texts
<1>4. CacheTypes
  BY DEF Init, CacheTypes, NoEntry, Entries, Texts
<1>5. WorkerTypes /\ worker.stage = "idle"
  BY DEF Init, WorkerTypes, NoWork, MaybeIds, Texts
<1>6. DispatchTypes
  BY DEF Init, DispatchTypes
<1>7. Jobs!TypeOK
  BY <1>0 DEF Init, Jobs!Init, Jobs!TypeOK
<1> QED BY <1>1, <1>2, <1>3, <1>4, <1>5, <1>6, <1>7 DEF Typing, TypeOK

\* In every state of the text service the variables have their types.
THEOREM TypeCorrect == Spec => []TypeOK
<1>1. Typing => TypeOK
  BY DEF Typing
<1> QED BY <1>1, TypingInit, TypingStep, PTL DEF Spec

-----------------------------------------------------------------------------
\* The inductive invariant.

Answers == CacheProvenance /\ NoCancelledAnswer

\* The invariant speaks of these variables only, and of a job only that its id
\* was handed out.
LEMMA IInvFrame ==
    ASSUME IInv, UNCHANGED <<request, pending, cache, text, callbacks, local, nextId, cancelled>>,
           \A id \in Jobs!Ids : job'[id] # "free" => job[id] # "free"
    PROVE  IInv'
<1>1. Bookkeeping'
  BY DEF IInv, Bookkeeping
<1>2. PendingMatchesRequest' /\ Answers'
  BY DEF IInv, Answers, PendingMatchesRequest, CacheProvenance, NoCancelledAnswer, Cached
<1> QED BY <1>1, <1>2 DEF IInv, Answers

\* A request that is cancelled leaves the books in order: its flag belongs to an
\* id that was handed out, and nothing is outstanding any more.
LEMMA CancelKeepsBooks ==
    ASSUME Typing, Bookkeeping, CancelRequest, UNCHANGED <<callbacks, local>>
    PROVE  Bookkeeping' /\ PendingMatchesRequest'
<1>1. request'.id = NoId /\ pending' = FALSE
  BY DEF CancelRequest, DropRequest, NoRequest
<1>2. request.id # NoId => request.id \in 1 .. nextId
  BY DEF Typing, TypeOK, RequestTypes, MaybeIds, Jobs!Ids, Jobs!TypeOK, Bookkeeping
<1>3. cancelled \subseteq FlagsAfterCancel /\ FlagsAfterCancel \subseteq 1 .. nextId
  BY <1>2 DEF Bookkeeping, FlagsAfterCancel
<1>4. Bookkeeping'
  BY <1>1, <1>3 DEF Bookkeeping, CancelRequest
<1>5. PendingMatchesRequest'
  BY <1>1 DEF PendingMatchesRequest
<1> QED BY <1>4, <1>5

\* An empty cache has only right answers.
LEMMA ClearKeepsAnswers == ClearCache => Answers'
BY DEF ClearCache, Answers, CacheProvenance, NoCancelledAnswer, Cached, NoEntry

\* So has a cache that is left alone.
LEMMA SameKeepsAnswers == Answers /\ cache' = cache => Answers'
BY DEF Answers, CacheProvenance, NoCancelledAnswer, Cached

\* So has one that loses the answer to one key.
LEMMA EraseKeepsAnswers ==
    ASSUME CacheTypes, Answers, NEW key \in Text, Erase(key)
    PROVE  Answers'
BY DEF CacheTypes, Erase, Answers, CacheProvenance, NoCancelledAnswer, Cached, NoEntry

\* So has one that gets a right answer: storing can evict an entry, the new one
\* included, but never changes another.
LEMMA StoreKeepsAnswers ==
    ASSUME Answers, NEW key \in Text, NEW entry, entry.from = key, entry.outcome # "cancelled",
           Store(key, entry)
    PROVE  Answers'
<1>1. \A t \in Text : cache'[t] = NoEntry \/ cache'[t] = cache[t] \/ (t = key /\ cache'[t] = entry)
  BY DEF Store
<1>2. NoEntry.outcome = "none"
  BY DEF NoEntry
<1> QED BY <1>1, <1>2 DEF Answers, CacheProvenance, NoCancelledAnswer, Cached

\* A step that cancels the request and leaves the cache alone.
LEMMA CancelStep ==
    ASSUME Typing, IInv, CancelRequest, UNCHANGED <<callbacks, local>>, Answers'
    PROVE  IInv'
BY CancelKeepsBooks DEF IInv, Answers

\* Asking for a translation keeps the invariant.
LEMMA StartStep ==
    ASSUME Typing, IInv, active, NEW key \in Text, NEW force \in BOOLEAN,
           StartTranslationForCandidate(key, force), UNCHANGED <<callbacks, local>>
    PROVE  IInv'
<1>1. CASE ShowCached(key)
  BY <1>1, CancelStep, SameKeepsAnswers DEF IInv, Answers, ShowCached, Touch
<1>2. CASE AskWorker(key, force)
  <2>1. Answers'
    BY <1>2, EraseKeepsAnswers, SameKeepsAnswers
       DEF IInv, Answers, Typing, TypeOK, AskWorker, cacheVars
  <2>2. nextId \in Nat /\ nextId + 1 \in Jobs!Ids /\ nextId' = nextId + 1
    BY <1>2, BoundsAssumption DEF Typing, TypeOK, AskWorker, Jobs!Enlist, Jobs!TypeOK, Jobs!Ids
  <2>3. request.id # NoId => request.id \in 1 .. nextId
    BY DEF IInv, Typing, TypeOK, RequestTypes, MaybeIds, Jobs!Ids, Jobs!TypeOK, Bookkeeping
  <2>4. cancelled \subseteq cancelled' /\ cancelled' \subseteq 1 .. nextId
    BY <1>2, <2>3 DEF IInv, Bookkeeping, AskWorker, FlagsAfterCancel
  <2>5. cancelled' \subseteq 1 .. nextId' /\ nextId + 1 \notin cancelled'
    BY <2>2, <2>4
  <2>6. request'.id = nextId + 1 /\ text'[nextId + 1] = key /\ request'.key = key /\ pending' = TRUE
    BY <1>2, <2>2 DEF Typing, TypeOK, WorkerTypes, AskWorker
  <2>7. \A id \in Jobs!Ids : job'[id] # "free" => id <= nextId'
    BY <1>2, <2>2 DEF IInv, Bookkeeping, Typing, TypeOK, AskWorker, Jobs!Enlist, Jobs!TypeOK, Jobs!Ids
  <2>8. Bookkeeping'
    <3>1. \A i \in 1 .. Len(callbacks') :
             callbacks'[i].outcome = "cancelled" => callbacks'[i].id \in cancelled'
      BY <2>4 DEF IInv, Bookkeeping
    <3>2. \A i \in 1 .. Len(local') : local'[i].outcome = "cancelled" => local'[i].id \in cancelled'
      BY <2>4 DEF IInv, Bookkeeping
    <3>3. request'.id <= nextId' /\ request'.id \notin cancelled' /\ text'[request'.id] = request'.key
      BY <2>2, <2>5, <2>6
    <3> QED BY <2>5, <2>7, <3>1, <3>2, <3>3 DEF Bookkeeping
  <2>9. PendingMatchesRequest'
    BY <2>2, <2>6 DEF PendingMatchesRequest, NoId
  <2> QED BY <2>1, <2>8, <2>9 DEF IInv, Answers
<1>3. CASE AnswerAtOnce(key)
  <2>1. Answers'
    BY <1>3, StoreKeepsAnswers DEF IInv, Answers, AnswerAtOnce
  <2> QED BY <1>3, <2>1, CancelStep DEF AnswerAtOnce
<1> QED BY <1>1, <1>2, <1>3 DEF StartTranslationForCandidate

\* Every step keeps the invariant.
LEMMA IInvStep == Typing /\ IInv /\ [Next]_vars => IInv'
<1> SUFFICES ASSUME Typing, IInv, [Next]_vars PROVE IInv'
  OBVIOUS
<1> USE DEF dispatchVars, requestVars, cacheVars, workerVars, jobVars
<1>1. ASSUME NEW kind \in {"llm", "dictionary", "unavailable"}, NEW created \in BOOLEAN,
             Activate(kind, created)
      PROVE  IInv'
  BY <1>1, CancelStep, ClearKeepsAnswers DEF Activate
<1>2. CASE Deactivate
  <2>1. request'.id = NoId /\ pending' = FALSE
    BY <1>2 DEF Deactivate, DropRequest, NoRequest
  <2>2. Jobs!LiveJobs(session) \subseteq 1 .. nextId
    BY DEF IInv, Bookkeeping, Jobs!LiveJobs, Jobs!Live, Jobs!Ids
  <2>3. cancelled \subseteq cancelled' /\ cancelled' \subseteq 1 .. nextId'
    BY <1>2, <2>2 DEF IInv, Bookkeeping, Deactivate, Jobs!CloseQueue
  <2>4. Bookkeeping'
    BY <1>2, <2>1, <2>3 DEF IInv, Bookkeeping, Deactivate, Jobs!CloseQueue
  <2>5. PendingMatchesRequest'
    BY <2>1 DEF PendingMatchesRequest
  <2> QED BY <1>2, <2>4, <2>5, ClearKeepsAnswers DEF IInv, Answers, Deactivate
<1>3. CASE DeactivateReturns
  <2>1. Bookkeeping'
    BY <1>3 DEF IInv, Bookkeeping, DeactivateReturns
  <2> QED BY <1>3, <2>1, SameKeepsAnswers
          DEF IInv, Answers, PendingMatchesRequest, DeactivateReturns
<1>4. ASSUME NEW t \in Text, OpenCandidateUI(t)
      PROVE  IInv'
  BY <1>4, CancelStep, SameKeepsAnswers DEF IInv, Answers, OpenCandidateUI
<1>5. ASSUME NEW t \in Text, EnterDraft(t)
      PROVE  IInv'
  BY <1>5, CancelStep, SameKeepsAnswers DEF IInv, Answers, EnterDraft
<1>6. ASSUME NEW t \in Text, MergeLayer2Selection(t)
      PROVE  IInv'
  BY <1>6, IInvFrame DEF MergeLayer2Selection
<1>7. CASE CloseCandidateUI
  BY <1>7, CancelStep, SameKeepsAnswers DEF IInv, Answers, CloseCandidateUI
<1>8. CASE SwitchToLayer2FromLayer1
  BY <1>8, IInvFrame DEF SwitchToLayer2FromLayer1
<1>9. CASE BackToLayer1
  BY <1>9, IInvFrame DEF BackToLayer1
<1>10. CASE EscapeLayer2
  BY <1>10, IInvFrame DEF EscapeLayer2
<1>11. CASE EscapeTranslation
  BY <1>11, CancelStep, SameKeepsAnswers DEF IInv, Answers, EscapeTranslation
<1>12. CASE ToggleKanaKanjiOnlyMode
  BY <1>12, CancelStep, SameKeepsAnswers DEF IInv, Answers, ToggleKanaKanjiOnlyMode
<1>13. ASSUME NEW t \in Text, NEW force \in BOOLEAN, SwitchToTranslationTab(t, force)
       PROVE  IInv'
  BY <1>13, StartStep DEF SwitchToTranslationTab, Key
<1>14. ASSUME NEW force \in BOOLEAN, HandleTranslationSpace(force)
       PROVE  IInv'
  BY <1>14, StartStep DEF HandleTranslationSpace, Key, Typing, TypeOK, ViewTypes, Texts
<1>15. CASE CommitTranslationSelection
  BY <1>15, CancelStep, SameKeepsAnswers DEF IInv, Answers, CommitTranslationSelection
<1>16. ASSUME NEW id \in Jobs!Ids, WorkerBegin(id)
       PROVE  IInv'
  BY <1>16, IInvFrame DEF WorkerBegin, Jobs!BeginJob, Typing, TypeOK, Jobs!TypeOK
<1>17. ASSUME NEW id \in Jobs!Ids, WorkerSkip(id)
       PROVE  IInv'
  BY <1>17, IInvFrame DEF WorkerSkip, Jobs!SkipJob, Typing, TypeOK, Jobs!TypeOK
<1>18. ASSUME NEW outcome \in Outcomes, WorkerReply(outcome)
       PROVE  IInv'
  <2> DEFINE reply == [id |-> worker.id, outcome |-> outcome]
  <2>1. reply \in Replies
    BY <1>18 DEF Typing, TypeOK, WorkerTypes, MaybeIds, Replies, WorkerReply
  <2>2. \A i \in 1 .. Len(callbacks') : callbacks'[i] = reply \/
            (i \in 1 .. Len(callbacks) /\ callbacks'[i] = callbacks[i])
    BY <1>18, <2>1 DEF Typing, TypeOK, DispatchTypes, WorkerReply
  <2>3. reply.outcome = "cancelled" => reply.id \in cancelled
    BY <1>18 DEF WorkerReply
  <2>4. \A i \in 1 .. Len(callbacks') :
           callbacks'[i].outcome = "cancelled" => callbacks'[i].id \in cancelled
    BY <2>2, <2>3 DEF IInv, Bookkeeping
  <2>5. Bookkeeping'
    BY <1>18, <2>4 DEF IInv, Bookkeeping, WorkerReply
  <2> QED BY <1>18, <2>5, SameKeepsAnswers DEF IInv, Answers, PendingMatchesRequest, WorkerReply
<1>19. CASE WorkerPostMessage
  BY <1>19, IInvFrame DEF WorkerPostMessage
<1>20. CASE WorkerFinish
  BY <1>20, IInvFrame
     DEF WorkerFinish, Jobs!FinishJob, Typing, TypeOK, Jobs!TypeOK
<1>21. CASE DrainMainThreadCallbacks
  <2>1. Bookkeeping'
    BY <1>21 DEF IInv, Bookkeeping, DrainMainThreadCallbacks
  <2> QED BY <1>21, <2>1, SameKeepsAnswers
          DEF IInv, Answers, PendingMatchesRequest, DrainMainThreadCallbacks
<1>22. CASE RunCallback
  <2> DEFINE reply == Head(local)
  <2>1. /\ local # <<>> /\ local \in Seq(Replies) /\ reply \in Replies
        /\ reply = local[1] /\ 1 \in 1 .. Len(local)
        /\ local' = Tail(local) /\ UNCHANGED <<callbacks, text, nextId, job, cancelled>>
    BY <1>22 DEF Typing, TypeOK, DispatchTypes, RunCallback
  <2>2. \A i \in 1 .. Len(local') : local'[i].outcome = "cancelled" => local'[i].id \in cancelled'
    <3>1. \A i \in 1 .. Len(local') : i + 1 \in 1 .. Len(local) /\ local'[i] = local[i + 1]
      BY <2>1
    <3> QED BY <2>1, <3>1 DEF IInv, Bookkeeping
  <2>3. CASE ~ Accepts(reply.id)
    <3>1. UNCHANGED <<request, pending, cache>>
      BY <1>22, <2>3 DEF RunCallback
    <3>2. Bookkeeping'
      BY <2>1, <2>2, <3>1 DEF IInv, Bookkeeping
    <3> QED BY <3>1, <3>2, SameKeepsAnswers DEF IInv, Answers, PendingMatchesRequest
  <2>4. CASE Accepts(reply.id)
    <3>1. request.id # NoId /\ request.key \in Text /\ reply.id = request.id
      BY <2>1, <2>4 DEF Typing, Replies, Accepts, NoId, Jobs!Ids
    <3>2. text[reply.id] = request.key /\ reply.outcome # "cancelled"
      BY <2>1, <3>1 DEF IInv, Bookkeeping
    <3>3. Answers'
      BY <1>22, <2>4, <3>1, <3>2, StoreKeepsAnswers DEF IInv, Answers, RunCallback
    <3>4. request'.id = NoId /\ pending' = FALSE
      BY <1>22, <2>4 DEF RunCallback, DropRequest, NoRequest
    <3>5. Bookkeeping'
      BY <2>1, <2>2, <3>4 DEF IInv, Bookkeeping
    <3> QED BY <3>3, <3>4, <3>5 DEF IInv, Answers, PendingMatchesRequest
  <2> QED BY <2>3, <2>4
<1>23. CASE UNCHANGED vars
  BY <1>23, IInvFrame DEF vars
<1> QED
  BY <1>1, <1>2, <1>3, <1>4, <1>5, <1>6, <1>7, <1>8, <1>9, <1>10, <1>11, <1>12, <1>13, <1>14,
     <1>15, <1>16, <1>17, <1>18, <1>19, <1>20, <1>21, <1>22, <1>23
     DEF Next, LifeStep, KeyStep, WorkerStep, DispatchStep

\* Before the first activation nothing is cached, outstanding or on its way.
LEMMA IInvInit == Init => IInv
<1> SUFFICES ASSUME Init PROVE IInv
  OBVIOUS
<1>1. request.id = NoId /\ pending = FALSE
  BY DEF Init, NoRequest
<1>2. Bookkeeping
  BY <1>1 DEF Init, Bookkeeping, Jobs!Init
<1>3. PendingMatchesRequest
  BY <1>1 DEF PendingMatchesRequest
<1>4. CacheProvenance /\ NoCancelledAnswer
  BY DEF Init, CacheProvenance, NoCancelledAnswer, Cached, NoEntry
<1> QED BY <1>2, <1>3, <1>4 DEF IInv

\* The inductive invariant holds in every state.
LEMMA Invariance == Spec => []IInv
BY TypingInit, TypingStep, IInvInit, IInvStep, PTL DEF Spec

\* A cached answer is the answer to its own key: no late, repeated or replaced
\* reply can put a translation of one text under another (OnProviderResult).
THEOREM CacheProvenanceHolds == Spec => []CacheProvenance
<1>1. IInv => CacheProvenance
  BY DEF IInv
<1> QED BY <1>1, Invariance, PTL

\* The reply of a job that noticed its cancellation is never accepted, because
\* the id is forgotten in the handler that sets the flag
\* (CancelActiveTranslationRequest) and a new job never carries an old flag.
THEOREM NoCancelledAnswerHolds == Spec => []NoCancelledAnswer
<1>1. IInv => NoCancelledAnswer
  BY DEF IInv
<1> QED BY <1>1, Invariance, PTL

\* The waiting colour (m_translationPendingActive) never outlives the request,
\* nor the request the colour.
THEOREM PendingMatchesRequestHolds == Spec => []PendingMatchesRequest
<1>1. IInv => PendingMatchesRequest
  BY DEF IInv
<1> QED BY <1>1, Invariance, PTL

-----------------------------------------------------------------------------
\* What the user who waits in the Translation tab relies on: the tab shows what
\* Enter would commit or a wait that can end, and no reply lies in
\* m_mainThreadCallbacks without a message that will fetch it.

\* What a session leaves behind: the thread drains only while it is active and
\* joins only when it is not; replies are in its hands only while it drains; a
\* live job is one of the present session; and between two sessions there is
\* no job, no reply, no request and no source.
BetweenSessions ==
    /\ tsf = "joining" => ~active
    /\ tsf = "draining" => active
    /\ tsf # "draining" => local = <<>>
    /\ ~active => source = NoText /\ request.id = NoId
    /\ \A id \in Jobs!Ids : Jobs!Live(id) => owner[id] = session
    /\ ~active /\ tsf = "idle" =>
        /\ worker = NoWork /\ callbacks = <<>>
        /\ \A id \in Jobs!Ids : ~Jobs!Live(id)

\* A key has one access stamp, so that the oldest key of the cache is never the
\* one that was just stored.
OneStampPerKey ==
    \A i, j \in 1 .. Len(recency) : recency[i] = recency[j] => i = j

\* The request of a tab that waits is for the text the tab is about, and its
\* reply is still to come.
WaitsForSource ==
    tab = "Translation" /\ pending => request.key = source /\ ReplyOnItsWay

WInv ==
    /\ BetweenSessions /\ OneStampPerKey /\ WaitsForSource
    /\ NoLostDispatch /\ TranslationTabIsCurrent

-----------------------------------------------------------------------------
\* The order in which the keys of the cache were used.

\* Removing a key leaves the other keys, each once, in their order.
LEMMA WithoutKey ==
    ASSUME recency \in Seq(Text), OneStampPerKey, NEW key \in Text
    PROVE  /\ Without(key) \in Seq(Text)
           /\ \A i \in 1 .. Len(Without(key)) : Without(key)[i] # key
           /\ \A i, j \in 1 .. Len(Without(key)) : Without(key)[i] = Without(key)[j] => i = j
<1>1. Without(key) \in Seq(Text)
  BY WithoutType
<1>2. CASE \E i \in 1 .. Len(recency) : recency[i] = key
  <2>1. PICK n \in 1 .. Len(recency) : recency[n] = key
                                       /\ n = CHOOSE j \in 1 .. Len(recency) : recency[j] = key
    BY <1>2
  <2> DEFINE older == SubSeq(recency, 1, n - 1)
             newer == SubSeq(recency, n + 1, Len(recency))
  <2>2. /\ older \in Seq(Text) /\ Len(older) = n - 1
        /\ newer \in Seq(Text) /\ Len(newer) = Len(recency) - n
        /\ \A i \in 1 .. n - 1 : older[i] = recency[i]
        /\ \A i \in 1 .. Len(recency) - n : newer[i] = recency[n + i]
    BY <2>1
  <2>3. Without(key) = older \o newer
    BY <1>2, <2>1 DEF Without, RemoveAt
  <2> HIDE DEF older, newer
  <2>4. Len(Without(key)) = Len(recency) - 1 /\ Len(recency) \in Nat
    BY <2>1, <2>2, <2>3
  <2>5. \A i \in 1 .. Len(older \o newer) :
           (older \o newer)[i] = IF i <= Len(older) THEN older[i] ELSE newer[i - Len(older)]
    BY <2>2
  <2>6. ASSUME NEW i \in 1 .. Len(Without(key))
        PROVE  \E k \in 1 .. Len(recency) : /\ Without(key)[i] = recency[k]
                                            /\ k = IF i < n THEN i ELSE i + 1
    <3>1. CASE i < n
      <4>1. i \in 1 .. n - 1 /\ i <= Len(older) /\ i \in 1 .. Len(recency)
        BY <2>1, <2>2, <2>4, <3>1
      <4>2. Without(key)[i] = recency[i]
        BY <2>2, <2>3, <2>5, <4>1
      <4> QED BY <3>1, <4>1, <4>2
    <3>2. CASE ~(i < n)
      <4>1. /\ i - (n - 1) \in 1 .. Len(recency) - n /\ n + (i - (n - 1)) = i + 1
            /\ ~(i <= Len(older)) /\ i - Len(older) = i - (n - 1) /\ i + 1 \in 1 .. Len(recency)
        BY <2>1, <2>2, <2>4, <3>2
      <4>2. Without(key)[i] = newer[i - (n - 1)]
        BY <2>3, <2>5, <4>1
      <4>3. Without(key)[i] = recency[i + 1]
        BY <2>2, <4>1, <4>2
      <4> QED BY <3>2, <4>1, <4>3
    <3> QED BY <3>1, <3>2
  <2>7. ASSUME NEW i \in 1 .. Len(Without(key)) PROVE Without(key)[i] # key
    <3>1. PICK k \in 1 .. Len(recency) : /\ Without(key)[i] = recency[k]
                                         /\ k = IF i < n THEN i ELSE i + 1
      BY <2>6
    <3>2. i \in Nat /\ n \in Nat
      BY <2>1, <2>4
    <3>3. k # n
      BY <3>1, <3>2
    <3>4. recency[n] = key
      BY <2>1
    <3> QED BY <3>1, <3>3, <3>4 DEF OneStampPerKey
  <2>8. ASSUME NEW i \in 1 .. Len(Without(key)), NEW j \in 1 .. Len(Without(key)),
               Without(key)[i] = Without(key)[j]
        PROVE  i = j
    <3>1. PICK k \in 1 .. Len(recency) : /\ Without(key)[i] = recency[k]
                                         /\ k = IF i < n THEN i ELSE i + 1
      BY <2>6
    <3>2. PICK l \in 1 .. Len(recency) : /\ Without(key)[j] = recency[l]
                                         /\ l = IF j < n THEN j ELSE j + 1
      BY <2>6
    <3>3. k = l
      BY <2>8, <3>1, <3>2 DEF OneStampPerKey
    <3> QED BY <2>1, <2>4, <3>1, <3>2, <3>3
  <2> QED BY <1>1, <2>7, <2>8
<1>3. CASE ~ \E i \in 1 .. Len(recency) : recency[i] = key
  <2>1. Without(key) = recency
    BY <1>3 DEF Without
  <2> QED BY <1>1, <1>3, <2>1 DEF OneStampPerKey
<1> QED BY <1>2, <1>3

\* A key that becomes the newest has one stamp still.
LEMMA NewestKey ==
    ASSUME recency \in Seq(Text), OneStampPerKey, NEW key \in Text
    PROVE  LET order == Append(Without(key), key) IN
           /\ order \in Seq(Text) /\ Len(order) \in Nat \ {0}
           /\ \A i, j \in 1 .. Len(order) : order[i] = order[j] => i = j
           /\ Len(order) > 1 => order[1] # key
<1> DEFINE others == Without(key)
           order == Append(others, key)
<1>1. /\ others \in Seq(Text)
      /\ \A i \in 1 .. Len(others) : others[i] # key
      /\ \A i, j \in 1 .. Len(others) : others[i] = others[j] => i = j
  BY WithoutKey
<1> HIDE DEF others
<1>2. /\ order \in Seq(Text) /\ Len(others) \in Nat /\ Len(order) = Len(others) + 1
      /\ order[Len(others) + 1] = key
      /\ \A i \in 1 .. Len(others) : order[i] = others[i]
  BY <1>1
<1>3. ASSUME NEW i \in 1 .. Len(order), NEW j \in 1 .. Len(order), order[i] = order[j]
      PROVE  i = j
  <2>1. i \in 1 .. Len(others) \/ i = Len(others) + 1
    BY <1>2
  <2>2. j \in 1 .. Len(others) \/ j = Len(others) + 1
    BY <1>2
  <2> HIDE DEF order
  <2> QED BY <1>1, <1>2, <1>3, <2>1, <2>2
<1>4. Len(order) > 1 => order[1] # key
  BY <1>1, <1>2
<1> HIDE DEF order
<1>5. Len(order) \in Nat \ {0}
  BY <1>2
<1> QED BY <1>2, <1>3, <1>4, <1>5 DEF order, others

\* What is stored stays stored, whatever entry has to go: the cache has room for
\* one at least, and the oldest key is another one.
LEMMA StoredStays ==
    ASSUME recency \in Seq(Text), OneStampPerKey, NEW key \in Text, NEW entry, Store(key, entry)
    PROVE  OneStampPerKey' /\ cache'[key] = entry
<1> DEFINE order == Append(Without(key), key)
<1>1. /\ order \in Seq(Text) /\ Len(order) \in Nat \ {0}
      /\ \A i, j \in 1 .. Len(order) : order[i] = order[j] => i = j
      /\ Len(order) > 1 => order[1] # key
  BY NewestKey
<1>2. /\ recency' = IF Len(order) > MaxEntries THEN Tail(order) ELSE order
      /\ cache' = [t \in Text |-> IF Len(order) > MaxEntries /\ t = Head(order) THEN NoEntry
                                  ELSE IF t = key THEN entry ELSE cache[t]]
  BY DEF Store
<1> HIDE DEF order
<1>3. CASE Len(order) > MaxEntries
  <2>1. Len(order) > 1 /\ Head(order) # key
    BY <1>1, <1>3, MaxEntriesAssumption
  <2>2. /\ Len(recency') = Len(order) - 1
        /\ \A i \in 1 .. Len(recency') : recency'[i] = order[i + 1] /\ i + 1 \in 1 .. Len(order)
    BY <1>1, <1>2, <1>3, <2>1
  <2>3. ASSUME NEW i \in 1 .. Len(recency'), NEW j \in 1 .. Len(recency'), recency'[i] = recency'[j]
        PROVE  i = j
    <3>1. i + 1 = j + 1
      BY <1>1, <2>2, <2>3
    <3> QED BY <1>1, <2>2, <3>1
  <2> QED BY <1>2, <1>3, <2>1, <2>3 DEF OneStampPerKey
<1>4. CASE ~(Len(order) > MaxEntries)
  BY <1>1, <1>2, <1>4 DEF OneStampPerKey
<1> QED BY <1>3, <1>4

\* So it is with a key that is looked at again, or erased.
LEMMA OtherStamps ==
    ASSUME recency \in Seq(Text), OneStampPerKey, NEW key \in Text
    PROVE  /\ Touch(key) => OneStampPerKey'
           /\ Erase(key) => OneStampPerKey'
           /\ ClearCache => OneStampPerKey'
<1>1. Touch(key) => OneStampPerKey'
  BY NewestKey DEF Touch, OneStampPerKey
<1>2. Erase(key) => OneStampPerKey'
  BY WithoutKey DEF Erase, OneStampPerKey
<1>3. ClearCache => OneStampPerKey'
  BY DEF ClearCache, OneStampPerKey
<1> QED BY <1>1, <1>2, <1>3

-----------------------------------------------------------------------------
\* The handlers of the TSF thread.

sessionVars == <<active, session, window, tsf, recency, worker, dispatchVars, owner, job>>

\* A handler that leaves the Translation tab, or finds the window closed and
\* drops the request, has nothing to show and nothing to wait for.
LEMMA LeavesTab ==
    ASSUME WInv, UNCHANGED sessionVars,
           tab' # "Translation" \/ (~ui' /\ pending' = FALSE),
           active \/ (source' = NoText /\ request'.id = NoId)
    PROVE  WInv'
<1> USE DEF sessionVars, dispatchVars
<1>1. BetweenSessions'
  BY DEF WInv, BetweenSessions, Jobs!Live
<1>2. OneStampPerKey' /\ NoLostDispatch'
  BY DEF WInv, OneStampPerKey, NoLostDispatch
<1>3. WaitsForSource' /\ TranslationTabIsCurrent'
  BY DEF WaitsForSource, TranslationTabIsCurrent
<1> QED BY <1>1, <1>2, <1>3 DEF WInv

\* Whoever asks for a translation sees the answer at once or a wait for it.
LEMMA StartWait ==
    ASSUME Typing, WInv, active, tsf = "idle", NEW key \in Text, NEW force \in BOOLEAN,
           StartTranslationForCandidate(key, force),
           UNCHANGED <<active, session, window, tsf, worker, dispatchVars>>
    PROVE  WInv'
<1> USE DEF dispatchVars
<1>1. NoLostDispatch'
  BY DEF WInv, NoLostDispatch
<1>2. recency \in Seq(Text) /\ OneStampPerKey /\ cache \in [Text -> Entries]
  BY DEF Typing, TypeOK, CacheTypes, WInv
<1>3. source' = key
  BY DEF StartTranslationForCandidate
<1>4. CASE AskWorker(key, force)
  <2>1. nextId + 1 \in Jobs!Ids
    BY <1>4, BoundsAssumption DEF Typing, TypeOK, AskWorker, Jobs!Enlist, Jobs!TypeOK, Jobs!Ids
  <2>2. /\ job' = [job EXCEPT ![nextId + 1] = "queued"]
        /\ owner' = [owner EXCEPT ![nextId + 1] = session]
        /\ job \in [Jobs!Ids -> {"free", "queued", "running", "done"}]
        /\ owner \in [Jobs!Ids -> Sessions \cup {Jobs!NoQueue}]
    BY <1>4 DEF Typing, TypeOK, AskWorker, Jobs!Enlist, Jobs!TypeOK
  <2>3. BetweenSessions'
    <3>1. \A id \in Jobs!Ids : Jobs!Live(id)' => owner'[id] = session'
      BY <2>1, <2>2 DEF WInv, BetweenSessions, Jobs!Live
    <3> QED BY <3>1 DEF WInv, BetweenSessions
  <2>4. OneStampPerKey'
    BY <1>2, <1>4, OtherStamps DEF AskWorker, cacheVars, OneStampPerKey
  <2>5. /\ request'.key = key /\ request'.id = nextId + 1 /\ pending' = TRUE
        /\ request' = [id |-> request'.id, key |-> key]
        /\ shown'.board = "waiting" /\ shown'.key = key
    BY <1>4 DEF AskWorker
  <2>6. job'[request'.id] = "queued"
    BY <2>1, <2>2, <2>5
  <2>7. WaitsForSource'
    BY <1>3, <2>5, <2>6 DEF WaitsForSource, ReplyOnItsWay
  <2>8. TranslationTabIsCurrent'
    BY <1>3, <2>5 DEF TranslationTabIsCurrent
  <2> QED BY <1>1, <2>3, <2>4, <2>7, <2>8 DEF WInv
<1>5. ASSUME CancelRequest, OneStampPerKey', shown'.key = key, shown'.board # "waiting",
             cache'[key].outcome = shown'.board
      PROVE  WInv'
  <2>1. pending' = FALSE /\ UNCHANGED <<owner, job>>
    BY <1>5 DEF CancelRequest, DropRequest
  <2>2. BetweenSessions'
    BY <2>1 DEF WInv, BetweenSessions, Jobs!Live
  <2>3. WaitsForSource' /\ TranslationTabIsCurrent'
    BY <1>3, <1>5, <2>1 DEF WaitsForSource, TranslationTabIsCurrent
  <2> QED BY <1>1, <1>5, <2>2, <2>3 DEF WInv
<1>6. CASE ShowCached(key)
  <2>1. OneStampPerKey' /\ cache' = cache
    BY <1>2, <1>6, OtherStamps DEF ShowCached, Touch
  <2>2. shown'.key = key /\ shown'.board = cache[key].outcome
    BY <1>6 DEF ShowCached
  <2>3. cache[key].outcome # "waiting"
    BY <1>2 DEF Entries, Outcomes
  <2> QED BY <1>5, <1>6, <2>1, <2>2, <2>3 DEF ShowCached
<1>7. CASE AnswerAtOnce(key)
  <2>1. OneStampPerKey' /\ cache'[key] = [from |-> key, outcome |-> "ok"]
    BY <1>2, <1>7, StoredStays DEF AnswerAtOnce
  <2>2. shown'.key = key /\ shown'.board = "ok"
    BY <1>7 DEF AnswerAtOnce
  <2> QED BY <1>5, <1>7, <2>1, <2>2 DEF AnswerAtOnce
<1> QED BY <1>4, <1>6, <1>7 DEF StartTranslationForCandidate

\* The keys keep the invariant.
LEMMA KeyStepWaits == Typing /\ WInv /\ KeyStep => WInv'
<1> SUFFICES ASSUME Typing, WInv, KeyStep PROVE WInv'
  OBVIOUS
<1> USE DEF Key, lifeVars, viewVars, requestVars, cacheVars, workerVars, dispatchVars, jobVars,
            sessionVars, CancelRequest, DropRequest, NoRequest, ToLayer1, CloseView
<1>1. ASSUME NEW t \in Text, OpenCandidateUI(t) PROVE WInv'
  BY <1>1, LeavesTab DEF OpenCandidateUI
<1>2. ASSUME NEW t \in Text, EnterDraft(t) PROVE WInv'
  BY <1>2, LeavesTab DEF EnterDraft
<1>3. ASSUME NEW t \in Text, MergeLayer2Selection(t) PROVE WInv'
  BY <1>3, LeavesTab DEF MergeLayer2Selection
<1>4. CASE CloseCandidateUI
  BY <1>4, LeavesTab DEF CloseCandidateUI
<1>5. CASE SwitchToLayer2FromLayer1
  BY <1>5, LeavesTab DEF SwitchToLayer2FromLayer1
<1>6. CASE BackToLayer1
  BY <1>6, LeavesTab DEF BackToLayer1
<1>7. CASE EscapeLayer2
  BY <1>7, LeavesTab DEF EscapeLayer2
<1>8. CASE EscapeTranslation
  BY <1>8, LeavesTab DEF EscapeTranslation
<1>9. CASE ToggleKanaKanjiOnlyMode
  <2>1. CASE ui /\ tab # "Layer1"
    BY <1>9, <2>1, LeavesTab DEF ToggleKanaKanjiOnlyMode
  <2>2. CASE ~ui \/ tab = "Layer1"
    BY <1>9, <2>2, LeavesTab DEF ToggleKanaKanjiOnlyMode
  <2> QED BY <2>1, <2>2
<1>10. ASSUME NEW t \in Text, NEW force \in BOOLEAN, SwitchToTranslationTab(t, force) PROVE WInv'
  BY <1>10, StartWait DEF SwitchToTranslationTab
<1>11. ASSUME NEW force \in BOOLEAN, HandleTranslationSpace(force) PROVE WInv'
  <2>1. source \in Text
    BY <1>11 DEF HandleTranslationSpace, Typing, TypeOK, ViewTypes, Texts
  <2> QED BY <1>11, <2>1, StartWait DEF HandleTranslationSpace
<1>12. CASE CommitTranslationSelection
  BY <1>12, LeavesTab DEF CommitTranslationSelection
<1> QED BY <1>1, <1>2, <1>3, <1>4, <1>5, <1>6, <1>7, <1>8, <1>9, <1>10, <1>11, <1>12 DEF KeyStep

\* Activate finds nothing of the session before, Deactivate leaves nothing.
LEMMA LifeStepWaits == Typing /\ IInv /\ WInv /\ LifeStep => WInv'
<1> SUFFICES ASSUME Typing, IInv, WInv, LifeStep PROVE WInv'
  OBVIOUS
<1> USE DEF lifeVars, viewVars, requestVars, cacheVars, workerVars, dispatchVars, jobVars
<1>0. BetweenSessions
  BY DEF WInv
<1>1. ASSUME NEW kind \in {"llm", "dictionary", "unavailable"}, NEW created \in BOOLEAN,
             Activate(kind, created)
      PROVE  WInv'
  <2>1. /\ ~active /\ tsf = "idle" /\ source' = NoText /\ request'.id = NoId /\ pending' = FALSE
        /\ callbacks' = <<>> /\ local' = <<>> /\ tsf' = "idle" /\ active'
        /\ UNCHANGED <<job, owner>>
    BY <1>0, <1>1 DEF Activate, BetweenSessions, CancelRequest, DropRequest, NoRequest
  <2>2. \A id \in Jobs!Ids : ~Jobs!Live(id)'
    BY <1>0, <2>1 DEF BetweenSessions, Jobs!Live
  <2>3. BetweenSessions'
    BY <2>1, <2>2 DEF BetweenSessions
  <2>4. OneStampPerKey'
    BY <1>1 DEF Activate, ClearCache, OneStampPerKey
  <2>5. WaitsForSource' /\ NoLostDispatch' /\ TranslationTabIsCurrent'
    BY <2>1 DEF WaitsForSource, NoLostDispatch, TranslationTabIsCurrent
  <2> QED BY <2>3, <2>4, <2>5 DEF WInv
<1>2. CASE Deactivate
  <2>1. /\ tsf = "idle" /\ ~active' /\ tsf' = "joining" /\ source' = NoText
        /\ request'.id = NoId /\ pending' = FALSE
        /\ UNCHANGED <<session, window, worker, callbacks, messages, local, job, owner>>
    BY <1>2 DEF Deactivate, DropRequest, NoRequest, Jobs!CloseQueue
  <2>2. BetweenSessions'
    BY <1>0, <2>1 DEF BetweenSessions, Jobs!Live
  <2>3. OneStampPerKey'
    BY <1>2 DEF Deactivate, ClearCache, OneStampPerKey
  <2>4. WaitsForSource' /\ TranslationTabIsCurrent'
    BY <2>1 DEF WaitsForSource, TranslationTabIsCurrent
  <2>5. NoLostDispatch'
    BY <2>1 DEF WInv, NoLostDispatch
  <2> QED BY <2>2, <2>3, <2>4, <2>5 DEF WInv
<1>3. CASE DeactivateReturns
  <2>1. /\ tsf = "joining" /\ ~active /\ tsf' = "idle" /\ source = NoText /\ request.id = NoId
        /\ worker = NoWork /\ Jobs!LiveJobs(session) = {} /\ callbacks' = <<>> /\ local = <<>>
        /\ UNCHANGED <<active, session, source, request, pending, recency, worker, local, job, owner>>
    BY <1>0, <1>3 DEF DeactivateReturns, BetweenSessions
  <2>2. \A id \in Jobs!Ids : ~Jobs!Live(id)
    BY <1>0, <2>1 DEF BetweenSessions, Jobs!LiveJobs
  <2>3. BetweenSessions'
    BY <2>1, <2>2 DEF BetweenSessions, Jobs!Live
  <2>4. ~pending'
    BY <2>1 DEF IInv, PendingMatchesRequest
  <2>5. OneStampPerKey' /\ NoLostDispatch'
    BY <2>1 DEF WInv, OneStampPerKey, NoLostDispatch
  <2>6. WaitsForSource' /\ TranslationTabIsCurrent'
    BY <2>1, <2>4 DEF WaitsForSource, TranslationTabIsCurrent
  <2> QED BY <2>3, <2>5, <2>6 DEF WInv
<1> QED BY <1>1, <1>2, <1>3 DEF LifeStep

-----------------------------------------------------------------------------
\* The worker and the dispatch window: the reply on its way.

\* The worker hands the reply on and never drops the job that is waited for: it
\* skips only what was cancelled, and the outstanding request is not.
LEMMA WorkerStepWaits == Typing /\ IInv /\ WInv /\ WorkerStep => WInv'
<1> SUFFICES ASSUME Typing, IInv, WInv, WorkerStep PROVE WInv'
  OBVIOUS
<1> USE DEF lifeVars, viewVars, requestVars, cacheVars, workerVars, dispatchVars, jobVars
<1>0. /\ BetweenSessions /\ OneStampPerKey /\ WaitsForSource
      /\ NoLostDispatch /\ TranslationTabIsCurrent
      /\ job \in [Jobs!Ids -> {"free", "queued", "running", "done"}]
      /\ request.id \in MaybeIds /\ (pending => request.id # NoId /\ request.id \notin cancelled)
      /\ callbacks \in Seq(Replies)
  BY DEF WInv, Typing, TypeOK, RequestTypes, DispatchTypes, Jobs!TypeOK, IInv, Bookkeeping,
         PendingMatchesRequest
<1>1. ASSUME UNCHANGED <<viewVars, requestVars, cacheVars>>
      PROVE  OneStampPerKey' /\ TranslationTabIsCurrent'
  BY <1>0, <1>1 DEF OneStampPerKey, TranslationTabIsCurrent
<1>2. ASSUME NEW id \in Jobs!Ids, WorkerBegin(id) PROVE WInv'
  <2>1. /\ worker = NoWork /\ worker' = [stage |-> "fetching", id |-> id]
        /\ job[id] = "queued" /\ job' = [job EXCEPT ![id] = "running"]
        /\ UNCHANGED <<lifeVars, tsf, viewVars, requestVars, cacheVars, dispatchVars, owner>>
    BY <1>2 DEF WorkerBegin, Jobs!BeginJob
  <2>2. \A i \in Jobs!Ids : Jobs!Live(i)' => Jobs!Live(i)
    BY <1>0, <2>1 DEF Jobs!Live
  <2>3. active \/ tsf # "idle"
    BY <1>0, <2>1 DEF BetweenSessions, Jobs!Live
  <2>4. BetweenSessions'
    BY <1>0, <2>1, <2>2, <2>3 DEF BetweenSessions
  <2>5. WaitsForSource'
    BY <1>0, <2>1 DEF WaitsForSource, ReplyOnItsWay, NoWork
  <2>6. NoLostDispatch'
    BY <1>0, <2>1 DEF NoLostDispatch, NoWork
  <2> QED BY <1>1, <2>1, <2>4, <2>5, <2>6 DEF WInv
<1>3. ASSUME NEW id \in Jobs!Ids, WorkerSkip(id) PROVE WInv'
  <2>1. /\ id \in cancelled /\ job[id] = "queued" /\ job' = [job EXCEPT ![id] = "done"]
        /\ UNCHANGED <<lifeVars, tsf, viewVars, requestVars, cacheVars, worker, dispatchVars, owner>>
    BY <1>3 DEF WorkerSkip, Jobs!SkipJob
  <2>2. \A i \in Jobs!Ids : Jobs!Live(i)' => Jobs!Live(i)
    BY <1>0, <2>1 DEF Jobs!Live
  <2>3. BetweenSessions'
    BY <1>0, <2>1, <2>2 DEF BetweenSessions
  <2>4. WaitsForSource'
    BY <1>0, <2>1 DEF WaitsForSource, ReplyOnItsWay
  <2>5. NoLostDispatch'
    BY <1>0, <2>1 DEF NoLostDispatch
  <2> QED BY <1>1, <2>1, <2>3, <2>4, <2>5 DEF WInv
<1>4. ASSUME NEW outcome \in Outcomes, WorkerReply(outcome) PROVE WInv'
  <2> DEFINE reply == [id |-> worker.id, outcome |-> outcome]
  <2>1. /\ worker.stage = "fetching" /\ worker'.stage = "pushed"
        /\ callbacks' = Append(callbacks, reply)
        /\ UNCHANGED <<lifeVars, tsf, viewVars, requestVars, cacheVars, local, job, owner>>
    BY <1>4 DEF WorkerReply, Typing, TypeOK, WorkerTypes
  <2>2. reply \in Replies
    BY <1>4 DEF Typing, TypeOK, WorkerTypes, MaybeIds, Replies, WorkerReply
  <2>3. ToSet(callbacks') = ToSet(callbacks) \cup {reply}
    BY <1>0, <2>1, <2>2 DEF ToSet
  <2>4. BetweenSessions'
    BY <1>0, <2>1 DEF BetweenSessions, NoWork, Jobs!Live
  <2>5. WaitsForSource'
    <3>1. CASE worker = [stage |-> "fetching", id |-> request.id]
      BY <1>0, <2>1, <2>3, <3>1 DEF WaitsForSource, ReplyOnItsWay
    <3>2. CASE worker # [stage |-> "fetching", id |-> request.id]
      BY <1>0, <2>1, <2>3, <3>2 DEF WaitsForSource, ReplyOnItsWay
    <3> QED BY <3>1, <3>2
  <2>6. NoLostDispatch'
    BY <2>1 DEF NoLostDispatch
  <2> QED BY <1>1, <2>1, <2>4, <2>5, <2>6 DEF WInv
<1>5. CASE WorkerPostMessage
  <2>1. /\ worker.stage = "pushed" /\ worker'.stage = "posted"
        /\ messages \in Nat /\ messages' = IF window THEN messages + 1 ELSE messages
        /\ UNCHANGED <<lifeVars, tsf, viewVars, requestVars, cacheVars, callbacks, local, job, owner>>
    BY <1>5 DEF WorkerPostMessage, Typing, TypeOK, WorkerTypes, DispatchTypes
  <2>2. BetweenSessions'
    BY <1>0, <2>1 DEF BetweenSessions, NoWork, Jobs!Live
  <2>3. WaitsForSource'
    BY <1>0, <2>1 DEF WaitsForSource, ReplyOnItsWay
  <2>4. NoLostDispatch'
    BY <2>1 DEF NoLostDispatch
  <2> QED BY <1>1, <2>1, <2>2, <2>3, <2>4 DEF WInv
<1>6. CASE WorkerFinish
  <2>1. /\ worker.stage = "posted" /\ worker' = NoWork
        /\ worker.id \in Jobs!Ids /\ job[worker.id] = "running"
        /\ job' = [job EXCEPT ![worker.id] = "done"]
        /\ UNCHANGED <<lifeVars, tsf, viewVars, requestVars, cacheVars, dispatchVars, owner>>
    BY <1>6 DEF WorkerFinish, Jobs!FinishJob, Typing, TypeOK, WorkerTypes, MaybeIds
  <2>2. \A i \in Jobs!Ids : Jobs!Live(i)' => Jobs!Live(i)
    BY <1>0, <2>1 DEF Jobs!Live
  <2>3. BetweenSessions'
    BY <1>0, <2>1, <2>2 DEF BetweenSessions
  <2>4. WaitsForSource'
    BY <1>0, <2>1 DEF WaitsForSource, ReplyOnItsWay
  <2>5. NoLostDispatch'
    BY <1>0, <2>1 DEF NoLostDispatch
  <2> QED BY <1>1, <2>1, <2>3, <2>4, <2>5 DEF WInv
<1> QED BY <1>2, <1>3, <1>4, <1>5, <1>6 DEF WorkerStep

\* The elements of a queue are its head and those of its tail.
LEMMA HeadAndTail ==
    ASSUME NEW S, NEW s \in Seq(S), s # <<>>
    PROVE  Head(s) \in S /\ ToSet(s) = ToSet(Tail(s)) \cup {Head(s)}
<1>1. /\ Head(s) = s[1] /\ 1 \in 1 .. Len(s) /\ Len(s) \in Nat \ {0}
      /\ Tail(s) \in Seq(S) /\ DOMAIN Tail(s) = 1 .. Len(s) - 1
      /\ \A i \in 1 .. Len(s) - 1 : Tail(s)[i] = s[i + 1]
  OBVIOUS
<1>2. ToSet(s) = {s[i] : i \in 1 .. Len(s)}
  BY DEF ToSet
<1>3. ToSet(Tail(s)) = {Tail(s)[i] : i \in 1 .. Len(s) - 1}
  BY <1>1 DEF ToSet
<1>4. ASSUME NEW i \in 1 .. Len(s) PROVE s[i] \in ToSet(Tail(s)) \cup {Head(s)}
  <2>1. CASE i = 1
    BY <1>1, <2>1
  <2>2. CASE i # 1
    <3>1. i - 1 \in 1 .. Len(s) - 1 /\ s[i] = Tail(s)[i - 1]
      BY <1>1, <2>2
    <3> QED BY <1>3, <3>1
  <2> QED BY <2>1, <2>2
<1>5. ASSUME NEW x \in ToSet(Tail(s)) \cup {Head(s)} PROVE x \in ToSet(s)
  <2>1. \A i \in 1 .. Len(s) - 1 : i + 1 \in 1 .. Len(s)
    BY <1>1
  <2> QED BY <1>1, <1>2, <1>3, <2>1
<1>6. Head(s) \in S
  BY <1>1
<1> QED BY <1>2, <1>4, <1>5, <1>6

\* The thread takes out all the replies, and drops only those that are not for
\* the request that is waited for.
LEMMA DispatchStepWaits == Typing /\ IInv /\ WInv /\ DispatchStep => WInv'
<1> SUFFICES ASSUME Typing, IInv, WInv, DispatchStep PROVE WInv'
  OBVIOUS
<1> USE DEF lifeVars, viewVars, requestVars, cacheVars, workerVars, dispatchVars, jobVars
<1>0. /\ BetweenSessions /\ OneStampPerKey /\ WaitsForSource
      /\ NoLostDispatch /\ TranslationTabIsCurrent
      /\ pending => request.id # NoId
      /\ callbacks \in Seq(Replies) /\ local \in Seq(Replies)
  BY DEF WInv, Typing, TypeOK, DispatchTypes, IInv, PendingMatchesRequest
<1>1. CASE DrainMainThreadCallbacks
  <2>1. /\ tsf = "idle" /\ local = <<>> /\ local' = callbacks /\ callbacks' = <<>>
        /\ tsf' = IF callbacks = <<>> THEN "idle" ELSE "draining"
        /\ UNCHANGED <<lifeVars, viewVars, requestVars, cacheVars, workerVars, jobVars>>
    BY <1>0, <1>1 DEF DrainMainThreadCallbacks, BetweenSessions
  <2>2. BetweenSessions'
    BY <1>0, <2>1 DEF BetweenSessions, Jobs!Live
  <2>3. ToSet(callbacks') \cup ToSet(local') = ToSet(callbacks) \cup ToSet(local)
    BY <2>1
  <2>4. WaitsForSource'
    BY <1>0, <2>1, <2>3 DEF WaitsForSource, ReplyOnItsWay
  <2>5. OneStampPerKey' /\ NoLostDispatch' /\ TranslationTabIsCurrent'
    BY <1>0, <2>1 DEF OneStampPerKey, NoLostDispatch, TranslationTabIsCurrent
  <2> QED BY <2>2, <2>4, <2>5 DEF WInv
<1>2. CASE RunCallback
  <2> DEFINE reply == Head(local)
  <2>1. /\ tsf = "draining" /\ local # <<>> /\ local' = Tail(local)
        /\ tsf' = IF Tail(local) = <<>> THEN "idle" ELSE "draining"
        /\ UNCHANGED <<lifeVars, ui, tab, merged, kanaKanjiOnly, source, workerVars,
                       callbacks, messages, jobVars>>
    BY <1>2 DEF RunCallback, Typing
  <2>2. reply \in Replies /\ ToSet(local) = ToSet(Tail(local)) \cup {reply}
    BY <1>0, <2>1, HeadAndTail
  <2>3. BetweenSessions' /\ NoLostDispatch'
    <3>1. request'.id \in {request.id, NoId} /\ active
      BY <1>0, <1>2, <2>1 DEF RunCallback, DropRequest, NoRequest, BetweenSessions
    <3> QED BY <1>0, <2>1, <3>1 DEF BetweenSessions, NoLostDispatch, Jobs!Live
  <2>4. CASE ~Accepts(reply.id)
    <3>1. UNCHANGED <<requestVars, cacheVars, shown>>
      BY <1>2, <2>4 DEF RunCallback
    <3>2. tab = "Translation" /\ pending => reply.id # request.id
      BY <1>0, <2>4 DEF WaitsForSource, Accepts
    <3>3. WaitsForSource'
      BY <1>0, <2>1, <2>2, <3>1, <3>2 DEF WaitsForSource, ReplyOnItsWay
    <3>4. OneStampPerKey' /\ TranslationTabIsCurrent'
      BY <1>0, <2>1, <3>1 DEF OneStampPerKey, TranslationTabIsCurrent
    <3> QED BY <2>3, <3>3, <3>4 DEF WInv
  <2>5. CASE Accepts(reply.id)
    <3> DEFINE entry == [from |-> text[reply.id], outcome |-> reply.outcome]
    <3>1. request.key \in Text /\ request.key = source
      BY <2>2, <2>5 DEF Typing, Replies, Accepts, NoId, Jobs!Ids
    <3>2. /\ pending' = FALSE /\ Store(request.key, entry)
          /\ shown' = IF tab = "Translation"
                      THEN [board |-> reply.outcome, key |-> request.key] ELSE shown
      BY <1>2, <2>5 DEF RunCallback, DropRequest
    <3>3. recency \in Seq(Text)
      BY DEF Typing, TypeOK, CacheTypes
    <3>4. OneStampPerKey' /\ cache'[request.key] = entry
      BY <1>0, <3>1, <3>2, <3>3, StoredStays
    <3>5. reply.outcome # "waiting"
      BY <2>2 DEF Replies, Outcomes
    <3>6. WaitsForSource'
      BY <3>2 DEF WaitsForSource
    <3>7. TranslationTabIsCurrent'
      BY <2>1, <3>1, <3>2, <3>4, <3>5 DEF TranslationTabIsCurrent
    <3> QED BY <2>3, <3>4, <3>6, <3>7 DEF WInv
  <2> QED BY <2>4, <2>5
<1> QED BY <1>1, <1>2 DEF DispatchStep

\* Before the first activation there is nothing to wait for.
LEMMA WInvInit == Init => WInv
<1> SUFFICES ASSUME Init PROVE WInv
  OBVIOUS
<1>1. BetweenSessions
  BY DEF Init, BetweenSessions, NoRequest, Jobs!Init, Jobs!Live
<1>2. OneStampPerKey /\ WaitsForSource /\ NoLostDispatch /\ TranslationTabIsCurrent
  BY DEF Init, OneStampPerKey, WaitsForSource, NoLostDispatch, TranslationTabIsCurrent
<1> QED BY <1>1, <1>2 DEF WInv

\* The invariant holds in every state.
LEMMA WaitInvariance == Spec => [](IInv /\ WInv)
<1>1. Typing /\ IInv /\ WInv /\ [Next]_vars => WInv'
  <2> SUFFICES ASSUME Typing, IInv, WInv, UNCHANGED vars PROVE WInv'
    BY LifeStepWaits, KeyStepWaits, WorkerStepWaits, DispatchStepWaits DEF Next
  <2> USE DEF vars, lifeVars, viewVars, requestVars, cacheVars, workerVars, dispatchVars, jobVars
  <2>1. BetweenSessions'
    BY DEF WInv, BetweenSessions, Jobs!Live
  <2>2. OneStampPerKey' /\ NoLostDispatch' /\ TranslationTabIsCurrent'
    BY DEF WInv, OneStampPerKey, NoLostDispatch, TranslationTabIsCurrent
  <2>3. WaitsForSource'
    BY DEF WInv, WaitsForSource, ReplyOnItsWay
  <2> QED BY <2>1, <2>2, <2>3 DEF WInv
<1> QED BY <1>1, TypingInit, TypingStep, IInvInit, IInvStep, WInvInit, PTL DEF Spec

\* A wait in the Translation tab can end: the job that is waited for is neither
\* lost nor cancelled and its reply is not thrown away, whatever the user did
\* before (CancelActiveTranslationRequest, OnProviderResult, ExecuteTranslationJob).
THEOREM WaitCanEnd == Spec => []RequestIsAnswerable
<1>1. IInv /\ WInv => RequestIsAnswerable
  BY DEF IInv, WInv, Bookkeeping, PendingMatchesRequest, WaitsForSource, RequestIsAnswerable
<1> QED BY <1>1, WaitInvariance, PTL

\* A reply in m_mainThreadCallbacks has a WM_ASYNC_DISPATCH message that will
\* fetch it, or the worker is about to post one (PostToMainThread).
THEOREM RepliesAreFetched == Spec => []NoLostDispatch
<1>1. WInv => NoLostDispatch
  BY DEF WInv
<1> QED BY <1>1, WaitInvariance, PTL

\* The Translation tab shows what Enter would commit, or the wait for it, even
\* when storing the answer evicts another (StoreTranslationCache).
THEOREM TabShowsWhatEnterCommits == Spec => []TranslationTabIsCurrent
<1>1. WInv => TranslationTabIsCurrent
  BY DEF WInv
<1> QED BY <1>1, WaitInvariance, PTL

=============================================================================
