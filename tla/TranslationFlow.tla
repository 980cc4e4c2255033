-------------------------- MODULE TranslationFlow --------------------------
(***************************************************************************)
(* The translation layer of one TextService (Ime3/rtas_text_service.h):    *)
(* the request that is outstanding, the cache of answers, the candidate    *)
(* tab that shows them, and the way of a reply from the provider's worker  *)
(* through the dispatch window back to the TSF thread.                     *)
(*                                                                         *)
(* A handler of the TSF thread is one action: nothing else runs on that    *)
(* thread meanwhile.  The worker runs the jobs of the provider's queue as  *)
(* JobService promises.  A text is a trimmed, non-empty string, which is   *)
(* its own cache key; the draft, the segments and the Layer2 candidates    *)
(* are left out: the handlers may find any text there.                     *)
(***************************************************************************)
EXTENDS Naturals, Sequences, FiniteSets, SequencesExt

CONSTANTS
    Text,         \* the texts that can be translated
    NoText,       \* the empty string
    MaxId,        \* bound on the requests handed to the worker
    MaxSessions,  \* bound on the Activate ... Deactivate sessions
    MaxEntries    \* m_maxTranslationCacheEntries

ASSUME NoTextAssumption == NoText \notin Text
ASSUME BoundsAssumption == MaxId \in Nat /\ MaxSessions \in Nat
ASSUME MaxEntriesAssumption == MaxEntries \in Nat \ {0}

VARIABLES
    active,         \* between Activate and Deactivate
    session,        \* how often Activate was called: names the provider's queue
    provider,       \* m_conversionProvider: how it translates
    window,         \* m_hwndAsyncDispatch exists
    tsf,            \* the TSF thread: "idle", "draining" or "joining"
    ui,             \* m_candidateUI exists
    tab,            \* m_layerState.tab
    merged,         \* m_layerState.merged_
    kanaKanjiOnly,  \* m_kanaKanjiOnlyMode
    source,         \* m_candidateSourceKey
    request,        \* m_translationRequest
    pending,        \* m_translationPendingActive
    cache,          \* m_translationCache
    recency,        \* the cached keys by lastAccessStamp, oldest first
    shown,          \* what the candidate window shows, and for which key
    text,           \* the text that each job translates
    worker,         \* the provider's worker thread and its job
    callbacks,      \* m_mainThreadCallbacks: the replies on their way
    messages,       \* the WM_ASYNC_DISPATCH messages in the queue of the window
    local,          \* the replies that DrainMainThreadCallbacks has yet to run
    nextId, owner, job, cancelled  \* the provider's queue: see JobService

Sessions == 1 .. MaxSessions
Jobs == INSTANCE JobService WITH Queues <- Sessions

lifeVars == <<active, session, provider, window>>
viewVars == <<ui, tab, merged, kanaKanjiOnly, source, shown>>
requestVars == <<request, pending>>
cacheVars == <<cache, recency>>
workerVars == <<text, worker>>
dispatchVars == <<callbacks, messages, local>>
jobVars == <<nextId, owner, job, cancelled>>
vars == <<lifeVars, tsf, viewVars, requestVars, cacheVars, workerVars, dispatchVars, jobVars>>

NoId == 0
NoRequest == [id |-> NoId, key |-> NoText]
NoEntry == [from |-> NoText, outcome |-> "none"]
NoWork == [stage |-> "idle", id |-> NoId]

\* What a reply, and the cache entry made of it, can be: a translation, an
\* error text, or the error text of a job that noticed its cancellation.
Outcomes == {"ok", "error", "cancelled"}
Texts == Text \cup {NoText}
MaybeIds == Jobs!Ids \cup {NoId}
Replies == [id : Jobs!Ids, outcome : Outcomes]
Entries == [from : Texts, outcome : Outcomes \cup {"none"}]
Boards == {"closed", "layer1", "layer2", "waiting", "ok", "error", "cancelled"}

LifeTypes ==
    /\ active \in BOOLEAN /\ session \in 0 .. MaxSessions
    /\ provider \in {"none", "llm", "dictionary", "unavailable"}
    /\ window \in BOOLEAN
ViewTypes ==
    /\ ui \in BOOLEAN /\ merged \in BOOLEAN /\ kanaKanjiOnly \in BOOLEAN
    /\ tab \in {"Layer1", "Layer2", "Translation"}
    /\ source \in Texts
    /\ shown \in [board : Boards, key : Texts]
RequestTypes == request \in [id : MaybeIds, key : Texts] /\ pending \in BOOLEAN
CacheTypes == cache \in [Text -> Entries] /\ recency \in Seq(Text)
WorkerTypes ==
    /\ text \in [Jobs!Ids -> Texts]
    /\ worker \in [stage : {"idle", "fetching", "pushed", "posted"}, id : MaybeIds]
DispatchTypes == callbacks \in Seq(Replies) /\ local \in Seq(Replies) /\ messages \in Nat

TypeOK ==
    /\ LifeTypes /\ tsf \in {"idle", "draining", "joining"}
    /\ ViewTypes /\ RequestTypes /\ CacheTypes /\ WorkerTypes /\ DispatchTypes
    /\ Jobs!TypeOK

Init ==
    /\ active = FALSE /\ session = 0 /\ provider = "none" /\ window = FALSE
    /\ tsf = "idle"
    /\ ui = FALSE /\ tab = "Layer1" /\ merged = FALSE /\ kanaKanjiOnly = FALSE
    /\ source = NoText /\ shown = [board |-> "closed", key |-> NoText]
    /\ request = NoRequest /\ pending = FALSE
    /\ cache = [t \in Text |-> NoEntry] /\ recency = <<>>
    /\ text = [id \in Jobs!Ids |-> NoText] /\ worker = NoWork
    /\ callbacks = <<>> /\ messages = 0 /\ local = <<>>
    /\ Jobs!Init

-----------------------------------------------------------------------------
\* The parts that the handlers are made of.

SupportsFlows == provider \in {"llm", "dictionary"} /\ ~kanaKanjiOnly
IsMerged == merged /\ tab = "Layer1"
Cached(key) == cache[key].outcome # "none"

\* Mutant of DropRequest: the waiting colour is left on.
DropRequestKeepPending == request' = NoRequest /\ UNCHANGED pending

\* CancelActiveTranslationRequest: the id is forgotten first, then the queue is
\* told; a queue that no longer knows the id ignores the call.
DropRequest == request' = NoRequest /\ pending' = FALSE
FlagsAfterCancel ==
    IF request.id # NoId /\ Jobs!Live(request.id) THEN cancelled \cup {request.id} ELSE cancelled
\* Mutant of CancelRequest: the queue is told, but the id is kept.
CancelRequestKeepId ==
    /\ pending' = FALSE
    /\ cancelled' = FlagsAfterCancel
    /\ UNCHANGED <<request, nextId, owner, job, text>>

CancelRequest ==
    /\ DropRequest
    /\ cancelled' = FlagsAfterCancel
    /\ UNCHANGED <<nextId, owner, job, text>>

ShowLayer(layer) == shown' = [board |-> layer, key |-> NoText]
ToLayer1 == tab' = "Layer1" /\ ShowLayer("layer1")

\* CloseCandidateUI, as far as the candidate window is concerned.
CloseView ==
    /\ ui' = FALSE
    /\ tab' = "Layer1"
    /\ merged' = FALSE
    /\ source' = NoText
    /\ ShowLayer("closed")

\* The cache: a key that is stored or touched becomes the newest; the oldest
\* one goes when there are too many (one at most: keys come one at a time).
Without(key) ==
    IF \E i \in 1 .. Len(recency) : recency[i] = key
    THEN RemoveAt(recency, CHOOSE i \in 1 .. Len(recency) : recency[i] = key)
    ELSE recency
Touch(key) == recency' = Append(Without(key), key) /\ UNCHANGED cache

\* Mutant of Erase: the placeholder is cached.
EraseToPlaceholder(key) ==
    /\ UNCHANGED recency
    /\ cache' = [cache EXCEPT ![key] = [from |-> key, outcome |-> "waiting"]]

Erase(key) == recency' = Without(key) /\ cache' = [cache EXCEPT ![key] = NoEntry]

\* Mutant of Store: the newest entry is evicted.
StoreEvictNewest(key, entry) ==
    LET order == Append(Without(key), key)
        full == Len(order) > MaxEntries
    IN /\ recency' = IF full THEN Front(order) ELSE order
       /\ cache' = [t \in Text |-> IF full /\ t = Last(order) THEN NoEntry
                                   ELSE IF t = key THEN entry ELSE cache[t]]

Store(key, entry) ==
    LET order == Append(Without(key), key)
        full == Len(order) > MaxEntries
    IN /\ recency' = IF full THEN Tail(order) ELSE order
       /\ cache' = [t \in Text |-> IF full /\ t = Head(order) THEN NoEntry
                                   ELSE IF t = key THEN entry ELSE cache[t]]
ClearCache == cache' = [t \in Text |-> NoEntry] /\ recency' = <<>>

-----------------------------------------------------------------------------
\* Activate and Deactivate.

\* The window may fail to be created: Activate logs it and goes on.
Activate(kind, created) ==
    /\ ~active /\ tsf = "idle"
    /\ session < MaxSessions
    /\ active' = TRUE
    /\ session' = session + 1
    /\ provider' = kind
    /\ window' = created
    /\ kanaKanjiOnly' \in BOOLEAN
    /\ ClearCache
    /\ CancelRequest
    /\ UNCHANGED <<tsf, ui, tab, merged, source, shown, worker, dispatchVars>>

\* Up to the join in the provider's destructor.  The candidate window stays.
Deactivate ==
    /\ active /\ tsf = "idle"
    /\ active' = FALSE
    /\ tsf' = "joining"
    /\ DropRequest
    /\ ClearCache
    /\ source' = NoText
    /\ Jobs!CloseQueue(session)
    /\ UNCHANGED <<session, provider, window, ui, tab, merged, kanaKanjiOnly, shown,
                   workerVars, dispatchVars>>

\* The worker is joined; then the window and the undelivered replies go.
DeactivateReturns ==
    /\ tsf = "joining"
    /\ Jobs!LiveJobs(session) = {} /\ worker = NoWork
    /\ tsf' = "idle"
    /\ provider' = "none"
    /\ window' = FALSE
    /\ callbacks' = <<>> /\ messages' = 0
    /\ UNCHANGED <<active, session, viewVars, requestVars, cacheVars, workerVars, local, jobVars>>

-----------------------------------------------------------------------------
\* The candidate window and its tabs.

\* The keys reach the text service only while it is active.
Key == active /\ tsf = "idle"

OpenCandidateUI(reading) ==
    /\ Key /\ ~ui
    /\ ui' = TRUE /\ merged' = FALSE /\ source' = reading
    /\ ToLayer1
    /\ CancelRequest
    /\ UNCHANGED <<lifeVars, tsf, kanaKanjiOnly, cacheVars, worker, dispatchVars>>

\* Enter on the draft opens the window and goes on to Layer2.
EnterDraft(reading) ==
    /\ Key /\ ~ui /\ SupportsFlows
    /\ ui' = TRUE /\ merged' = FALSE /\ source' = reading
    /\ tab' = "Layer2" /\ ShowLayer("layer2")
    /\ CancelRequest
    /\ UNCHANGED <<lifeVars, tsf, kanaKanjiOnly, cacheVars, worker, dispatchVars>>

\* A commit, a typed character, Backspace, Escape in Layer1, the end of the
\* kana mode, an abort by the host, or a composition that the host terminates:
\* that one comes whether the text service is active or not.
CloseCandidateUI ==
    /\ ui /\ tsf = "idle"
    /\ CloseView
    /\ CancelRequest
    /\ UNCHANGED <<lifeVars, tsf, kanaKanjiOnly, cacheVars, worker, dispatchVars>>

\* Enter in Layer1, or the next tab.  The outstanding request is left alone.
SwitchToLayer2FromLayer1 ==
    /\ Key /\ ui /\ tab = "Layer1" /\ SupportsFlows
    /\ merged' = FALSE
    /\ tab' = "Layer2" /\ ShowLayer("layer2")
    /\ UNCHANGED <<lifeVars, tsf, ui, kanaKanjiOnly, source, requestVars, cacheVars,
                   workerVars, dispatchVars, jobVars>>

\* Shift+Enter in Layer2.  The outstanding request is left alone.
MergeLayer2Selection(selection) ==
    /\ Key /\ ui /\ tab = "Layer2"
    /\ ToLayer1
    /\ merged' = TRUE /\ source' = selection
    /\ UNCHANGED <<lifeVars, tsf, ui, kanaKanjiOnly, requestVars, cacheVars,
                   workerVars, dispatchVars, jobVars>>

\* Ctrl+Tab away from Layer2 or Translation, or Enter in a Layer2 that has no
\* candidate.  The outstanding request is left alone.
BackToLayer1 ==
    /\ Key /\ ui /\ tab # "Layer1"
    /\ ToLayer1
    /\ UNCHANGED <<lifeVars, tsf, ui, merged, kanaKanjiOnly, source, requestVars, cacheVars,
                   workerVars, dispatchVars, jobVars>>

EscapeLayer2 ==
    /\ Key /\ ui /\ tab = "Layer2"
    /\ ToLayer1
    /\ merged' = FALSE
    /\ UNCHANGED <<lifeVars, tsf, ui, kanaKanjiOnly, source, requestVars, cacheVars,
                   workerVars, dispatchVars, jobVars>>

EscapeTranslation ==
    /\ Key /\ ui /\ tab = "Translation"
    /\ ToLayer1
    /\ CancelRequest
    /\ UNCHANGED <<lifeVars, tsf, ui, merged, kanaKanjiOnly, source, cacheVars, worker, dispatchVars>>

ToggleKanaKanjiOnlyMode ==
    /\ Key
    /\ kanaKanjiOnly' = ~kanaKanjiOnly
    /\ CancelRequest
    /\ IF ui /\ tab # "Layer1" THEN ToLayer1 ELSE UNCHANGED <<tab, shown>>
    /\ UNCHANGED <<lifeVars, tsf, ui, merged, source, cacheVars, worker, dispatchVars>>

-----------------------------------------------------------------------------
\* Asking for a translation.  All of this runs in the Translation tab.

\* The cached answer is shown; a former request is cancelled.
ShowCached(key) ==
    /\ Cached(key)
    /\ Touch(key)
    /\ shown' = [board |-> cache[key].outcome, key |-> key]
    /\ CancelRequest

\* The provider enqueues a job: the answer will come through the window.
AskWorker(key, force) ==
    /\ provider = "llm"
    /\ Jobs!Enlist(session)
    /\ text' = [text EXCEPT ![nextId + 1] = key]
    /\ cancelled' = FlagsAfterCancel
    /\ request' = [id |-> nextId + 1, key |-> key]
    /\ pending' = TRUE
    /\ shown' = [board |-> "waiting", key |-> key]
    /\ IF force THEN Erase(key) ELSE UNCHANGED cacheVars

\* The dictionary answers at once, with the text itself when it has no entry,
\* and ApplyTranslationCandidates shows the answer.
AnswerAtOnce(key) ==
    /\ provider = "dictionary"
    /\ Store(key, [from |-> key, outcome |-> "ok"])
    /\ shown' = [board |-> "ok", key |-> key]
    /\ CancelRequest

StartTranslationForCandidate(key, force) ==
    /\ source' = key
    /\ \/ ~force /\ ShowCached(key)
       \/ (force \/ ~Cached(key)) /\ AskWorker(key, force)
       \/ (force \/ ~Cached(key)) /\ AnswerAtOnce(key)

\* Space in Layer2 translates the selection; from a merged Layer1 the text that
\* was merged is translated, or the draft when there is none.
SwitchToTranslationTab(key, force) ==
    /\ Key /\ ui /\ SupportsFlows
    /\ \/ tab = "Layer2" /\ ~force
       \/ IsMerged /\ source # NoText /\ key = source
       \/ IsMerged /\ source = NoText
    /\ tab' = "Translation"
    /\ StartTranslationForCandidate(key, force)
    /\ UNCHANGED <<lifeVars, tsf, ui, merged, kanaKanjiOnly, worker, dispatchVars>>

\* Space in the Translation tab asks again unless there is a translation to
\* cycle through (a provider answers with at most one, so nothing moves);
\* Shift+Space always asks again.
HandleTranslationSpace(force) ==
    /\ Key /\ ui /\ tab = "Translation" /\ source # NoText
    /\ force \/ cache[source].outcome # "ok"
    /\ StartTranslationForCandidate(source, force)
    /\ UNCHANGED <<lifeVars, tsf, ui, tab, merged, kanaKanjiOnly, worker, dispatchVars>>

\* Enter in the Translation tab: without a cached translation it does nothing.
CommitTranslationSelection ==
    /\ Key /\ ui /\ tab = "Translation"
    /\ source # NoText /\ cache[source].outcome = "ok"
    /\ CloseView
    /\ CancelRequest
    /\ UNCHANGED <<lifeVars, tsf, kanaKanjiOnly, cacheVars, worker, dispatchVars>>

-----------------------------------------------------------------------------
\* The provider's worker: the job, the reply and the message.

WorkerBegin(id) ==
    /\ worker = NoWork
    /\ Jobs!BeginJob(id)
    /\ worker' = [stage |-> "fetching", id |-> id]
    /\ UNCHANGED <<lifeVars, tsf, viewVars, requestVars, cacheVars, text, dispatchVars>>

WorkerSkip(id) ==
    /\ worker = NoWork
    /\ Jobs!SkipJob(id)
    /\ UNCHANGED <<lifeVars, tsf, viewVars, requestVars, cacheVars, workerVars, dispatchVars>>

\* ExecuteTranslationJob looks at the flag at several points, the last one
\* before the answer is parsed; the reply is pushed whatever it is.
WorkerReply(outcome) ==
    /\ worker.stage = "fetching"
    /\ outcome = "cancelled" => worker.id \in cancelled
    /\ callbacks' = Append(callbacks, [id |-> worker.id, outcome |-> outcome])
    /\ worker' = [worker EXCEPT !.stage = "pushed"]
    /\ UNCHANGED <<lifeVars, tsf, viewVars, requestVars, cacheVars, text, messages, local, jobVars>>

\* Mutant of WorkerPostMessage: no message while the window is draining anyway.
WorkerPostUnlessDraining ==
    /\ worker.stage = "pushed"
    /\ messages' = IF window /\ tsf # "draining" THEN messages + 1 ELSE messages
    /\ worker' = [worker EXCEPT !.stage = "posted"]
    /\ UNCHANGED <<lifeVars, tsf, viewVars, requestVars, cacheVars, text, callbacks, local, jobVars>>

WorkerPostMessage ==
    /\ worker.stage = "pushed"
    /\ messages' = IF window THEN messages + 1 ELSE messages
    /\ worker' = [worker EXCEPT !.stage = "posted"]
    /\ UNCHANGED <<lifeVars, tsf, viewVars, requestVars, cacheVars, text, callbacks, local, jobVars>>

WorkerFinish ==
    /\ worker.stage = "posted"
    /\ Jobs!FinishJob(worker.id)
    /\ worker' = NoWork
    /\ UNCHANGED <<lifeVars, tsf, viewVars, requestVars, cacheVars, text, dispatchVars>>

-----------------------------------------------------------------------------
\* The dispatch window.

\* Mutant of DrainMainThreadCallbacks: one reply is run, the others are dropped.
DrainOnlyFirst ==
    /\ tsf = "idle" /\ window /\ messages > 0
    /\ messages' = messages - 1
    /\ local' = SubSeq(callbacks, 1, 1) /\ callbacks' = <<>>
    /\ tsf' = IF callbacks = <<>> THEN "idle" ELSE "draining"
    /\ UNCHANGED <<lifeVars, viewVars, requestVars, cacheVars, workerVars, jobVars>>

\* WM_ASYNC_DISPATCH: the replies are taken out under the mutex, then run.
DrainMainThreadCallbacks ==
    /\ tsf = "idle" /\ window /\ messages > 0
    /\ messages' = messages - 1
    /\ local' = callbacks /\ callbacks' = <<>>
    /\ tsf' = IF callbacks = <<>> THEN "idle" ELSE "draining"
    /\ UNCHANGED <<lifeVars, viewVars, requestVars, cacheVars, workerVars, jobVars>>

\* Mutant of Accepts: the id of the reply is not looked at.
AcceptsAnyId(id) == request.id # NoId /\ request.key = source

\* CandidateRequest::Complete accepts the reply (its pending flag is never set).
Accepts(id) == id = request.id /\ request.key = source

\* OnProviderResult, and ApplyTranslationCandidates for the accepted reply.
RunCallback ==
    LET reply == Head(local) IN
    /\ tsf = "draining"
    /\ local' = Tail(local)
    /\ tsf' = IF Tail(local) = <<>> THEN "idle" ELSE "draining"
    /\ IF Accepts(reply.id)
       THEN /\ DropRequest
            /\ Store(request.key, [from |-> text[reply.id], outcome |-> reply.outcome])
            /\ shown' = IF tab = "Translation"
                        THEN [board |-> reply.outcome, key |-> request.key] ELSE shown
       ELSE UNCHANGED <<requestVars, cacheVars, shown>>
    /\ UNCHANGED <<lifeVars, ui, tab, merged, kanaKanjiOnly, source, workerVars,
                   callbacks, messages, jobVars>>

-----------------------------------------------------------------------------
LifeStep ==
    \/ \E kind \in {"llm", "dictionary", "unavailable"}, created \in BOOLEAN : Activate(kind, created)
    \/ Deactivate \/ DeactivateReturns

KeyStep ==
    \/ \E t \in Text : OpenCandidateUI(t) \/ EnterDraft(t) \/ MergeLayer2Selection(t)
    \/ CloseCandidateUI \/ SwitchToLayer2FromLayer1 \/ BackToLayer1
    \/ EscapeLayer2 \/ EscapeTranslation \/ ToggleKanaKanjiOnlyMode
    \/ \E t \in Text, force \in BOOLEAN : SwitchToTranslationTab(t, force)
    \/ \E force \in BOOLEAN : HandleTranslationSpace(force)
    \/ CommitTranslationSelection

WorkerStep ==
    \/ \E id \in Jobs!Ids : WorkerBegin(id) \/ WorkerSkip(id)
    \/ \E outcome \in Outcomes : WorkerReply(outcome)
    \/ WorkerPostMessage \/ WorkerFinish

DispatchStep == DrainMainThreadCallbacks \/ RunCallback

Next == LifeStep \/ KeyStep \/ WorkerStep \/ DispatchStep

\* The worker runs (its HTTP calls time out), the message loop of the thread
\* delivers what was posted, and Deactivate goes on once the worker is gone.
\* Nobody has to press a key.
Fairness == WF_vars(WorkerStep) /\ WF_vars(DispatchStep) /\ WF_vars(DeactivateReturns)

Spec == Init /\ [][Next]_vars /\ Fairness

-----------------------------------------------------------------------------
\* Properties.

\* The waiting colour is on exactly while a request is outstanding.
PendingMatchesRequest == pending <=> request.id # NoId

\* A cached answer is the answer to its own key, whatever replies came late,
\* for another text, or after the request was replaced.
CacheProvenance == \A t \in Text : Cached(t) => cache[t].from = t

\* The error text of a cancelled job never becomes an answer.
NoCancelledAnswer == \A t \in Text : cache[t].outcome # "cancelled"

\* The Translation tab with a source shows the wait for that source, or the
\* answer that Enter would commit.  (After Deactivate the source is gone.)
TranslationTabIsCurrent ==
    ui /\ tab = "Translation" /\ source # NoText =>
        /\ shown.key = source
        /\ IF shown.board = "waiting" THEN request = [id |-> request.id, key |-> source] /\ pending
           ELSE shown.board = cache[source].outcome

\* The reply to the outstanding request is still to come.
ReplyOnItsWay ==
    \/ job[request.id] = "queued"
    \/ worker = [stage |-> "fetching", id |-> request.id]
    \/ \E r \in ToSet(callbacks) \cup ToSet(local) : r.id = request.id

\* A wait in the Translation tab can end: the job is neither lost nor cancelled
\* and its reply has not been thrown away.
RequestIsAnswerable ==
    tab = "Translation" /\ pending => request.id \notin cancelled /\ ReplyOnItsWay

\* A reply that was pushed is never left without a message that delivers it.
NoLostDispatch ==
    window /\ callbacks # <<>> => messages > 0 \/ worker.stage = "pushed"

\* No wait in the Translation tab goes on for ever, if there is a window: its
\* request is answered or dropped, or the user leaves the tab.
Waits == tab = "Translation" /\ request.id # NoId /\ window
WaitEnds == Waits ~> ~Waits

=============================================================================
