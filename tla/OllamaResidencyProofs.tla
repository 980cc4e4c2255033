----------------------- MODULE OllamaResidencyProofs -----------------------
(***************************************************************************)
(* The residency of the Ollama model for any set of text services, with    *)
(* the counters in shared memory or in the two atomics: the count never    *)
(* drifts, and no thread decides to unload the model while a service is    *)
(* active.                                                                 *)
(***************************************************************************)
EXTENDS OllamaResidency, FiniteSetTheorems, TLAPS

Counting == {s \in Services : phase[s] = "counting"}
Counted == {s \in Services : phase[s] \in {"counting", "on", "lost"}}

\* The types, and that an activation that began will find a number.
Typing ==
    /\ TypeOK
    /\ generation + Cardinality(Counting) <= MaxGeneration

\* No service has a number that was not handed out, and so no thread has.
Numbered ==
    /\ \A s \in Services : own[s] <= generation
    /\ \A g \in Generations : unload[g] \in {"waiting", "readActive", "readIdle"} => g <= generation

\* Under the mutex nothing is between the two counters, neither a service nor
\* a thread, and a delay that saw an activation is for an older generation.
UnderMutex ==
    shared =>
        /\ Counting = {}
        /\ \A g \in Generations : unload[g] \notin {"readActive", "readIdle"}
        /\ \A g \in disturbed : g < generation

\* A thread that read the count zero, and reads its own generation next, has
\* missed no activation but one that has not taken its number yet.
IdleIsStill ==
    \A g \in Generations :
        unload[g] = "readIdle" /\ g = generation => \A s \in Services : phase[s] # "on"

IInv == Typing /\ CountMatchesServices /\ Numbered /\ UnderMutex /\ IdleIsStill

-----------------------------------------------------------------------------
\* The services that are counted.

LEMMA Sizes ==
    /\ IsFiniteSet(Counting) /\ Cardinality(Counting) \in Nat
    /\ IsFiniteSet(Counted) /\ Cardinality(Counted) \in Nat
    /\ Cardinality(Counted) = 0 <=> Counted = {}
<1>1. Counting \in SUBSET Services /\ Counted \in SUBSET Services
  BY DEF Counting, Counted
<1>2. IsFiniteSet(Counting) /\ IsFiniteSet(Counted)
  BY <1>1, ServicesAssumption, FS_Subset
<1> QED BY <1>2, FS_CardinalityType, FS_EmptySet

\* What one service's change of phase does to the two sets, and to their sizes.
LEMMA PhaseMoves ==
    ASSUME phase \in [Services -> Phases], NEW s \in Services, NEW p \in Phases,
           phase' = [phase EXCEPT ![s] = p]
    PROVE  /\ phase' \in [Services -> Phases]
           /\ \A t \in Services : phase'[t] = IF t = s THEN p ELSE phase[t]
           /\ Cardinality(Counted') = Cardinality(Counted)
                - (IF s \in Counted THEN 1 ELSE 0) + (IF p \in {"counting", "on", "lost"} THEN 1 ELSE 0)
           /\ Cardinality(Counting') = Cardinality(Counting)
                - (IF s \in Counting THEN 1 ELSE 0) + (IF p = "counting" THEN 1 ELSE 0)
<1>1. phase' \in [Services -> Phases] /\ \A t \in Services : phase'[t] = IF t = s THEN p ELSE phase[t]
  OBVIOUS
<1>2. Counted' = IF p \in {"counting", "on", "lost"} THEN Counted \cup {s} ELSE Counted \ {s}
  BY <1>1 DEF Counted
<1>3. Counting' = IF p = "counting" THEN Counting \cup {s} ELSE Counting \ {s}
  BY <1>1 DEF Counting
<1>4. /\ Cardinality(Counted \cup {s}) = IF s \in Counted THEN Cardinality(Counted) ELSE Cardinality(Counted) + 1
      /\ Cardinality(Counted \ {s}) = IF s \in Counted THEN Cardinality(Counted) - 1 ELSE Cardinality(Counted)
  BY Sizes, FS_AddElement, FS_RemoveElement
<1>5. /\ Cardinality(Counting \cup {s}) = IF s \in Counting THEN Cardinality(Counting) ELSE Cardinality(Counting) + 1
      /\ Cardinality(Counting \ {s}) = IF s \in Counting THEN Cardinality(Counting) - 1 ELSE Cardinality(Counting)
  BY Sizes, FS_AddElement, FS_RemoveElement
<1>6. /\ Cardinality(Counted') = Cardinality(Counted)
           - (IF s \in Counted THEN 1 ELSE 0) + (IF p \in {"counting", "on", "lost"} THEN 1 ELSE 0)
  BY <1>2, <1>4, Sizes
<1>7. /\ Cardinality(Counting') = Cardinality(Counting)
           - (IF s \in Counting THEN 1 ELSE 0) + (IF p = "counting" THEN 1 ELSE 0)
  BY <1>3, <1>5, Sizes
<1> QED BY <1>1, <1>6, <1>7

-----------------------------------------------------------------------------
\* The detached threads change their own stage and what was sent.

others == <<shared, activeCount, generation, phase, seen, own, starter, disturbed>>

LEMMA WarmupThreadMoves ==
    ASSUME TypeOK, NEW g \in Generations, WarmupThread(g)
    PROVE  /\ UNCHANGED <<others, unload>>
           /\ warmup' \in [Generations -> Stages] /\ sent' \subseteq {"warmup", "unload"}
<1>1. CASE WarmupReads(g)
  BY <1>1 DEF TypeOK, Stages, WarmupReads, DecideWarmup, others
<1>2. CASE WarmupDecides(g)
  BY <1>2 DEF TypeOK, Stages, WarmupDecides, DecideWarmup, others
<1>3. CASE WarmupOllamaModel(g)
  BY <1>3 DEF TypeOK, Stages, WarmupOllamaModel, others
<1> QED BY <1>1, <1>2, <1>3 DEF WarmupThread

\* The thread of an unload reads the counters, in one step or in two, decides
\* when it has read both, and sends.
LEMMA UnloadThreadMoves ==
    ASSUME TypeOK, NEW g \in Generations, UnloadThread(g)
    PROVE  /\ UNCHANGED <<others, warmup>>
           /\ unload' \in [Generations -> Stages] /\ sent' \subseteq {"warmup", "unload"}
           /\ \A h \in Generations : h # g => unload'[h] = unload[h]
           /\ unload[g] # "sending" /\ unload'[g] = "sending" =>
                /\ g = generation
                /\ (shared /\ unload[g] = "waiting" /\ activeCount = 0) \/ unload[g] = "readIdle"
           /\ unload'[g] \in {"waiting", "readActive", "readIdle"} =>
                /\ unload[g] = "waiting" /\ ~shared
                /\ unload'[g] = "readIdle" => activeCount = 0
<1>1. CASE UnloadReads(g)
  <2>1. CASE shared
    BY <1>1, <2>1 DEF TypeOK, Stages, UnloadReads, DecideUnload, others
  <2>2. CASE ~shared
    BY <1>1, <2>2 DEF TypeOK, Stages, UnloadReads, others
  <2> QED BY <2>1, <2>2
<1>2. CASE UnloadDecides(g)
  BY <1>2 DEF TypeOK, Stages, UnloadDecides, DecideUnload, others
<1>3. CASE UnloadOllamaModel(g)
  BY <1>3 DEF TypeOK, Stages, UnloadOllamaModel, others
<1> QED BY <1>1, <1>2, <1>3 DEF UnloadThread

-----------------------------------------------------------------------------
\* The invariant.

LEMMA IInvInit == Init => IInv
<1> SUFFICES ASSUME Init PROVE IInv
  OBVIOUS
<1>1. /\ generation = 0 /\ activeCount = 0 /\ phase = [s \in Services |-> "off"]
      /\ \A s \in Services : own[s] = 0
      /\ \A g \in Generations : unload[g] = "none"
      /\ disturbed = {}
  BY DEF Init
<1>2. Counting = {} /\ Counted = {}
  BY <1>1 DEF Counting, Counted
<1>3. Cardinality(Counting) = 0 /\ Cardinality(Counted) = 0
  BY <1>2, FS_EmptySet
<1>4. TypeOK
  BY LimitsAssumption DEF Init, TypeOK, Phases, Stages, Generations
<1>5. Typing
  BY <1>1, <1>3, <1>4, LimitsAssumption DEF Typing
<1>6. CountMatchesServices
  BY <1>1, <1>3 DEF CountMatchesServices, Counted
<1>7. Numbered /\ UnderMutex /\ IdleIsStill
  BY <1>1, <1>2 DEF Numbered, UnderMutex, IdleIsStill
<1> QED BY <1>5, <1>6, <1>7 DEF IInv

\* The rest of the handler of an activation.
LEMMA StartMoves ==
    ASSUME TypeOK, generation + 1 \in Generations, NEW s \in Services, NEW count \in Nat,
           StartWarmup(s, count, generation + 1), generation' = generation + 1
    PROVE  /\ own' \in [Services -> 0 .. MaxGeneration]
           /\ \A t \in Services : own'[t] = IF t = s THEN generation' ELSE own[t]
           /\ starter' \in [Generations -> SUBSET Services]
           /\ warmup' \in [Generations -> Stages]
<1>1. generation + 1 \in 0 .. MaxGeneration
  BY LimitsAssumption DEF Generations
<1>2. /\ own' \in [Services -> 0 .. MaxGeneration]
      /\ \A t \in Services : own'[t] = IF t = s THEN generation' ELSE own[t]
  BY <1>1 DEF TypeOK, StartWarmup
<1>3. starter' \in [Generations -> SUBSET Services]
  BY DEF TypeOK, StartWarmup
<1>4. warmup' \in [Generations -> Stages]
  BY DEF TypeOK, StartWarmup, Stages
<1> QED BY <1>2, <1>3, <1>4

\* An activation under the mutex takes a number that is newer than every thread.
LEMMA ActivateStep ==
    ASSUME IInv, NEW s \in Services, Activate(s)
    PROVE  IInv'
<1>1. TypeOK /\ UnderMutex /\ Numbered /\ generation + Cardinality(Counting) <= MaxGeneration
  BY DEF IInv, Typing
<1>2. /\ shared /\ shared' = shared /\ phase[s] = "off" /\ "on" \in Phases
      /\ activeCount' = activeCount + 1 /\ generation' = generation + 1
      /\ phase' = [phase EXCEPT ![s] = "on"]
      /\ StartWarmup(s, activeCount + 1, generation + 1)
      /\ disturbed' = disturbed \cup Sleeping /\ sent' \in {{}, sent}
      /\ UNCHANGED <<seen, unload>>
  BY <1>1 DEF Activate, NoteBegin, UnderMutex, Phases
<1>3. generation \in Nat /\ generation + 1 \in Generations /\ activeCount + 1 \in Nat
  BY <1>1, LimitsAssumption DEF Activate, TypeOK, Generations
<1>4. /\ phase' \in [Services -> Phases]
      /\ \A t \in Services : phase'[t] = IF t = s THEN "on" ELSE phase[t]
      /\ Cardinality(Counted') = Cardinality(Counted) - (IF s \in Counted THEN 1 ELSE 0) + 1
      /\ Counting' = {} /\ s \notin Counted
  <2>1. /\ phase' \in [Services -> Phases]
        /\ \A t \in Services : phase'[t] = IF t = s THEN "on" ELSE phase[t]
        /\ Cardinality(Counted') = Cardinality(Counted) - (IF s \in Counted THEN 1 ELSE 0) + 1
    BY <1>1, <1>2, PhaseMoves DEF TypeOK
  <2>2. Counting' = {} /\ s \notin Counted
    BY <1>1, <1>2, <2>1 DEF UnderMutex, Counting, Counted
  <2> QED BY <2>1, <2>2
<1>5. Typing'
  <2>1. TypeOK'
    <3>1. /\ own' \in [Services -> 0 .. MaxGeneration]
          /\ starter' \in [Generations -> SUBSET Services]
          /\ warmup' \in [Generations -> Stages]
      BY <1>1, <1>2, <1>3, StartMoves
    <3>2. generation' \in 0 .. MaxGeneration
      BY <1>2, <1>3, LimitsAssumption DEF Generations
    <3>3. disturbed' \subseteq Generations /\ sent' \subseteq {"warmup", "unload"}
      BY <1>1, <1>2 DEF TypeOK, Sleeping
    <3>4. /\ shared' \in BOOLEAN /\ seen' \in [Services -> Nat]
          /\ unload' \in [Generations -> Stages]
      BY <1>1, <1>2 DEF TypeOK
    <3> QED BY <1>2, <1>3, <1>4, <3>1, <3>2, <3>3, <3>4 DEF TypeOK
  <2>2. Cardinality(Counting') = 0
    BY <1>4, FS_EmptySet
  <2>3. generation' <= MaxGeneration
    BY <1>2, <1>3, LimitsAssumption DEF Generations
  <2> QED BY <1>2, <1>3, <2>1, <2>2, <2>3 DEF Typing
<1>6. CountMatchesServices'
  BY <1>2, <1>4, Sizes DEF IInv, CountMatchesServices, Counted
<1>7. Numbered'
  <2>1. \A t \in Services : own'[t] = IF t = s THEN generation' ELSE own[t]
    BY <1>1, <1>2, <1>3, StartMoves
  <2>2. \A t \in Services : own[t] \in Nat
    BY <1>1 DEF TypeOK
  <2>3. \A t \in Services : own'[t] <= generation'
    BY <1>1, <1>2, <1>3, <2>1, <2>2 DEF Numbered
  <2>4. \A g \in Generations : g \in Nat
    BY DEF Generations
  <2>5. \A g \in Generations : unload'[g] \in {"waiting", "readActive", "readIdle"} => g <= generation'
    BY <1>1, <1>2, <1>3, <2>4 DEF Numbered
  <2> QED BY <2>3, <2>5 DEF Numbered
<1>8. UnderMutex'
  <2>1. \A g \in disturbed' : g \in Nat /\ (g < generation \/ g <= generation)
    BY <1>1, <1>2 DEF TypeOK, UnderMutex, Numbered, Sleeping, Generations
  <2>2. \A g \in disturbed' : g < generation'
    BY <1>2, <1>3, <2>1
  <2> QED BY <1>1, <1>2, <1>4, <2>2 DEF UnderMutex
<1>9. IdleIsStill'
  BY <1>1, <1>2 DEF UnderMutex, IdleIsStill
<1> QED BY <1>5, <1>6, <1>7, <1>8, <1>9 DEF IInv

\* Without the mutex a service counts itself first.
LEMMA CountStep ==
    ASSUME IInv, NEW s \in Services, CountActivation(s)
    PROVE  IInv'
<1>1. TypeOK /\ Numbered
  BY DEF IInv, Typing
<1>2. /\ ~shared /\ phase[s] = "off" /\ "counting" \in Phases
      /\ activeCount' = activeCount + 1
      /\ seen' = [seen EXCEPT ![s] = activeCount + 1]
      /\ phase' = [phase EXCEPT ![s] = "counting"]
      /\ disturbed' = disturbed \cup Sleeping /\ sent' \in {{}, sent}
      /\ UNCHANGED <<shared, generation, own, starter, warmup, unload>>
      /\ generation + Cardinality(Counting) < MaxGeneration
  BY DEF CountActivation, NoteBegin, Counting, Phases
<1>3. /\ phase' \in [Services -> Phases]
      /\ \A t \in Services : phase'[t] = IF t = s THEN "counting" ELSE phase[t]
      /\ Cardinality(Counted') = Cardinality(Counted) - (IF s \in Counted THEN 1 ELSE 0) + 1
      /\ Cardinality(Counting') = Cardinality(Counting) - (IF s \in Counting THEN 1 ELSE 0) + 1
  BY <1>1, <1>2, PhaseMoves DEF TypeOK
<1>4. s \notin Counted /\ s \notin Counting
  BY <1>2 DEF Counted, Counting
<1>5. Typing'
  <2>1. TypeOK'
    <3>1. disturbed' \subseteq Generations /\ sent' \subseteq {"warmup", "unload"}
      BY <1>1, <1>2 DEF TypeOK, Sleeping
    <3>2. activeCount' \in Nat /\ seen' \in [Services -> Nat]
      BY <1>1, <1>2 DEF TypeOK
    <3> QED BY <1>1, <1>2, <1>3, <3>1, <3>2 DEF TypeOK
  <2>2. generation \in Nat
    BY <1>1 DEF TypeOK
  <2>3. generation' + Cardinality(Counting') <= MaxGeneration
    BY <1>2, <1>3, <1>4, <2>2, Sizes, LimitsAssumption
  <2> QED BY <2>1, <2>3 DEF Typing
<1>6. CountMatchesServices'
  BY <1>2, <1>3, <1>4, Sizes DEF IInv, CountMatchesServices, Counted
<1>7. Numbered' /\ UnderMutex'
  BY <1>1, <1>2 DEF Numbered, UnderMutex
<1>8. IdleIsStill'
  BY <1>2, <1>3 DEF IInv, IdleIsStill
<1> QED BY <1>5, <1>6, <1>7, <1>8 DEF IInv

\* The number that it takes then is newer than every thread.
LEMMA NumberStep ==
    ASSUME IInv, NEW s \in Services, NumberActivation(s)
    PROVE  IInv'
<1>1. /\ TypeOK /\ Numbered /\ UnderMutex
      /\ generation + Cardinality(Counting) <= MaxGeneration
  BY DEF IInv, Typing
<1>2. /\ phase[s] = "counting" /\ "on" \in Phases
      /\ generation' = generation + 1
      /\ phase' = [phase EXCEPT ![s] = "on"]
      /\ StartWarmup(s, seen[s], generation + 1)
      /\ UNCHANGED <<shared, activeCount, seen, unload, disturbed, sent>>
  BY DEF NumberActivation, Phases
<1>3. s \in Counting /\ s \in Counted /\ ~shared
  BY <1>1, <1>2 DEF UnderMutex, Counting, Counted
<1>4. generation \in Nat /\ Cardinality(Counting) # 0 /\ generation + 1 <= MaxGeneration
  <2>1. Cardinality(Counting) # 0
    BY <1>3, Sizes, FS_EmptySet
  <2>2. generation \in Nat
    BY <1>1 DEF TypeOK
  <2> QED BY <1>1, <2>1, <2>2, Sizes, LimitsAssumption
<1>5. generation + 1 \in Generations /\ seen[s] \in Nat
  BY <1>1, <1>4, LimitsAssumption DEF TypeOK, Generations
<1>6. /\ phase' \in [Services -> Phases]
      /\ \A t \in Services : phase'[t] = IF t = s THEN "on" ELSE phase[t]
      /\ Cardinality(Counted') = Cardinality(Counted) - (IF s \in Counted THEN 1 ELSE 0) + 1
      /\ Cardinality(Counting') = Cardinality(Counting) - (IF s \in Counting THEN 1 ELSE 0) + 0
  BY <1>1, <1>2, PhaseMoves DEF TypeOK
<1>7. Typing'
  <2>1. TypeOK'
    <3>1. /\ own' \in [Services -> 0 .. MaxGeneration]
          /\ starter' \in [Generations -> SUBSET Services]
          /\ warmup' \in [Generations -> Stages]
      BY <1>1, <1>2, <1>5, StartMoves
    <3>2. generation' \in 0 .. MaxGeneration
      BY <1>2, <1>4, LimitsAssumption
    <3> QED BY <1>1, <1>2, <1>6, <3>1, <3>2 DEF TypeOK
  <2>2. generation' + Cardinality(Counting') <= MaxGeneration
    BY <1>1, <1>2, <1>3, <1>4, <1>6, Sizes, LimitsAssumption
  <2> QED BY <2>1, <2>2 DEF Typing
<1>8. CountMatchesServices'
  BY <1>2, <1>3, <1>6, Sizes DEF IInv, CountMatchesServices, Counted
<1>9. Numbered'
  <2>1. \A t \in Services : own'[t] = IF t = s THEN generation' ELSE own[t]
    BY <1>1, <1>2, <1>5, StartMoves
  <2>2. \A t \in Services : own[t] \in Nat
    BY <1>1 DEF TypeOK
  <2>3. \A t \in Services : own'[t] <= generation'
    BY <1>1, <1>2, <1>4, <2>1, <2>2 DEF Numbered
  <2>4. \A g \in Generations : g \in Nat
    BY DEF Generations
  <2>5. \A g \in Generations : unload'[g] \in {"waiting", "readActive", "readIdle"} => g <= generation'
    BY <1>1, <1>2, <1>4, <2>4 DEF Numbered
  <2> QED BY <2>3, <2>5 DEF Numbered
<1>10. UnderMutex'
  BY <1>2, <1>3 DEF UnderMutex
<1>11. IdleIsStill'
  <2>1. \A g \in Generations : g \in Nat /\ (unload[g] = "readIdle" => g <= generation)
    BY <1>1 DEF Numbered, Generations
  <2> QED BY <1>2, <1>4, <2>1 DEF IdleIsStill
<1> QED BY <1>7, <1>8, <1>9, <1>10, <1>11 DEF IInv

\* The last service to stop starts a thread for its own number.
LEMMA DeactivateStep ==
    ASSUME IInv, NEW s \in Services, Deactivate(s)
    PROVE  IInv'
<1>1. /\ TypeOK /\ Numbered /\ UnderMutex /\ IdleIsStill /\ CountMatchesServices
      /\ generation + Cardinality(Counting) <= MaxGeneration
  BY DEF IInv, Typing
<1>2. /\ phase[s] = "on" /\ "off" \in Phases
      /\ activeCount' = IF activeCount = 0 THEN 0 ELSE activeCount - 1
      /\ phase' = [phase EXCEPT ![s] = "off"]
      /\ sent' \in {{}, sent}
      /\ unload' \in {[unload EXCEPT ![own[s]] = "waiting"], unload}
      /\ UNCHANGED <<shared, generation, seen, own, starter, warmup, disturbed>>
  BY DEF Deactivate, Phases
<1>3. /\ phase' \in [Services -> Phases]
      /\ \A t \in Services : phase'[t] = IF t = s THEN "off" ELSE phase[t]
      /\ Cardinality(Counted') = Cardinality(Counted) - (IF s \in Counted THEN 1 ELSE 0) + 0
      /\ Cardinality(Counting') = Cardinality(Counting) - (IF s \in Counting THEN 1 ELSE 0) + 0
  BY <1>1, <1>2, PhaseMoves DEF TypeOK
<1>4. s \in Counted /\ s \notin Counting /\ activeCount = Cardinality(Counted) /\ activeCount # 0
  <2>1. s \in Counted /\ s \notin Counting
    BY <1>2 DEF Counted, Counting
  <2>2. activeCount = Cardinality(Counted)
    BY <1>1 DEF CountMatchesServices, Counted
  <2> QED BY <2>1, <2>2, Sizes
<1>5. /\ unload' \in [Generations -> Stages]
      /\ \A g \in Generations : unload'[g] = unload[g] \/ (unload'[g] = "waiting" /\ g = own[s])
  BY <1>1, <1>2 DEF TypeOK, Stages
<1>6. Typing'
  <2>1. activeCount' \in Nat
    BY <1>1, <1>2 DEF TypeOK
  <2>2. TypeOK'
    BY <1>1, <1>2, <1>3, <1>5, <2>1 DEF TypeOK
  <2>3. Cardinality(Counting') = Cardinality(Counting)
    BY <1>3, <1>4, Sizes
  <2> QED BY <1>1, <1>2, <2>2, <2>3 DEF Typing
<1>7. CountMatchesServices'
  <2>1. activeCount' = Cardinality(Counted')
    BY <1>2, <1>3, <1>4, Sizes
  <2> QED BY <2>1 DEF CountMatchesServices, Counted
<1>8. Numbered'
  BY <1>1, <1>2, <1>5 DEF Numbered
<1>9. UnderMutex'
  <2>1. Counting' \subseteq Counting
    BY <1>3 DEF Counting
  <2> QED BY <1>1, <1>2, <1>5, <2>1 DEF UnderMutex
<1>10. IdleIsStill'
  BY <1>1, <1>2, <1>3, <1>5 DEF IdleIsStill
<1> QED BY <1>6, <1>7, <1>8, <1>9, <1>10 DEF IInv

\* A process that ends takes its threads with it and leaves the count as it is.
LEMMA ExitStep ==
    ASSUME IInv, NEW s \in Services, Exit(s)
    PROVE  IInv'
<1> DEFINE p == IF phase[s] = "on" THEN "lost" ELSE "gone"
<1>1. /\ TypeOK /\ Numbered /\ UnderMutex /\ IdleIsStill /\ CountMatchesServices
      /\ generation + Cardinality(Counting) <= MaxGeneration
  BY DEF IInv, Typing
<1>2. /\ shared /\ phase[s] \in {"off", "on"} /\ p \in Phases
      /\ phase' = [phase EXCEPT ![s] = p]
      /\ warmup' = [g \in Generations |-> IF s \in starter[g] THEN "done" ELSE warmup[g]]
      /\ unload' = [g \in Generations |-> IF s \in starter[g] THEN "done" ELSE unload[g]]
      /\ sent' \in {{}, sent}
      /\ UNCHANGED <<shared, activeCount, generation, seen, own, starter, disturbed>>
  BY DEF Exit, Phases
<1>3. /\ phase' \in [Services -> Phases]
      /\ \A t \in Services : phase'[t] = IF t = s THEN p ELSE phase[t]
  BY <1>1, <1>2 DEF TypeOK
<1>4. Counted' = Counted /\ Counting' = Counting
  BY <1>2, <1>3 DEF Counted, Counting
<1>5. /\ unload' \in [Generations -> Stages] /\ warmup' \in [Generations -> Stages]
      /\ \A g \in Generations : unload'[g] \in {unload[g], "done"}
  BY <1>1, <1>2 DEF TypeOK, Stages
<1>6. Typing'
  <2>1. TypeOK'
    BY <1>1, <1>2, <1>3, <1>5 DEF TypeOK
  <2> QED BY <1>1, <1>2, <1>4, <2>1 DEF Typing
<1>7. CountMatchesServices'
  BY <1>1, <1>2, <1>4 DEF CountMatchesServices, Counted
<1>8. Numbered'
  BY <1>1, <1>2, <1>5 DEF Numbered
<1>9. UnderMutex'
  BY <1>1, <1>2, <1>4, <1>5 DEF UnderMutex
<1>10. IdleIsStill'
  BY <1>1, <1>2, <1>3, <1>5 DEF IdleIsStill
<1> QED BY <1>6, <1>7, <1>8, <1>9, <1>10 DEF IInv

\* A thread that reads the count zero does so while no service is active.
LEMMA ThreadStep ==
    ASSUME IInv, NEW g \in Generations, WarmupThread(g) \/ UnloadThread(g)
    PROVE  IInv'
<1>1. /\ TypeOK /\ Numbered /\ UnderMutex /\ IdleIsStill /\ CountMatchesServices
      /\ generation + Cardinality(Counting) <= MaxGeneration
  BY DEF IInv, Typing
<1>2. /\ UNCHANGED others
      /\ warmup' \in [Generations -> Stages] /\ unload' \in [Generations -> Stages]
      /\ sent' \subseteq {"warmup", "unload"}
      /\ \A h \in Generations : h # g => unload'[h] = unload[h]
      /\ unload'[g] \in {"waiting", "readActive", "readIdle"} =>
            \/ unload'[g] = unload[g]
            \/ /\ unload[g] = "waiting" /\ ~shared
               /\ unload'[g] = "readIdle" => activeCount = 0
  <2>1. CASE WarmupThread(g)
    <3>1. UNCHANGED <<others, unload>> /\ warmup' \in [Generations -> Stages]
          /\ sent' \subseteq {"warmup", "unload"}
      BY <1>1, <2>1, WarmupThreadMoves
    <3> QED BY <1>1, <3>1 DEF TypeOK
  <2>2. CASE UnloadThread(g)
    <3>1. UNCHANGED <<others, warmup>> /\ unload' \in [Generations -> Stages]
          /\ sent' \subseteq {"warmup", "unload"}
          /\ \A h \in Generations : h # g => unload'[h] = unload[h]
      BY <1>1, <2>2, UnloadThreadMoves
    <3>2. unload'[g] \in {"waiting", "readActive", "readIdle"} =>
             /\ unload[g] = "waiting" /\ ~shared
             /\ unload'[g] = "readIdle" => activeCount = 0
      BY <1>1, <2>2, UnloadThreadMoves
    <3> QED BY <1>1, <3>1, <3>2 DEF TypeOK
  <2> QED BY <2>1, <2>2
<1>3. Typing'
  <2>1. TypeOK'
    BY <1>1, <1>2 DEF TypeOK, others
  <2> QED BY <1>1, <1>2, <2>1 DEF Typing, Counting, others
<1>4. CountMatchesServices'
  BY <1>1, <1>2 DEF CountMatchesServices, others
<1>5. Numbered'
  BY <1>1, <1>2 DEF Numbered, others
<1>6. UnderMutex'
  BY <1>1, <1>2 DEF UnderMutex, Counting, others
<1>7. IdleIsStill'
  <2>1. activeCount = 0 => \A s \in Services : phase[s] # "on"
    BY <1>1, Sizes DEF CountMatchesServices, Counted
  <2> QED BY <1>1, <1>2, <2>1 DEF IdleIsStill, others
<1> QED BY <1>3, <1>4, <1>5, <1>6, <1>7 DEF IInv

LEMMA IInvStep == IInv /\ [Next]_vars => IInv'
<1> SUFFICES ASSUME IInv, [Next]_vars PROVE IInv'
  OBVIOUS
<1>1. CASE UNCHANGED vars
  BY <1>1 DEF vars, IInv, Typing, TypeOK, CountMatchesServices, Numbered, UnderMutex, IdleIsStill,
              Counting
<1>2. CASE Next
  BY <1>2, ActivateStep, CountStep, NumberStep, DeactivateStep, ExitStep, ThreadStep DEF Next
<1> QED BY <1>1, <1>2

\* The inductive invariant holds in every state.
LEMMA Invariance == Spec => []IInv
BY IInvInit, IInvStep, PTL DEF Spec

\* In every state the variables have their types; no activation is left without
\* a number.
THEOREM TypeCorrect == Spec => []TypeOK
<1>1. IInv => TypeOK
  BY DEF IInv, Typing
<1> QED BY <1>1, Invariance, PTL

\* No interleaving of services and processes that end drifts the count that
\* StartOllamaResidencyOnActivate and StopOllamaResidencyOnDeactivate keep.
THEOREM CountNeverDrifts == Spec => []CountMatchesServices
<1>1. IInv => CountMatchesServices
  BY DEF IInv
<1> QED BY <1>1, Invariance, PTL

-----------------------------------------------------------------------------
\* The decision to unload.

\* Only the thread of a generation decides for it.
LEMMA WhoDecides ==
    ASSUME IInv, [Next]_vars, NEW g \in Generations, DecidesToUnload(g)
    PROVE  UnloadThread(g)
<1>1. TypeOK
  BY DEF IInv, Typing
<1>2. unload \in [Generations -> Stages] /\ unload[g] # "sending" /\ unload'[g] = "sending"
  BY <1>1 DEF TypeOK, DecidesToUnload
<1>3. ASSUME NEW s \in Services,
             Activate(s) \/ CountActivation(s) \/ NumberActivation(s) \/ Deactivate(s) \/ Exit(s)
      PROVE  FALSE
  <2>1. CASE Activate(s) \/ CountActivation(s) \/ NumberActivation(s)
    BY <1>2, <2>1 DEF Activate, CountActivation, NumberActivation
  <2>2. CASE Deactivate(s)
    <3>1. unload' = [unload EXCEPT ![own[s]] = "waiting"] \/ unload' = unload
      BY <2>2 DEF Deactivate
    <3> QED BY <1>2, <3>1
  <2>3. CASE Exit(s)
    <3>1. unload' = [h \in Generations |-> IF s \in starter[h] THEN "done" ELSE unload[h]]
      BY <2>3 DEF Exit
    <3> QED BY <1>2, <3>1
  <2> QED BY <1>3, <2>1, <2>2, <2>3
<1>4. ASSUME NEW h \in Generations, WarmupThread(h) PROVE FALSE
  BY <1>1, <1>2, <1>4, WarmupThreadMoves
<1>5. ASSUME NEW h \in Generations, UnloadThread(h) PROVE h = g
  BY <1>1, <1>2, <1>5, UnloadThreadMoves
<1>6. CASE UNCHANGED vars
  BY <1>2, <1>6 DEF vars
<1> QED BY <1>3, <1>4, <1>5, <1>6 DEF Next

\* It decides only while no service is active, for a generation that is still
\* the newest; under the mutex it has seen no activation either.
LEMMA Decision ==
    ASSUME IInv, [Next]_vars, NEW g \in Generations, DecidesToUnload(g)
    PROVE  /\ \A s \in Services : phase[s] # "on"
           /\ shared => g \notin disturbed
<1>1. TypeOK /\ UnderMutex /\ IdleIsStill /\ CountMatchesServices
  BY DEF IInv, Typing
<1>2. /\ g = generation
      /\ (shared /\ unload[g] = "waiting" /\ activeCount = 0) \/ unload[g] = "readIdle"
  BY <1>1, WhoDecides, UnloadThreadMoves DEF DecidesToUnload
<1>3. activeCount = 0 => \A s \in Services : phase[s] # "on"
  BY <1>1, Sizes DEF CountMatchesServices, Counted
<1>4. \A s \in Services : phase[s] # "on"
  BY <1>1, <1>2, <1>3 DEF IdleIsStill
<1>5. shared => g \notin disturbed
  <2>1. generation \in Nat
    BY <1>1 DEF TypeOK
  <2> QED BY <1>1, <1>2, <2>1 DEF UnderMutex
<1> QED BY <1>4, <1>5

\* The thread of the unload never decides to send the request while a service
\* is active, although it reads the two counters one after the other.
THEOREM NeverUnloadsWhileActive == Spec => NoUnloadWhileActive
<1>1. IInv /\ [Next]_vars =>
        [\A g \in Generations : DecidesToUnload(g) => \A s \in Services : phase[s] # "on"]_vars
  BY Decision
<1> QED BY <1>1, Invariance, PTL DEF Spec, NoUnloadWhileActive

\* Under the mutex a delay during which a service became active ends without an
\* unload request (docs/operations/provider_switch.md:152), because the number
\* of that activation is newer than the thread's.
THEOREM DisturbedDelaysSendNothing == Spec => DisturbedDelaySendsNothing
<1>1. IInv /\ [Next]_vars =>
        [shared => \A g \in Generations : DecidesToUnload(g) => g \notin disturbed]_vars
  BY Decision
<1> QED BY <1>1, Invariance, PTL DEF Spec, DisturbedDelaySendsNothing

=============================================================================
