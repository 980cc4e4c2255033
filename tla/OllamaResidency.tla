-------------------------- MODULE OllamaResidency --------------------------
(***************************************************************************)
(* How the text services of one user share one Ollama model                *)
(* (Ime3/rtas_text_service.h).  All of them count their activations in     *)
(* shared memory under a named mutex.  The first one to become active      *)
(* starts a detached thread that asks Ollama to load the model; the last   *)
(* one to stop starts a detached thread that sleeps and then asks it to    *)
(* drop the model.  Before either request the thread looks whether the     *)
(* counters have moved on.                                                 *)
(*                                                                         *)
(* Without shared memory the counters are two atomics of the process: then *)
(* shared is FALSE, all services are in that process, and its threads see  *)
(* one counter change before the other.  A mutex that cannot be had for    *)
(* five seconds, which mixes the two, is left out.  The shared memory is   *)
(* that of a session in which some process that has it mapped stays alive. *)
(***************************************************************************)
EXTENDS Naturals, FiniteSets

CONSTANTS
    Services,            \* the TextService objects
    WarmupOnActivate,    \* warmup_on_activate, and the translations are the LLM's
    UnloadOnDeactivate,  \* unload_on_deactivate, and the translations are the LLM's
    MaxGeneration,       \* bound on the activations (generation is a 64-bit counter)
    MaxExits             \* bound on the processes that end

ASSUME SwitchesAssumption ==
    WarmupOnActivate \in BOOLEAN /\ UnloadOnDeactivate \in BOOLEAN
ASSUME ServicesAssumption == IsFiniteSet(Services)
ASSUME LimitsAssumption == MaxGeneration \in Nat /\ MaxExits \in Nat

VARIABLES
    shared,     \* the counters are in shared memory, under the mutex
    activeCount, generation,  \* the two counters
    phase,      \* phase[s]: "off", "counting" (between the two atomics), "on"; of an ended
                \*   process "lost" (it was on) or "gone"
    seen,       \* seen[s]: the count that the service got when it began
    own,        \* own[s]: m_ollamaResidencyGeneration
    starter,    \* starter[g]: the service (at most one) whose activation was number g
    warmup,     \* warmup[g], unload[g]: how far the thread that the activation
    unload,     \*   of generation g started is
    disturbed,  \* history: the g whose unload thread saw an activation begin while it slept
    sent        \* history: the requests since the first service began or the last one stopped

vars == <<shared, activeCount, generation, phase, seen, own, starter, warmup, unload, disturbed, sent>>

Generations == 1 .. MaxGeneration
Phases == {"off", "counting", "on", "lost", "gone"}
Stages == {"none", "waiting", "readActive", "readIdle", "sending", "done"}

TypeOK ==
    /\ shared \in BOOLEAN
    /\ activeCount \in Nat /\ generation \in 0 .. MaxGeneration
    /\ phase \in [Services -> Phases]
    /\ seen \in [Services -> Nat]
    /\ own \in [Services -> 0 .. MaxGeneration]
    /\ starter \in [Generations -> SUBSET Services]
    /\ warmup \in [Generations -> Stages] /\ unload \in [Generations -> Stages]
    /\ disturbed \subseteq Generations
    /\ sent \subseteq {"warmup", "unload"}

Init ==
    /\ shared \in BOOLEAN
    /\ activeCount = 0 /\ generation = 0
    /\ phase = [s \in Services |-> "off"]
    /\ seen = [s \in Services |-> 0] /\ own = [s \in Services |-> 0]
    /\ starter = [g \in Generations |-> {}]
    /\ warmup = [g \in Generations |-> "none"] /\ unload = [g \in Generations |-> "none"]
    /\ disturbed = {}
    /\ sent = {"unload"}  \* there is nothing to unload

Running == {s \in Services : phase[s] \in {"counting", "on"}}
Sleeping == {g \in Generations : unload[g] = "waiting"}

-----------------------------------------------------------------------------
\* StartOllamaResidencyOnActivate.

\* The rest of the handler, once both counters are incremented.
StartWarmup(s, count, g) ==
    /\ own' = [own EXCEPT ![s] = g]
    /\ starter' = [starter EXCEPT ![g] = {s}]
    /\ warmup' = IF count = 1 /\ WarmupOnActivate THEN [warmup EXCEPT ![g] = "waiting"] ELSE warmup

\* What the history records when a service begins.
NoteBegin ==
    /\ disturbed' = disturbed \cup Sleeping
    /\ sent' = IF Running = {} THEN {} ELSE sent

Activate(s) ==
    /\ shared /\ phase[s] = "off" /\ generation < MaxGeneration
    /\ activeCount' = activeCount + 1
    /\ generation' = generation + 1
    /\ phase' = [phase EXCEPT ![s] = "on"]
    /\ StartWarmup(s, activeCount + 1, generation + 1)
    /\ NoteBegin
    /\ UNCHANGED <<shared, seen, unload>>

\* The same with the two atomics: fetch_add of one, then of the other.
CountActivation(s) ==
    /\ ~shared /\ phase[s] = "off"
    /\ generation + Cardinality({t \in Services : phase[t] = "counting"}) < MaxGeneration
    /\ activeCount' = activeCount + 1
    /\ seen' = [seen EXCEPT ![s] = activeCount + 1]
    /\ phase' = [phase EXCEPT ![s] = "counting"]
    /\ NoteBegin
    /\ UNCHANGED <<shared, generation, own, starter, warmup, unload>>

NumberActivation(s) ==
    /\ phase[s] = "counting"
    /\ generation' = generation + 1
    /\ phase' = [phase EXCEPT ![s] = "on"]
    /\ StartWarmup(s, seen[s], generation + 1)
    /\ UNCHANGED <<shared, activeCount, seen, unload, disturbed, sent>>

-----------------------------------------------------------------------------
\* StopOllamaResidencyOnDeactivate, and the end of a process.

\* Mutant of Deactivate: the count is cleared.
DeactivateClearsCount(s) ==
    /\ phase[s] = "on"
    /\ activeCount' = 0
    /\ phase' = [phase EXCEPT ![s] = "off"]
    /\ UNCHANGED <<shared, generation, seen, own, starter, warmup, unload, disturbed, sent>>

Deactivate(s) ==
    /\ phase[s] = "on"
    /\ activeCount' = IF activeCount = 0 THEN 0 ELSE activeCount - 1
    /\ phase' = [phase EXCEPT ![s] = "off"]
    /\ sent' = IF Running = {s} THEN {} ELSE sent
    /\ unload' = IF activeCount' = 0 /\ UnloadOnDeactivate
                 THEN [unload EXCEPT ![own[s]] = "waiting"] ELSE unload
    /\ UNCHANGED <<shared, generation, seen, own, starter, warmup, disturbed>>

\* A process ends: its threads end with it, and nothing is taken off the count
\* that the other processes see.
Exit(s) ==
    /\ shared /\ phase[s] \in {"off", "on"}
    /\ Cardinality({t \in Services : phase[t] \in {"lost", "gone"}}) < MaxExits
    /\ phase' = [phase EXCEPT ![s] = IF phase[s] = "on" THEN "lost" ELSE "gone"]
    /\ warmup' = [g \in Generations |-> IF s \in starter[g] THEN "done" ELSE warmup[g]]
    /\ unload' = [g \in Generations |-> IF s \in starter[g] THEN "done" ELSE unload[g]]
    /\ sent' = IF Running = {s} THEN {} ELSE sent
    /\ UNCHANGED <<shared, activeCount, generation, seen, own, starter, disturbed>>

-----------------------------------------------------------------------------
\* The detached threads.  ReadOllamaResidencyState is one step under the mutex,
\* and two loads, the count first, without it.

\* The thread of the warmup gives up when the counters have moved on.
DecideWarmup(g, count) ==
    warmup' = [warmup EXCEPT ![g] = IF generation # g \/ count = 0 THEN "done" ELSE "sending"]

WarmupReads(g) ==
    /\ warmup[g] = "waiting"
    /\ IF shared THEN DecideWarmup(g, activeCount)
       ELSE warmup' = [warmup EXCEPT ![g] = IF activeCount = 0 THEN "readIdle" ELSE "readActive"]
    /\ UNCHANGED <<shared, activeCount, generation, phase, seen, own, starter, unload, disturbed, sent>>

WarmupDecides(g) ==
    /\ warmup[g] \in {"readActive", "readIdle"}
    /\ DecideWarmup(g, IF warmup[g] = "readIdle" THEN 0 ELSE 1)
    /\ UNCHANGED <<shared, activeCount, generation, phase, seen, own, starter, unload, disturbed, sent>>

WarmupOllamaModel(g) ==
    /\ warmup[g] = "sending"
    /\ warmup' = [warmup EXCEPT ![g] = "done"]
    /\ sent' = sent \cup {"warmup"}
    /\ UNCHANGED <<shared, activeCount, generation, phase, seen, own, starter, unload, disturbed>>

\* Mutant of DecideUnload: only the count is looked at.
DecideUnloadByCount(g, count) ==
    unload' = [unload EXCEPT ![g] = IF count > 0 THEN "done" ELSE "sending"]

\* The thread of the unload gives up when somebody has been active since.
DecideUnload(g, count) ==
    unload' = [unload EXCEPT ![g] = IF generation # g \/ count > 0 THEN "done" ELSE "sending"]

UnloadReads(g) ==
    /\ unload[g] = "waiting"
    /\ IF shared THEN DecideUnload(g, activeCount)
       ELSE unload' = [unload EXCEPT ![g] = IF activeCount = 0 THEN "readIdle" ELSE "readActive"]
    /\ UNCHANGED <<shared, activeCount, generation, phase, seen, own, starter, warmup, disturbed, sent>>

UnloadDecides(g) ==
    /\ unload[g] \in {"readActive", "readIdle"}
    /\ DecideUnload(g, IF unload[g] = "readIdle" THEN 0 ELSE 1)
    /\ UNCHANGED <<shared, activeCount, generation, phase, seen, own, starter, warmup, disturbed, sent>>

UnloadOllamaModel(g) ==
    /\ unload[g] = "sending"
    /\ unload' = [unload EXCEPT ![g] = "done"]
    /\ sent' = sent \cup {"unload"}
    /\ UNCHANGED <<shared, activeCount, generation, phase, seen, own, starter, warmup, disturbed>>

-----------------------------------------------------------------------------
WarmupThread(g) == WarmupReads(g) \/ WarmupDecides(g) \/ WarmupOllamaModel(g)
UnloadThread(g) == UnloadReads(g) \/ UnloadDecides(g) \/ UnloadOllamaModel(g)

Next ==
    \/ \E s \in Services :
        Activate(s) \/ CountActivation(s) \/ NumberActivation(s) \/ Deactivate(s) \/ Exit(s)
    \/ \E g \in Generations : WarmupThread(g) \/ UnloadThread(g)

\* A handler that began ends, and the threads run: sleep_for returns, and an
\* HTTP request times out.  Nobody has to activate or deactivate anything.
Fairness ==
    /\ \A s \in Services : WF_vars(NumberActivation(s))
    /\ \A g \in Generations : WF_vars(WarmupThread(g)) /\ WF_vars(UnloadThread(g))

Spec == Init /\ [][Next]_vars /\ Fairness

-----------------------------------------------------------------------------
\* Properties.

\* The count is that of the active services, and of those that never got to
\* take themselves off it: no interleaving of services drifts it.
CountMatchesServices ==
    activeCount = Cardinality({s \in Services : phase[s] \in {"counting", "on", "lost"}})

DecidesToUnload(g) == unload[g] # "sending" /\ unload'[g] = "sending"

\* docs/operations/provider_switch.md:152: a delay during which somebody became
\* active ends without an unload request, even if nobody is active any more.
\* (With the two atomics a service that has counted itself and not yet taken a
\* number can go unseen.)
DisturbedDelaySendsNothing ==
    [][shared => \A g \in Generations : DecidesToUnload(g) => g \notin disturbed]_vars

\* The thread never decides to unload while a service is active, although it
\* reads the two counters one after the other.
NoUnloadWhileActive ==
    [][\A g \in Generations : DecidesToUnload(g) => \A s \in Services : phase[s] # "on"]_vars

\* docs/operations/provider_switch.md:142: when nobody is active any more an
\* unload request is sent after the delay, unless somebody becomes active.
UnloadFollowsLastDeactivation == Running = {} ~> "unload" \in sent \/ Running # {}

=============================================================================
