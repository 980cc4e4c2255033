--------------------------- MODULE AsyncWorkQueue ---------------------------
(***************************************************************************)
(* The AsyncWorkQueue objects of one process (Ime3/rtas_translation.cpp):  *)
(* each has a mutex, a condition variable and one worker thread, started   *)
(* by the first Enqueue and joined by Shutdown.  All calls come from one   *)
(* thread, the TSF thread that owns the text service.                      *)
(*                                                                         *)
(* A critical section is one action.  What the code does outside the mutex *)
(* (the notifications, Cancel's store to the flag, the join, the load of   *)
(* the flag, the job itself) is an action of its own, so that the worker   *)
(* and the caller interleave there.                                        *)
(***************************************************************************)
EXTENDS Naturals, Sequences, FiniteSets, SequencesExt

CONSTANTS
    Queues,    \* the queue objects: one per conversion provider, one fallback
    MaxId      \* bound on the ids handed out (m_nextId is a 64-bit counter)

ASSUME QueuesAssumption == 0 \notin Queues
ASSUME MaxIdAssumption == MaxId \in Nat

Ids == 1 .. MaxId
NoId == 0

VARIABLES
    nextId,    \* m_nextId, shared by every queue of the module
    started,   \* m_started
    stop,      \* m_stop
    queue,     \* m_queue: the ids of the waiting jobs, oldest first
    pending,   \* m_pending: the ids whose cancel flag Cancel can find
    flag,      \* the ids whose CancelFlag holds true
    worker,    \* the worker thread: where it is and the job it holds
    client,    \* the TSF thread: the call it is in
    owner,     \* history: the queue that handed out each id
    ran        \* history: the jobs whose body was entered

shared == <<nextId, started, stop, queue, pending, flag>>
vars == <<nextId, started, stop, queue, pending, flag, worker, client, owner, ran>>

WorkerPc == {"none", "check", "asleep", "popped", "running", "erasing", "exited"}
ClientPc == {"idle", "notifyOne", "storeFlag", "notifyAll", "notifyStop", "join"}

Idle == [pc |-> "idle", q |-> NoId, id |-> NoId]
Holding(q) == worker[q].pc \in {"popped", "running", "erasing"}

TypeOK ==
    /\ nextId \in 0 .. MaxId
    /\ started \in [Queues -> BOOLEAN]
    /\ stop \in [Queues -> BOOLEAN]
    /\ queue \in [Queues -> Seq(Ids)]
    /\ pending \in [Queues -> SUBSET Ids]
    /\ flag \subseteq Ids
    /\ worker \in [Queues -> [pc : WorkerPc, item : Ids \cup {NoId}]]
    /\ client \in [pc : ClientPc, q : Queues \cup {NoId}, id : Ids \cup {NoId}]
    /\ owner \in [Ids -> Queues \cup {NoId}]
    /\ ran \subseteq Ids

Init ==
    /\ nextId = 0
    /\ started = [q \in Queues |-> FALSE]
    /\ stop = [q \in Queues |-> FALSE]
    /\ queue = [q \in Queues |-> <<>>]
    /\ pending = [q \in Queues |-> {}]
    /\ flag = {}
    /\ worker = [q \in Queues |-> [pc |-> "none", item |-> NoId]]
    /\ client = Idle
    /\ owner = [id \in Ids |-> NoId]
    /\ ran = {}

-----------------------------------------------------------------------------
\* The calls of the TSF thread.

\* The id of the next job: one counter for all the queues.
FreshId(q) == nextId + 1

\* EnsureWorkerLocked: a queue that was shut down is usable again.
EnsureWorker(q) ==
    IF started[q]
    THEN UNCHANGED <<started, stop, worker>>
    ELSE /\ started' = [started EXCEPT ![q] = TRUE]
         /\ stop' = [stop EXCEPT ![q] = FALSE]
         /\ worker' = [worker EXCEPT ![q] = [pc |-> "check", item |-> NoId]]

Enqueue(q) ==
    LET id == FreshId(q) IN
    /\ client.pc = "idle"
    /\ nextId < MaxId
    /\ EnsureWorker(q)
    /\ nextId' = nextId + 1
    /\ pending' = [pending EXCEPT ![q] = @ \cup {id}]
    /\ queue' = [queue EXCEPT ![q] = Append(@, id)]
    /\ owner' = [owner EXCEPT ![id] = q]
    /\ client' = [pc |-> "notifyOne", q |-> q, id |-> id]
    /\ UNCHANGED <<flag, ran>>

\* Mutant of Wake: the notification is forgotten.
NoWake(q) == UNCHANGED worker

\* notify_one and notify_all are the same: a queue has one waiting thread.
Wake(q) ==
    worker' = [worker EXCEPT ![q].pc = IF @ = "asleep" THEN "check" ELSE @]

NotifyOne ==
    /\ client.pc = "notifyOne"
    /\ Wake(client.q)
    /\ client' = Idle
    /\ UNCHANGED <<shared, owner, ran>>

\* Cancel of an id the queue does not know returns false and changes nothing.
CancelLookup(q, id) ==
    /\ client.pc = "idle"
    /\ id \in pending[q]
    /\ client' = [pc |-> "storeFlag", q |-> q, id |-> id]
    /\ UNCHANGED <<shared, worker, owner, ran>>

CancelStore ==
    /\ client.pc = "storeFlag"
    /\ flag' = flag \cup {client.id}
    /\ client' = [client EXCEPT !.pc = "notifyAll"]
    /\ UNCHANGED <<nextId, started, stop, queue, pending, worker, owner, ran>>

CancelNotify ==
    /\ client.pc = "notifyAll"
    /\ Wake(client.q)
    /\ client' = Idle
    /\ UNCHANGED <<shared, owner, ran>>

\* Shutdown of a queue that never ran, or was shut down already.
ShutdownUnstarted(q) ==
    /\ client.pc = "idle"
    /\ ~started[q]
    /\ stop' = [stop EXCEPT ![q] = TRUE]
    /\ queue' = [queue EXCEPT ![q] = <<>>]
    /\ pending' = [pending EXCEPT ![q] = {}]
    /\ UNCHANGED <<nextId, started, flag, worker, client, owner, ran>>

ShutdownSignal(q) ==
    /\ client.pc = "idle"
    /\ started[q]
    /\ stop' = [stop EXCEPT ![q] = TRUE]
    /\ flag' = flag \cup pending[q]
    /\ client' = [pc |-> "notifyStop", q |-> q, id |-> NoId]
    /\ UNCHANGED <<nextId, started, queue, pending, worker, owner, ran>>

ShutdownNotify ==
    /\ client.pc = "notifyStop"
    /\ Wake(client.q)
    /\ client' = [client EXCEPT !.pc = "join"]
    /\ UNCHANGED <<shared, owner, ran>>

\* join returns once the worker has left its loop; the rest is one section.
ShutdownJoin ==
    LET q == client.q IN
    /\ client.pc = "join"
    /\ worker[q].pc = "exited"
    /\ started' = [started EXCEPT ![q] = FALSE]
    /\ queue' = [queue EXCEPT ![q] = <<>>]
    /\ pending' = [pending EXCEPT ![q] = {}]
    /\ worker' = [worker EXCEPT ![q] = [pc |-> "none", item |-> NoId]]
    /\ client' = Idle
    /\ UNCHANGED <<nextId, stop, flag, owner, ran>>

-----------------------------------------------------------------------------
\* WorkerLoop.

Goto(q, pc) == worker' = [worker EXCEPT ![q].pc = pc]

\* The wait predicate holds, or the worker goes to sleep: atomic, by the mutex.
WorkerSleep(q) ==
    /\ worker[q].pc = "check"
    /\ ~stop[q] /\ queue[q] = <<>>
    /\ Goto(q, "asleep")
    /\ UNCHANGED <<shared, client, owner, ran>>

WorkerExit(q) ==
    /\ worker[q].pc = "check"
    /\ stop[q] /\ queue[q] = <<>>
    /\ Goto(q, "exited")
    /\ UNCHANGED <<shared, client, owner, ran>>

\* Mutant of WorkerPop: the job is no longer pending.
WorkerPopErasing(q) ==
    /\ worker[q].pc = "check"
    /\ queue[q] # <<>>
    /\ worker' = [worker EXCEPT ![q] = [pc |-> "popped", item |-> Head(queue[q])]]
    /\ queue' = [queue EXCEPT ![q] = Tail(@)]
    /\ pending' = [pending EXCEPT ![q] = @ \ {Head(queue[q])}]
    /\ UNCHANGED <<nextId, started, stop, flag, client, owner, ran>>

WorkerPop(q) ==
    /\ worker[q].pc = "check"
    /\ queue[q] # <<>>
    /\ worker' = [worker EXCEPT ![q] = [pc |-> "popped", item |-> Head(queue[q])]]
    /\ queue' = [queue EXCEPT ![q] = Tail(@)]
    /\ UNCHANGED <<nextId, started, stop, pending, flag, client, owner, ran>>

\* Mutant of WorkerLoadFlag: the flag is left to the job.
WorkerIgnoreFlag(q) ==
    /\ worker[q].pc = "popped"
    /\ Goto(q, "running") /\ ran' = ran \cup {worker[q].item}
    /\ UNCHANGED <<shared, client, owner>>

\* The flag is loaded without the mutex; a job that was cancelled is skipped.
WorkerLoadFlag(q) ==
    /\ worker[q].pc = "popped"
    /\ IF worker[q].item \in flag
       THEN Goto(q, "erasing") /\ UNCHANGED ran
       ELSE Goto(q, "running") /\ ran' = ran \cup {worker[q].item}
    /\ UNCHANGED <<shared, client, owner>>

\* The job returns: its HTTP calls have timeouts.
WorkerRun(q) ==
    /\ worker[q].pc = "running"
    /\ Goto(q, "erasing")
    /\ UNCHANGED <<shared, client, owner, ran>>

WorkerErase(q) ==
    /\ worker[q].pc = "erasing"
    /\ pending' = [pending EXCEPT ![q] = @ \ {worker[q].item}]
    /\ worker' = [worker EXCEPT ![q] = [pc |-> "check", item |-> NoId]]
    /\ UNCHANGED <<nextId, started, stop, queue, flag, client, owner, ran>>

\* A condition variable may wake without a notification.
WorkerSpuriousWake(q) ==
    /\ worker[q].pc = "asleep"
    /\ Goto(q, "check")
    /\ UNCHANGED <<shared, client, owner, ran>>

-----------------------------------------------------------------------------
Call == \E q \in Queues :
    \/ Enqueue(q) \/ ShutdownUnstarted(q) \/ ShutdownSignal(q)
    \/ \E id \in Ids : CancelLookup(q, id)

Return == NotifyOne \/ CancelStore \/ CancelNotify \/ ShutdownNotify \/ ShutdownJoin

WorkerStep(q) ==
    \/ WorkerSleep(q) \/ WorkerExit(q) \/ WorkerPop(q)
    \/ WorkerLoadFlag(q) \/ WorkerRun(q) \/ WorkerErase(q)

Next == Call \/ Return \/ \E q \in Queues : WorkerStep(q) \/ WorkerSpuriousWake(q)

\* The scheduler runs every thread that can run; nobody has to make a call,
\* and no spurious wake-up is ever due.
Fairness == WF_vars(Return) /\ \A q \in Queues : WF_vars(WorkerStep(q))

Spec == Init /\ [][Next]_vars /\ Fairness

-----------------------------------------------------------------------------
\* What the queue guarantees.

\* Cancel finds exactly the jobs that are waiting or in the worker's hands:
\* an id leaves m_pending only after its job is over, so neither Cancel nor
\* the flags that Shutdown raises can miss a job that has been popped.
PendingCoversWork ==
    \A q \in Queues :
        pending[q] = ToSet(queue[q]) \cup (IF Holding(q) THEN {worker[q].item} ELSE {})

\* The notifications are sent after the mutex is released.  A worker that
\* sleeps although there is work, or a stop request, is about to be woken.
NoLostWakeup ==
    \A q \in Queues :
        worker[q].pc = "asleep" /\ (stop[q] \/ queue[q] # <<>>)
            => client.q = q /\ client.pc \in {"notifyOne", "notifyStop"}

\* Shutdown returns: the worker is woken, drains the queue and can be joined.
ShutdownReturns == client.pc = "notifyStop" ~> client.pc = "idle"

-----------------------------------------------------------------------------
\* The queues implement JobService.

JobState(id) ==
    IF owner[id] = NoId THEN "free"
    ELSE IF id \notin pending[owner[id]] THEN "done"
    ELSE IF id \in ran THEN "running"
    ELSE "queued"

Jobs == INSTANCE JobService WITH
    job <- [id \in Ids |-> JobState(id)],
    cancelled <- flag

\* Seen through the map, every step of the threads is a step of JobService, and
\* the scheduling of the threads gives its jobs their fairness.
ImplementsJobService == Jobs!Spec

=============================================================================
