----------------------------- MODULE JobService -----------------------------
(***************************************************************************)
(* What the AsyncWorkQueue objects of one process promise to the thread    *)
(* that owns them, without worker threads, locks or condition variables.   *)
(* A job is submitted to a queue under an id that no queue of the process  *)
(* has used before, is executed at most once and in submission order, and  *)
(* is skipped when it was cancelled before its turn.  AsyncWorkQueue       *)
(* implements this module; TranslationFlow is built on it.                 *)
(***************************************************************************)
EXTENDS Naturals

CONSTANTS
    Queues,    \* the AsyncWorkQueue objects of the process
    MaxId      \* bound on the ids handed out (m_nextId is a 64-bit counter)

Ids == 1 .. MaxId

\* owner[id] of an id that was not handed out yet
NoQueue == 0

VARIABLES
    nextId,    \* the last id handed out, by any queue
    owner,     \* owner[id]: the queue that the job was submitted to
    job,       \* job[id]: "free", "queued", "running" or "done"
    cancelled  \* the jobs whose cancel flag is set

vars == <<nextId, owner, job, cancelled>>

Live(id) == job[id] \in {"queued", "running"}
LiveJobs(q) == {id \in Ids : owner[id] = q /\ Live(id)}

TypeOK ==
    /\ nextId \in 0 .. MaxId
    /\ owner \in [Ids -> Queues \cup {NoQueue}]
    /\ job \in [Ids -> {"free", "queued", "running", "done"}]
    /\ cancelled \subseteq Ids

Init ==
    /\ nextId = 0
    /\ owner = [id \in Ids |-> NoQueue]
    /\ job = [id \in Ids |-> "free"]
    /\ cancelled = {}

\* A queue runs one job at a time, oldest first.
OldestOf(q, id) == \A other \in LiveJobs(q) : id <= other

Enlist(q) ==
    /\ nextId < MaxId
    /\ nextId' = nextId + 1
    /\ owner' = [owner EXCEPT ![nextId + 1] = q]
    /\ job' = [job EXCEPT ![nextId + 1] = "queued"]

Submit(q) == Enlist(q) /\ UNCHANGED cancelled

\* A flag that was looked up in time may be set after its job has ended.
CancelJob(id) ==
    /\ job[id] # "free"
    /\ cancelled' = cancelled \cup {id}
    /\ UNCHANGED <<nextId, owner, job>>

\* The first half of Shutdown: every job the queue still knows is cancelled.
CloseQueue(q) ==
    /\ cancelled' = cancelled \cup LiveJobs(q)
    /\ UNCHANGED <<nextId, owner, job>>

BeginJob(id) ==
    /\ job[id] = "queued"
    /\ OldestOf(owner[id], id)
    /\ id \notin cancelled
    /\ job' = [job EXCEPT ![id] = "running"]
    /\ UNCHANGED <<nextId, owner, cancelled>>

SkipJob(id) ==
    /\ job[id] = "queued"
    /\ OldestOf(owner[id], id)
    /\ id \in cancelled
    /\ job' = [job EXCEPT ![id] = "done"]
    /\ UNCHANGED <<nextId, owner, cancelled>>

FinishJob(id) ==
    /\ job[id] = "running"
    /\ job' = [job EXCEPT ![id] = "done"]
    /\ UNCHANGED <<nextId, owner, cancelled>>

Next ==
    \/ \E q \in Queues : Submit(q) \/ CloseQueue(q)
    \/ \E id \in Ids : CancelJob(id) \/ BeginJob(id) \/ SkipJob(id) \/ FinishJob(id)

Fairness ==
    \A id \in Ids : WF_vars(BeginJob(id) \/ SkipJob(id)) /\ WF_vars(FinishJob(id))

Spec == Init /\ [][Next]_vars /\ Fairness

=============================================================================
