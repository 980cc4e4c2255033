------------------------ MODULE AsyncWorkQueueProofs ------------------------
(***************************************************************************)
(* The safety of AsyncWorkQueue for any number of queues and of jobs, and  *)
(* that its steps are those of JobService.  What makes the invariants      *)
(* inductive is what the mutex protects: see Thread, InLine and InHand.    *)
(***************************************************************************)
EXTENDS AsyncWorkQueue, TLAPS

\* The types, and which fields mean something where.
Typing ==
    /\ TypeOK
    /\ \A q \in Queues : worker[q].item # NoId <=> Holding(q)
    /\ client.pc # "idle" => client.q \in Queues
    /\ client.pc = "storeFlag" => client.id \in Ids /\ owner[client.id] # NoId

\* A queue has a worker from the first Enqueue to the end of Shutdown; it is
\* told to stop only while the caller is inside Shutdown, so that no job can
\* come after the worker has left its loop.
Thread(q) ==
    /\ started[q] <=> worker[q].pc # "none"
    /\ ~started[q] => queue[q] = <<>>
    /\ started[q] /\ stop[q] => client.q = q /\ client.pc \in {"notifyStop", "join"}
    /\ worker[q].pc = "exited" => stop[q] /\ queue[q] = <<>>

\* The jobs of a queue wait in the order of their ids, behind the one that the
\* worker holds, and none of them was run.
InLine(q) ==
    \A i \in 1 .. Len(queue[q]) :
        /\ worker[q].item < queue[q][i]
        /\ \A j \in 1 .. Len(queue[q]) : i < j => queue[q][i] < queue[q][j]
        /\ owner[queue[q][i]] = q
        /\ queue[q][i] \notin ran

\* The job in the worker's hands was not run before, and is skipped only when
\* it was cancelled.
InHand(q) ==
    /\ Holding(q) => owner[worker[q].item] = q
    /\ worker[q].pc = "popped" => worker[q].item \notin ran
    /\ worker[q].pc = "running" => worker[q].item \in ran
    /\ worker[q].pc = "erasing" => worker[q].item \in ran \cup flag

\* PendingCoversWork of one queue.
Covered(q) ==
    pending[q] = ToSet(queue[q]) \cup (IF Holding(q) THEN {worker[q].item} ELSE {})

\* NoLostWakeup of one queue.
Woken(q) ==
    worker[q].pc = "asleep" /\ (stop[q] \/ queue[q] # <<>>)
        => client.q = q /\ client.pc \in {"notifyOne", "notifyStop"}

\* The ids come from one counter, and name a queue for good.
Numbered ==
    /\ \A id \in Ids : id <= nextId <=> owner[id] # NoId
    /\ \A id \in ran : id <= nextId

IInv ==
    /\ Typing /\ Numbered
    /\ \A q \in Queues : Thread(q) /\ InLine(q) /\ InHand(q)
    /\ PendingCoversWork /\ NoLostWakeup

-----------------------------------------------------------------------------
\* Sequences of waiting jobs.

\* What is in a queue after a job was appended, or the first one taken.
LEMMA QueueContents ==
    ASSUME NEW s \in Seq(Ids)
    PROVE  /\ s = <<>> => ToSet(s) = {}
           /\ \A id \in Ids : ToSet(Append(s, id)) = ToSet(s) \cup {id}
           /\ s # <<>> => /\ Head(s) = s[1] /\ Head(s) \in Ids /\ Tail(s) \in Seq(Ids)
                         /\ ToSet(s) = ToSet(Tail(s)) \cup {Head(s)}
           /\ ToSet(s) = {s[i] : i \in 1 .. Len(s)}
<1>1. ToSet(s) = {s[i] : i \in 1 .. Len(s)}
  BY DEF ToSet
<1>2. ASSUME NEW id \in Ids PROVE ToSet(Append(s, id)) = ToSet(s) \cup {id}
  <2>1. Append(s, id) \in Seq(Ids) /\ Len(Append(s, id)) = Len(s) + 1
    OBVIOUS
  <2>2. /\ Append(s, id)[Len(s) + 1] = id
        /\ \A i \in 1 .. Len(s) : Append(s, id)[i] = s[i]
    OBVIOUS
  <2>3. ToSet(Append(s, id)) = {Append(s, id)[i] : i \in 1 .. Len(s) + 1}
    BY <2>1 DEF ToSet
  <2> QED BY <1>1, <2>2, <2>3
<1>3. ASSUME s # <<>>
      PROVE  /\ Head(s) = s[1] /\ Head(s) \in Ids /\ Tail(s) \in Seq(Ids)
             /\ ToSet(s) = ToSet(Tail(s)) \cup {Head(s)}
  <2>1. /\ Head(s) = s[1] /\ Head(s) \in Ids /\ Tail(s) \in Seq(Ids)
        /\ Len(s) \in Nat \ {0} /\ DOMAIN Tail(s) = 1 .. Len(s) - 1
        /\ \A i \in 1 .. Len(s) - 1 : Tail(s)[i] = s[i + 1]
    BY <1>3
  <2>2. ToSet(Tail(s)) = {Tail(s)[i] : i \in 1 .. Len(s) - 1}
    BY <2>1 DEF ToSet
  <2>3. ASSUME NEW i \in 1 .. Len(s) PROVE s[i] \in ToSet(Tail(s)) \cup {Head(s)}
    <3>1. CASE i = 1
      BY <2>1, <3>1
    <3>2. CASE i # 1
      <4>1. i - 1 \in 1 .. Len(s) - 1 /\ s[i] = Tail(s)[i - 1]
        BY <2>1, <3>2
      <4> QED BY <2>2, <4>1
    <3> QED BY <3>1, <3>2
  <2>4. ASSUME NEW x \in ToSet(Tail(s)) \cup {Head(s)} PROVE x \in ToSet(s)
    BY <1>1, <2>1, <2>2
  <2> QED BY <1>1, <2>1, <2>3, <2>4
<1>4. s = <<>> => ToSet(s) = {}
  BY <1>1
<1> QED BY <1>1, <1>2, <1>3, <1>4

-----------------------------------------------------------------------------
\* The worker.

\* Goto and Wake change where one worker is, and nothing else.
LEMMA WorkerMoves ==
    ASSUME TypeOK, NEW q \in Queues
    PROVE  /\ \A pc \in WorkerPc : Goto(q, pc) =>
                /\ worker' \in [Queues -> [pc : WorkerPc, item : Ids \cup {NoId}]]
                /\ \A r \in Queues : /\ worker'[r].item = worker[r].item
                                     /\ worker'[r].pc = IF r = q THEN pc ELSE worker[r].pc
           /\ Wake(q) =>
                /\ worker' \in [Queues -> [pc : WorkerPc, item : Ids \cup {NoId}]]
                /\ \A r \in Queues :
                    /\ worker'[r].item = worker[r].item
                    /\ worker'[r].pc = IF r = q /\ worker[r].pc = "asleep" THEN "check"
                                       ELSE worker[r].pc
<1>1. worker \in [Queues -> [pc : WorkerPc, item : Ids \cup {NoId}]]
  BY DEF TypeOK
<1>2. "check" \in WorkerPc
  BY DEF WorkerPc
<1>3. ASSUME NEW pc \in WorkerPc, Goto(q, pc)
      PROVE  /\ worker' \in [Queues -> [pc : WorkerPc, item : Ids \cup {NoId}]]
             /\ \A r \in Queues : /\ worker'[r].item = worker[r].item
                                  /\ worker'[r].pc = IF r = q THEN pc ELSE worker[r].pc
  BY <1>1, <1>3 DEF Goto
<1>4. ASSUME Wake(q)
      PROVE  \E pc \in WorkerPc : /\ Goto(q, pc)
                                  /\ pc = IF worker[q].pc = "asleep" THEN "check" ELSE worker[q].pc
  BY <1>1, <1>2, <1>4 DEF Wake, Goto
<1> QED BY <1>3, <1>4

\* So they keep the types, unless the worker takes a job or gives one up.
LEMMA WorkerMovesType ==
    ASSUME TypeOK, \A q \in Queues : worker[q].item # NoId <=> Holding(q),
           NEW q \in Queues,
           \/ Wake(q)
           \/ worker[q].pc \in {"check", "asleep"} /\ \E pc \in {"asleep", "exited", "check"} : Goto(q, pc)
           \/ Holding(q) /\ \E pc \in {"running", "erasing"} : Goto(q, pc)
    PROVE  /\ worker' \in [Queues -> [pc : WorkerPc, item : Ids \cup {NoId}]]
           /\ \A r \in Queues : worker'[r].item # NoId <=> Holding(r)'
<1>1. {"asleep", "exited", "check", "running", "erasing"} \subseteq WorkerPc
  BY DEF WorkerPc
<1>2. worker' \in [Queues -> [pc : WorkerPc, item : Ids \cup {NoId}]]
  BY <1>1, WorkerMoves
<1>3. CASE Wake(q)
  BY <1>2, <1>3, WorkerMoves DEF Holding
<1>4. CASE worker[q].pc \in {"check", "asleep"} /\ \E pc \in {"asleep", "exited", "check"} : Goto(q, pc)
  BY <1>1, <1>2, <1>4, WorkerMoves DEF Holding
<1>5. CASE Holding(q) /\ \E pc \in {"running", "erasing"} : Goto(q, pc)
  BY <1>1, <1>2, <1>5, WorkerMoves DEF Holding
<1> QED BY <1>2, <1>3, <1>4, <1>5

\* A job that Cancel can find has been handed out by the queue it is found in.
LEMMA PendingIsOwned ==
    ASSUME IInv, NEW q \in Queues, NEW id \in pending[q]
    PROVE  id \in Ids /\ owner[id] = q
<1>1. queue[q] \in Seq(Ids) /\ ToSet(queue[q]) = {queue[q][i] : i \in 1 .. Len(queue[q])}
  BY QueueContents DEF IInv, Typing, TypeOK
<1>2. pending[q] \subseteq Ids
  BY DEF IInv, Typing, TypeOK
<1> QED BY <1>1, <1>2 DEF IInv, PendingCoversWork, InLine, InHand

-----------------------------------------------------------------------------
\* The invariants.

LEMMA InitIInv == Init => IInv
<1> SUFFICES ASSUME Init PROVE IInv
  OBVIOUS
<1> USE DEF Init, Idle, NoId, Ids
<1>1. Typing
  BY MaxIdAssumption DEF Typing, TypeOK, Holding, WorkerPc, ClientPc
<1>2. Numbered /\ \A q \in Queues : Thread(q) /\ InLine(q) /\ InHand(q)
  BY MaxIdAssumption, QueuesAssumption DEF Numbered, Thread, InLine, InHand, Holding
<1>3. PendingCoversWork /\ NoLostWakeup
  BY DEF PendingCoversWork, NoLostWakeup, Holding, ToSet
<1> QED BY <1>1, <1>2, <1>3 DEF IInv

\* Every step keeps the types.
LEMMA TypingStep == IInv /\ [Next]_vars => Typing'
<1> SUFFICES ASSUME IInv, [Next]_vars PROVE Typing'
  OBVIOUS
<1> USE DEF Typing
<1>known. Typing
  BY DEF IInv
<1> DEFINE Moves == /\ worker' \in [Queues -> [pc : WorkerPc, item : Ids \cup {NoId}]]
                    /\ \A r \in Queues : worker'[r].item # NoId <=> Holding(r)'
<1>1. ASSUME NEW q \in Queues, Enqueue(q) PROVE Typing'
  <2> USE DEF TypeOK, Holding, NoId, WorkerPc, ClientPc
  <2>1. nextId' \in 0 .. MaxId /\ nextId + 1 \in Ids /\ 0 \notin Ids
    BY <1>known, <1>1, MaxIdAssumption DEF Enqueue, Ids
  <2>2. queue' \in [Queues -> Seq(Ids)]
    BY <1>known, <1>1, <2>1 DEF Enqueue, FreshId
  <2>3. /\ started' \in [Queues -> BOOLEAN] /\ stop' \in [Queues -> BOOLEAN]
        /\ worker' \in [Queues -> [pc : WorkerPc, item : Ids \cup {NoId}]]
        /\ \A r \in Queues : worker'[r].item # NoId <=> Holding(r)'
    <3>1. CASE started[q]
      BY <1>known, <1>1, <3>1 DEF Enqueue, EnsureWorker
    <3>2. CASE ~started[q]
      <4> DEFINE fresh == [pc |-> "check", item |-> NoId]
      <4>1. fresh \in [pc : WorkerPc, item : Ids \cup {NoId}]
        OBVIOUS
      <4>2. /\ worker' = [worker EXCEPT ![q] = fresh]
            /\ started' = [started EXCEPT ![q] = TRUE] /\ stop' = [stop EXCEPT ![q] = FALSE]
        BY <1>1, <3>2 DEF Enqueue, EnsureWorker
      <4>3. \A r \in Queues : worker'[r] = IF r = q THEN fresh ELSE worker[r]
        BY <1>known, <4>2
      <4>4. ASSUME NEW r \in Queues PROVE worker'[r].item # NoId <=> Holding(r)'
        <5>1. CASE r = q
          BY <4>3, <5>1
        <5>2. CASE r # q
          BY <1>known, <4>3, <5>2
        <5> QED BY <5>1, <5>2
      <4> HIDE DEF fresh
      <4> QED BY <1>known, <4>1, <4>2, <4>4
    <3> QED BY <3>1, <3>2
  <2> QED BY <1>known, <1>1, <2>1, <2>2, <2>3 DEF Enqueue, FreshId
<1>2. ASSUME NEW q \in Queues, ShutdownUnstarted(q) PROVE Typing'
  BY <1>known, <1>2 DEF ShutdownUnstarted, TypeOK, Holding, NoId, WorkerPc, ClientPc
<1>3. ASSUME NEW q \in Queues, ShutdownSignal(q) PROVE Typing'
  BY <1>known, <1>3 DEF ShutdownSignal, TypeOK, Holding, NoId, WorkerPc, ClientPc
<1>4. ASSUME NEW q \in Queues, NEW id \in Ids, CancelLookup(q, id) PROVE Typing'
  BY <1>known, <1>4, PendingIsOwned, QueuesAssumption DEF CancelLookup, shared, TypeOK, Holding, NoId, ClientPc
<1>5. CASE NotifyOne
  <2>1. Moves
    BY <1>known, <1>5, WorkerMovesType DEF NotifyOne
  <2> QED BY <1>known, <1>5, <2>1 DEF TypeOK, ClientPc, NotifyOne, Idle, shared
<1>6. CASE CancelStore
  BY <1>known, <1>6 DEF CancelStore, TypeOK, Holding, NoId, WorkerPc, ClientPc
<1>7. CASE CancelNotify
  <2>1. Moves
    BY <1>known, <1>7, WorkerMovesType DEF CancelNotify
  <2> QED BY <1>known, <1>7, <2>1 DEF TypeOK, ClientPc, CancelNotify, Idle, shared
<1>8. CASE ShutdownNotify
  <2>1. Moves
    BY <1>known, <1>8, WorkerMovesType DEF ShutdownNotify
  <2> QED BY <1>known, <1>8, <2>1 DEF TypeOK, ClientPc, ShutdownNotify, shared
<1>9. CASE ShutdownJoin
  BY <1>known, <1>9 DEF ShutdownJoin, Idle, TypeOK, Holding, NoId, WorkerPc, ClientPc
<1>10. ASSUME NEW q \in Queues, WorkerSleep(q) PROVE Typing'
  <2>1. Moves
    BY <1>known, <1>10, WorkerMovesType DEF WorkerSleep
  <2> QED BY <1>known, <1>10, <2>1 DEF TypeOK, ClientPc, WorkerSleep, shared
<1>11. ASSUME NEW q \in Queues, WorkerExit(q) PROVE Typing'
  <2>1. Moves
    BY <1>known, <1>11, WorkerMovesType DEF WorkerExit
  <2> QED BY <1>known, <1>11, <2>1 DEF TypeOK, ClientPc, WorkerExit, shared
<1>12. ASSUME NEW q \in Queues, WorkerPop(q) PROVE Typing'
  <2>1. Head(queue[q]) \in Ids /\ Tail(queue[q]) \in Seq(Ids) /\ 0 \notin Ids
    BY <1>known, <1>12, QueueContents DEF WorkerPop, Ids, TypeOK
  <2> QED BY <1>known, <1>12, <2>1 DEF WorkerPop, TypeOK, Holding, NoId, WorkerPc
<1>13. ASSUME NEW q \in Queues, WorkerLoadFlag(q) PROVE Typing'
  <2>1. worker[q].item \in Ids
    BY <1>known, <1>13 DEF WorkerLoadFlag, TypeOK, Holding, NoId
  <2>2. ran' \subseteq Ids
    BY <1>known, <1>13, <2>1 DEF WorkerLoadFlag, TypeOK
  <2>3. Moves
    BY <1>known, <1>13, WorkerMovesType DEF WorkerLoadFlag, Holding
  <2> QED BY <1>known, <1>13, <2>2, <2>3 DEF WorkerLoadFlag, TypeOK, shared
<1>14. ASSUME NEW q \in Queues, WorkerRun(q) PROVE Typing'
  <2>1. Moves
    BY <1>known, <1>14, WorkerMovesType DEF WorkerRun, Holding
  <2> QED BY <1>known, <1>14, <2>1 DEF TypeOK, ClientPc, WorkerRun, shared
<1>15. ASSUME NEW q \in Queues, WorkerErase(q) PROVE Typing'
  BY <1>known, <1>15 DEF WorkerErase, TypeOK, Holding, NoId, WorkerPc
<1>16. ASSUME NEW q \in Queues, WorkerSpuriousWake(q) PROVE Typing'
  <2>1. Moves
    BY <1>known, <1>16, WorkerMovesType DEF WorkerSpuriousWake
  <2> QED BY <1>known, <1>16, <2>1 DEF TypeOK, ClientPc, WorkerSpuriousWake, shared
<1>17. CASE UNCHANGED vars
  BY <1>known, <1>17 DEF vars, TypeOK, Holding
<1> QED BY <1>1, <1>2, <1>3, <1>4, <1>5, <1>6, <1>7, <1>8, <1>9, <1>10, <1>11,
           <1>12, <1>13, <1>14, <1>15, <1>16, <1>17 DEF Next, Call, Return, WorkerStep

\* A worker is there from the first Enqueue to the end of Shutdown.
LEMMA ThreadStep == IInv /\ [Next]_vars => \A r \in Queues : Thread(r)'
<1> SUFFICES ASSUME IInv, [Next]_vars, NEW r \in Queues PROVE Thread(r)'
  OBVIOUS
<1>known. TypeOK /\ Thread(r) /\ (client.pc # "idle" => client.q \in Queues)
  BY DEF IInv, Typing
<1>places. {"asleep", "exited", "check", "running", "erasing"} \subseteq WorkerPc
  BY DEF WorkerPc
<1>1. ASSUME NEW q \in Queues, Enqueue(q) PROVE Thread(r)'
  BY <1>known, <1>1 DEF Enqueue, EnsureWorker, FreshId, TypeOK, Thread
<1>2. ASSUME NEW q \in Queues, ShutdownUnstarted(q) PROVE Thread(r)'
  BY <1>known, <1>2 DEF ShutdownUnstarted, TypeOK, Thread
<1>3. ASSUME NEW q \in Queues, ShutdownSignal(q) PROVE Thread(r)'
  BY <1>known, <1>3 DEF ShutdownSignal, TypeOK, Thread
<1>4. ASSUME NEW q \in Queues, NEW id \in Ids, CancelLookup(q, id) PROVE Thread(r)'
  BY <1>known, <1>4 DEF CancelLookup, shared, TypeOK, Thread
<1>5. CASE NotifyOne
  <2>1. /\ worker'[r].pc = "none" <=> worker[r].pc = "none"
        /\ worker'[r].pc = "exited" <=> worker[r].pc = "exited"
    BY <1>known, <1>5, WorkerMoves DEF NotifyOne
  <2> QED BY <1>known, <1>5, <2>1 DEF NotifyOne, Idle, shared, TypeOK, Thread
<1>6. CASE CancelStore
  BY <1>known, <1>6 DEF CancelStore, TypeOK, Thread
<1>7. CASE CancelNotify
  <2>1. /\ worker'[r].pc = "none" <=> worker[r].pc = "none"
        /\ worker'[r].pc = "exited" <=> worker[r].pc = "exited"
    BY <1>known, <1>7, WorkerMoves DEF CancelNotify
  <2> QED BY <1>known, <1>7, <2>1 DEF CancelNotify, Idle, shared, TypeOK, Thread
<1>8. CASE ShutdownNotify
  <2>1. /\ worker'[r].pc = "none" <=> worker[r].pc = "none"
        /\ worker'[r].pc = "exited" <=> worker[r].pc = "exited"
    BY <1>known, <1>8, WorkerMoves DEF ShutdownNotify
  <2> QED BY <1>known, <1>8, <2>1 DEF ShutdownNotify, shared, TypeOK, Thread
<1>9. CASE ShutdownJoin
  BY <1>known, <1>9 DEF ShutdownJoin, Idle, TypeOK, Thread
<1>10. ASSUME NEW q \in Queues, WorkerSleep(q) PROVE Thread(r)'
  <2>1. /\ worker'[r].pc = "none" <=> worker[r].pc = "none"
        /\ worker'[r].pc = "exited" => worker[r].pc = "exited"
    BY <1>known, <1>10, WorkerMoves, <1>places DEF WorkerSleep
  <2>2. UNCHANGED <<shared, client>>
    BY <1>10 DEF WorkerSleep
  <2> QED BY <1>known, <2>1, <2>2 DEF shared, Thread
<1>11. ASSUME NEW q \in Queues, WorkerExit(q) PROVE Thread(r)'
  <2>1. /\ worker'[r].pc = "none" <=> worker[r].pc = "none"
        /\ worker'[r].pc = "exited" => r = q \/ worker[r].pc = "exited"
    BY <1>known, <1>11, WorkerMoves, <1>places DEF WorkerExit
  <2> QED BY <1>known, <1>11, <2>1 DEF WorkerExit, shared, TypeOK, Thread
<1>12. ASSUME NEW q \in Queues, WorkerPop(q) PROVE Thread(r)'
  BY <1>known, <1>12 DEF WorkerPop, TypeOK, Thread
<1>13. ASSUME NEW q \in Queues, WorkerLoadFlag(q) PROVE Thread(r)'
  <2>1. /\ worker'[r].pc = "none" <=> worker[r].pc = "none"
        /\ worker'[r].pc = "exited" <=> worker[r].pc = "exited"
    BY <1>known, <1>13, WorkerMoves, <1>places DEF WorkerLoadFlag
  <2> QED BY <1>known, <1>13, <2>1 DEF WorkerLoadFlag, shared, TypeOK, Thread
<1>14. ASSUME NEW q \in Queues, WorkerRun(q) PROVE Thread(r)'
  <2>1. /\ worker'[r].pc = "none" <=> worker[r].pc = "none"
        /\ worker'[r].pc = "exited" <=> worker[r].pc = "exited"
    BY <1>known, <1>14, WorkerMoves, <1>places DEF WorkerRun
  <2> QED BY <1>known, <1>14, <2>1 DEF WorkerRun, shared, TypeOK, Thread
<1>15. ASSUME NEW q \in Queues, WorkerErase(q) PROVE Thread(r)'
  BY <1>known, <1>15 DEF WorkerErase, TypeOK, Thread
<1>16. ASSUME NEW q \in Queues, WorkerSpuriousWake(q) PROVE Thread(r)'
  <2>1. /\ worker'[r].pc = "none" <=> worker[r].pc = "none"
        /\ worker'[r].pc = "exited" <=> worker[r].pc = "exited"
    BY <1>known, <1>16, WorkerMoves, <1>places DEF WorkerSpuriousWake
  <2> QED BY <1>known, <1>16, <2>1 DEF WorkerSpuriousWake, shared, TypeOK, Thread
<1>17. CASE UNCHANGED vars
  BY <1>known, <1>17 DEF vars, TypeOK, Thread
<1> QED BY <1>1, <1>2, <1>3, <1>4, <1>5, <1>6, <1>7, <1>8, <1>9, <1>10, <1>11, <1>12, <1>13, <1>14, <1>15, <1>16, <1>17 DEF Next, Call, Return, WorkerStep

\* What the worker holds keeps its owner; it is executed once or was cancelled.
LEMMA InHandStep == IInv /\ [Next]_vars => \A r \in Queues : InHand(r)'
<1> SUFFICES ASSUME IInv, [Next]_vars, NEW r \in Queues PROVE InHand(r)'
  OBVIOUS
<1>known. /\ TypeOK /\ Numbered /\ (client.pc # "idle" => client.q \in Queues)
          /\ \A q \in Queues : InHand(q) /\ InLine(q) /\ Thread(q)
          /\ \A q \in Queues : Holding(q) => worker[q].item \in Ids
  BY DEF IInv, Typing, TypeOK, NoId
<1>places. {"asleep", "exited", "check", "running", "erasing"} \subseteq WorkerPc
  BY DEF WorkerPc
<1>1. ASSUME NEW q \in Queues, Enqueue(q) PROVE InHand(r)'
  <2>1. CASE Holding(r)
    <3>1. worker'[r] = worker[r] /\ worker[r].item \in Ids
      BY <1>known, <1>1, <2>1 DEF Enqueue, EnsureWorker, Thread, TypeOK, Holding
    <3>2. owner'[worker[r].item] = owner[worker[r].item]
      BY <1>known, <1>1, <2>1, <3>1, QueuesAssumption
      DEF Enqueue, FreshId, TypeOK, InHand, Numbered, NoId, Ids
    <3> QED BY <1>known, <1>1, <2>1, <3>1, <3>2 DEF Enqueue, InHand, Holding
  <2>2. CASE ~Holding(r)
    <3>1. worker'[r] = worker[r] \/ worker'[r].pc = "check"
      BY <1>known, <1>1, <2>2 DEF Enqueue, EnsureWorker, TypeOK
    <3>2. ~Holding(r)'
      BY <2>2, <3>1 DEF Holding
    <3> QED BY <3>2 DEF InHand, Holding
  <2> QED BY <2>1, <2>2
<1>2. ASSUME NEW q \in Queues, ShutdownUnstarted(q) PROVE InHand(r)'
  BY <1>known, <1>2 DEF ShutdownUnstarted, TypeOK, InHand, Holding
<1>3. ASSUME NEW q \in Queues, ShutdownSignal(q) PROVE InHand(r)'
  BY <1>known, <1>3 DEF ShutdownSignal, TypeOK, InHand, Holding
<1>4. ASSUME NEW q \in Queues, NEW id \in Ids, CancelLookup(q, id) PROVE InHand(r)'
  BY <1>known, <1>4 DEF CancelLookup, shared, TypeOK, InHand, Holding
<1>5. CASE NotifyOne
  <2>1. /\ worker'[r].pc = IF r = client.q /\ worker[r].pc = "asleep" THEN "check" ELSE worker[r].pc
        /\ worker'[r].item = worker[r].item
    BY <1>known, <1>5, <1>places, WorkerMoves DEF NotifyOne
  <2> QED BY <1>known, <1>5, <2>1 DEF NotifyOne, Idle, shared, TypeOK, InHand, Holding
<1>6. CASE CancelStore
  BY <1>known, <1>6 DEF CancelStore, TypeOK, InHand, Holding
<1>7. CASE CancelNotify
  <2>1. /\ worker'[r].pc = IF r = client.q /\ worker[r].pc = "asleep" THEN "check" ELSE worker[r].pc
        /\ worker'[r].item = worker[r].item
    BY <1>known, <1>7, <1>places, WorkerMoves DEF CancelNotify
  <2> QED BY <1>known, <1>7, <2>1 DEF CancelNotify, Idle, shared, TypeOK, InHand, Holding
<1>8. CASE ShutdownNotify
  <2>1. /\ worker'[r].pc = IF r = client.q /\ worker[r].pc = "asleep" THEN "check" ELSE worker[r].pc
        /\ worker'[r].item = worker[r].item
    BY <1>known, <1>8, <1>places, WorkerMoves DEF ShutdownNotify
  <2> QED BY <1>known, <1>8, <2>1 DEF ShutdownNotify, shared, TypeOK, InHand, Holding
<1>9. CASE ShutdownJoin
  BY <1>known, <1>9 DEF ShutdownJoin, Idle, TypeOK, InHand, Holding
<1>10. ASSUME NEW q \in Queues, WorkerSleep(q) PROVE InHand(r)'
  <2>1. /\ worker'[r].pc = IF r = q THEN "asleep" ELSE worker[r].pc
        /\ worker'[r].item = worker[r].item
    BY <1>known, <1>10, <1>places, WorkerMoves DEF WorkerSleep
  <2> QED BY <1>known, <1>10, <2>1 DEF WorkerSleep, shared, TypeOK, InHand, Holding
<1>11. ASSUME NEW q \in Queues, WorkerExit(q) PROVE InHand(r)'
  <2>1. /\ worker'[r].pc = IF r = q THEN "exited" ELSE worker[r].pc
        /\ worker'[r].item = worker[r].item
    BY <1>known, <1>11, <1>places, WorkerMoves DEF WorkerExit
  <2> QED BY <1>known, <1>11, <2>1 DEF WorkerExit, shared, TypeOK, InHand, Holding
<1>12. ASSUME NEW q \in Queues, WorkerPop(q) PROVE InHand(r)'
  <2>1. CASE r = q
    <3>1. Head(queue[q]) = queue[q][1] /\ 1 \in 1 .. Len(queue[q])
      BY <1>known, <1>12, QueueContents DEF WorkerPop, TypeOK
    <3>2. worker'[r] = [pc |-> "popped", item |-> queue[q][1]]
      BY <1>known, <1>12, <2>1, <3>1 DEF WorkerPop, TypeOK
    <3> QED BY <1>known, <1>12, <2>1, <3>1, <3>2 DEF WorkerPop, InHand, InLine, Holding
  <2>2. CASE r # q
    BY <1>known, <1>12, <2>2 DEF WorkerPop, TypeOK, InHand, Holding
  <2> QED BY <2>1, <2>2
<1>13. ASSUME NEW q \in Queues, WorkerLoadFlag(q) PROVE InHand(r)'
  <2>1. /\ worker'[r].pc = IF r = q THEN IF worker[q].item \in flag THEN "erasing" ELSE "running"
                          ELSE worker[r].pc
        /\ worker'[r].item = worker[r].item
    BY <1>known, <1>13, <1>places, WorkerMoves DEF WorkerLoadFlag
  <2>2. r # q /\ Holding(r) => worker[r].item # worker[q].item
    BY <1>known, <1>13 DEF WorkerLoadFlag, InHand, Holding
  <2>3. UNCHANGED <<flag, owner>> /\ ran' = IF worker[q].item \in flag THEN ran ELSE ran \cup {worker[q].item}
    BY <1>13 DEF WorkerLoadFlag, shared
  <2>4. CASE r = q
    BY <1>known, <1>13, <2>1, <2>3, <2>4 DEF WorkerLoadFlag, InHand, Holding
  <2>5. CASE r # q
    BY <1>known, <2>1, <2>2, <2>3, <2>5 DEF InHand, Holding
  <2> QED BY <2>4, <2>5
<1>14. ASSUME NEW q \in Queues, WorkerRun(q) PROVE InHand(r)'
  <2>1. /\ worker'[r].pc = IF r = q THEN "erasing" ELSE worker[r].pc
        /\ worker'[r].item = worker[r].item
    BY <1>known, <1>14, <1>places, WorkerMoves DEF WorkerRun
  <2> QED BY <1>known, <1>14, <2>1 DEF WorkerRun, shared, TypeOK, InHand, Holding
<1>15. ASSUME NEW q \in Queues, WorkerErase(q) PROVE InHand(r)'
  BY <1>known, <1>15 DEF WorkerErase, TypeOK, InHand, Holding
<1>16. ASSUME NEW q \in Queues, WorkerSpuriousWake(q) PROVE InHand(r)'
  <2>1. /\ worker'[r].pc = IF r = q THEN "check" ELSE worker[r].pc
        /\ worker'[r].item = worker[r].item
    BY <1>known, <1>16, <1>places, WorkerMoves DEF WorkerSpuriousWake
  <2> QED BY <1>known, <1>16, <2>1 DEF WorkerSpuriousWake, shared, TypeOK, InHand, Holding
<1>17. CASE UNCHANGED vars
  BY <1>known, <1>17 DEF vars, TypeOK, InHand, Holding
<1> QED BY <1>1, <1>2, <1>3, <1>4, <1>5, <1>6, <1>7, <1>8, <1>9, <1>10, <1>11, <1>12, <1>13, <1>14, <1>15, <1>16, <1>17 DEF Next, Call, Return, WorkerStep

\* The jobs that wait keep their order and their owner.
LEMMA InLineStep == IInv /\ [Next]_vars => \A r \in Queues : InLine(r)'
<1> SUFFICES ASSUME IInv, [Next]_vars, NEW r \in Queues PROVE InLine(r)'
  OBVIOUS
<1>known. /\ TypeOK /\ Numbered /\ (client.pc # "idle" => client.q \in Queues)
          /\ \A q \in Queues : InHand(q) /\ InLine(q) /\ Thread(q)
          /\ \A q \in Queues : Holding(q) => worker[q].item \in Ids
          /\ \A q \in Queues : worker[q].item \in Nat /\ (~Holding(q) => worker[q].item = 0)
  BY DEF IInv, Typing, TypeOK, NoId, Ids
<1>item. worker[r].item \in Nat /\ (~Holding(r) => worker[r].item = 0)
  BY DEF IInv, Typing, TypeOK, NoId, Ids
<1>places. {"asleep", "exited", "check", "running", "erasing"} \subseteq WorkerPc
  BY DEF WorkerPc
<1>1. ASSUME NEW q \in Queues, Enqueue(q) PROVE InLine(r)'
  <2>1. /\ nextId + 1 \in Ids /\ nextId + 1 \notin ran
        /\ \A i \in 1 .. Len(queue[r]) : queue[r][i] \in Ids /\ queue[r][i] < nextId + 1
    <3>1. nextId \in Nat /\ nextId + 1 \in Ids /\ nextId + 1 \notin ran
      BY <1>known, <1>1, MaxIdAssumption DEF Enqueue, TypeOK, Numbered, Ids
    <3>2. ASSUME NEW i \in 1 .. Len(queue[r])
          PROVE  queue[r][i] \in Ids /\ queue[r][i] < nextId + 1
      <4>1. queue[r][i] \in Ids
        BY <1>known DEF TypeOK
      <4>2. owner[queue[r][i]] # NoId
        BY <1>known, QueuesAssumption DEF InLine, NoId
      <4> QED BY <1>known, <3>1, <4>1, <4>2 DEF Numbered, Ids
    <3> QED BY <3>1, <3>2
  <2>2. worker'[r].item \in {worker[r].item, 0} /\ worker[r].item < nextId + 1
    <3>1. worker'[r] = worker[r] \/ worker'[r].item = 0
      BY <1>known, <1>1 DEF Enqueue, EnsureWorker, TypeOK, NoId
    <3>2. CASE Holding(r)
      <4>1. worker[r].item \in Ids /\ owner[worker[r].item] # NoId
        BY <1>known, <3>2, QueuesAssumption DEF InHand, NoId
      <4> QED BY <1>known, <3>1, <4>1, <2>1 DEF Numbered, TypeOK, Ids
    <3>3. CASE ~Holding(r)
      <4>1. worker[r].item = 0
        BY <1>item, <3>3
      <4>2. nextId \in Nat
        BY <1>known DEF TypeOK
      <4> QED BY <3>1, <4>1, <4>2
    <3> QED BY <3>2, <3>3
  <2>3. /\ \A id \in Ids : owner'[id] = IF id = nextId + 1 THEN q ELSE owner[id]
        /\ ran' = ran
        /\ queue'[r] = IF r = q THEN Append(queue[r], nextId + 1) ELSE queue[r]
    BY <1>known, <1>1 DEF Enqueue, FreshId, TypeOK
  <2>4. CASE r = q
    <3>1. /\ Len(queue'[r]) = Len(queue[r]) + 1
          /\ queue'[r][Len(queue[r]) + 1] = nextId + 1
          /\ \A i \in 1 .. Len(queue[r]) : queue'[r][i] = queue[r][i]
          /\ queue[r] \in Seq(Ids)
      BY <1>known, <2>1, <2>3, <2>4 DEF TypeOK
    <3>2. ASSUME NEW i \in 1 .. Len(queue'[r])
          PROVE  /\ worker'[r].item < queue'[r][i]
                 /\ \A j \in 1 .. Len(queue'[r]) : i < j => queue'[r][i] < queue'[r][j]
                 /\ owner'[queue'[r][i]] = r
                 /\ queue'[r][i] \notin ran'
      <4>1. CASE i \in 1 .. Len(queue[r])
        BY <1>known, <2>1, <2>2, <2>3, <2>4, <3>1, <4>1 DEF InLine, Ids
      <4>2. CASE i = Len(queue[r]) + 1
        BY <1>known, <2>1, <2>2, <2>3, <2>4, <3>1, <4>2 DEF Ids
      <4> QED BY <3>1, <4>1, <4>2
    <3> QED BY <3>2 DEF InLine
  <2>5. CASE r # q
    <3>1. queue'[r] = queue[r] /\ InLine(r)
      BY <1>known, <2>3, <2>5
    <3>2. ASSUME NEW i \in 1 .. Len(queue[r])
          PROVE  /\ worker'[r].item < queue[r][i]
                 /\ owner'[queue[r][i]] = r
                 /\ queue[r][i] \notin ran'
      <4>1. queue[r][i] \in Ids /\ queue[r][i] < nextId + 1 /\ nextId \in Nat
        BY <1>known, <2>1 DEF TypeOK
      <4>2. queue[r][i] # nextId + 1
        BY <4>1 DEF Ids
      <4>3. owner[queue[r][i]] = r /\ queue[r][i] \notin ran /\ worker[r].item < queue[r][i]
        BY <3>1 DEF InLine
      <4>4. worker'[r].item < queue[r][i]
        BY <2>2, <4>1, <4>3 DEF Ids
      <4> QED BY <2>3, <4>1, <4>2, <4>3, <4>4
    <3> QED BY <3>1, <3>2 DEF InLine
  <2> QED BY <2>4, <2>5
<1>2. ASSUME NEW q \in Queues, ShutdownUnstarted(q) PROVE InLine(r)'
  BY <1>known, <1>2 DEF ShutdownUnstarted, TypeOK, InLine
<1>3. ASSUME NEW q \in Queues, ShutdownSignal(q) PROVE InLine(r)'
  BY <1>known, <1>3 DEF ShutdownSignal, TypeOK, InLine
<1>4. ASSUME NEW q \in Queues, NEW id \in Ids, CancelLookup(q, id) PROVE InLine(r)'
  BY <1>known, <1>4 DEF CancelLookup, shared, TypeOK, InLine
<1>5. CASE NotifyOne
  <2>1. /\ worker'[r].pc = IF r = client.q /\ worker[r].pc = "asleep" THEN "check" ELSE worker[r].pc
        /\ worker'[r].item = worker[r].item
    BY <1>known, <1>5, <1>places, WorkerMoves DEF NotifyOne
  <2> QED BY <1>known, <1>5, <2>1 DEF NotifyOne, Idle, shared, TypeOK, InLine
<1>6. CASE CancelStore
  BY <1>known, <1>6 DEF CancelStore, TypeOK, InLine
<1>7. CASE CancelNotify
  <2>1. /\ worker'[r].pc = IF r = client.q /\ worker[r].pc = "asleep" THEN "check" ELSE worker[r].pc
        /\ worker'[r].item = worker[r].item
    BY <1>known, <1>7, <1>places, WorkerMoves DEF CancelNotify
  <2> QED BY <1>known, <1>7, <2>1 DEF CancelNotify, Idle, shared, TypeOK, InLine
<1>8. CASE ShutdownNotify
  <2>1. /\ worker'[r].pc = IF r = client.q /\ worker[r].pc = "asleep" THEN "check" ELSE worker[r].pc
        /\ worker'[r].item = worker[r].item
    BY <1>known, <1>8, <1>places, WorkerMoves DEF ShutdownNotify
  <2> QED BY <1>known, <1>8, <2>1 DEF ShutdownNotify, shared, TypeOK, InLine
<1>9. CASE ShutdownJoin
  BY <1>known, <1>9 DEF ShutdownJoin, Idle, TypeOK, InLine
<1>10. ASSUME NEW q \in Queues, WorkerSleep(q) PROVE InLine(r)'
  <2>1. /\ worker'[r].pc = IF r = q THEN "asleep" ELSE worker[r].pc
        /\ worker'[r].item = worker[r].item
    BY <1>known, <1>10, <1>places, WorkerMoves DEF WorkerSleep
  <2> QED BY <1>known, <1>10, <2>1 DEF WorkerSleep, shared, TypeOK, InLine
<1>11. ASSUME NEW q \in Queues, WorkerExit(q) PROVE InLine(r)'
  <2>1. /\ worker'[r].pc = IF r = q THEN "exited" ELSE worker[r].pc
        /\ worker'[r].item = worker[r].item
    BY <1>known, <1>11, <1>places, WorkerMoves DEF WorkerExit
  <2> QED BY <1>known, <1>11, <2>1 DEF WorkerExit, shared, TypeOK, InLine
<1>12. ASSUME NEW q \in Queues, WorkerPop(q) PROVE InLine(r)'
  <2>1. CASE r = q
    <3>1. /\ 1 \in 1 .. Len(queue[r]) /\ Head(queue[r]) = queue[r][1]
          /\ Len(queue'[r]) = Len(queue[r]) - 1
          /\ \A i \in 1 .. Len(queue'[r]) : queue'[r][i] = queue[r][i + 1]
          /\ \A i \in 1 .. Len(queue'[r]) : i + 1 \in 1 .. Len(queue[r])
      BY <1>known, <1>12, <2>1 DEF WorkerPop, TypeOK
    <3>2. worker'[r].item = queue[r][1] /\ owner' = owner /\ ran' = ran
      BY <1>known, <1>12, <2>1, <3>1 DEF WorkerPop, TypeOK
    <3>3. Len(queue[r]) \in Nat
      BY <1>known DEF TypeOK
    <3>4. ASSUME NEW i \in 1 .. Len(queue'[r])
          PROVE  /\ worker'[r].item < queue'[r][i]
                 /\ \A j \in 1 .. Len(queue'[r]) : i < j => queue'[r][i] < queue'[r][j]
                 /\ owner'[queue'[r][i]] = r
                 /\ queue'[r][i] \notin ran'
      <4>1. InLine(r) /\ i + 1 \in 1 .. Len(queue[r]) /\ 1 \in 1 .. Len(queue[r])
        BY <1>known, <3>1, <3>3
      <4>2. queue'[r][i] = queue[r][i + 1] /\ 1 < i + 1
        BY <3>1
      <4>3. worker'[r].item < queue'[r][i]
        BY <3>2, <4>1, <4>2 DEF InLine
      <4>4. owner'[queue'[r][i]] = r /\ queue'[r][i] \notin ran'
        BY <3>2, <4>1, <4>2 DEF InLine
      <4>5. ASSUME NEW j \in 1 .. Len(queue'[r]), i < j PROVE queue'[r][i] < queue'[r][j]
        <5>1. j + 1 \in 1 .. Len(queue[r]) /\ queue'[r][j] = queue[r][j + 1] /\ i + 1 < j + 1
          BY <3>1, <3>3, <4>5
        <5> QED BY <4>1, <4>2, <5>1 DEF InLine
      <4> QED BY <4>3, <4>4, <4>5
    <3> QED BY <3>4 DEF InLine
  <2>2. CASE r # q
    BY <1>known, <1>12, <2>2 DEF WorkerPop, TypeOK, InLine
  <2> QED BY <2>1, <2>2
<1>13. ASSUME NEW q \in Queues, WorkerLoadFlag(q) PROVE InLine(r)'
  <2>1. worker'[r].item = worker[r].item
    BY <1>known, <1>13, <1>places, WorkerMoves DEF WorkerLoadFlag
  <2>2. \A i \in 1 .. Len(queue[r]) : queue[r][i] # worker[q].item
    BY <1>known, <1>13 DEF WorkerLoadFlag, InHand, Holding, InLine, TypeOK, Ids
  <2>3. UNCHANGED <<queue, owner>> /\ ran' \in {ran, ran \cup {worker[q].item}}
    BY <1>13 DEF WorkerLoadFlag, shared
  <2> QED BY <1>known, <2>1, <2>2, <2>3 DEF InLine
<1>14. ASSUME NEW q \in Queues, WorkerRun(q) PROVE InLine(r)'
  <2>1. /\ worker'[r].pc = IF r = q THEN "erasing" ELSE worker[r].pc
        /\ worker'[r].item = worker[r].item
    BY <1>known, <1>14, <1>places, WorkerMoves DEF WorkerRun
  <2> QED BY <1>known, <1>14, <2>1 DEF WorkerRun, shared, TypeOK, InLine
<1>15. ASSUME NEW q \in Queues, WorkerErase(q) PROVE InLine(r)'
  <2>1. worker'[r].item \in {worker[r].item, 0}
    BY <1>known, <1>15 DEF WorkerErase, TypeOK, NoId
  <2>2. \A i \in 1 .. Len(queue[r]) : queue[r][i] \in Ids
    BY <1>known DEF TypeOK
  <2> QED BY <1>known, <1>15, <2>1, <2>2 DEF WorkerErase, InLine, Ids
<1>16. ASSUME NEW q \in Queues, WorkerSpuriousWake(q) PROVE InLine(r)'
  <2>1. /\ worker'[r].pc = IF r = q THEN "check" ELSE worker[r].pc
        /\ worker'[r].item = worker[r].item
    BY <1>known, <1>16, <1>places, WorkerMoves DEF WorkerSpuriousWake
  <2> QED BY <1>known, <1>16, <2>1 DEF WorkerSpuriousWake, shared, TypeOK, InLine
<1>17. CASE UNCHANGED vars
  BY <1>known, <1>17 DEF vars, TypeOK, InLine
<1> QED BY <1>1, <1>2, <1>3, <1>4, <1>5, <1>6, <1>7, <1>8, <1>9, <1>10, <1>11, <1>12, <1>13, <1>14, <1>15, <1>16, <1>17 DEF Next, Call, Return, WorkerStep

\* The ids are handed out in order, and only those that are out are executed.
LEMMA NumberedStep == IInv /\ [Next]_vars => Numbered'
<1> SUFFICES ASSUME IInv, [Next]_vars PROVE Numbered'
  OBVIOUS
<1>known. /\ TypeOK /\ Numbered /\ \A q \in Queues : InHand(q)
          /\ \A q \in Queues : Holding(q) => worker[q].item \in Ids
  BY DEF IInv, Typing, TypeOK, NoId
<1>1. ASSUME NEW q \in Queues, Enqueue(q) PROVE Numbered'
  <2>1. /\ nextId \in Nat /\ nextId' = nextId + 1 /\ ran' = ran
        /\ \A id \in Ids : owner'[id] = IF id = nextId + 1 THEN q ELSE owner[id]
    BY <1>known, <1>1 DEF Enqueue, FreshId, TypeOK
  <2>2. q # NoId
    BY QueuesAssumption DEF NoId
  <2>3. ASSUME NEW id \in Ids PROVE id <= nextId' <=> owner'[id] # NoId
    BY <1>known, <2>1, <2>2 DEF Numbered, Ids
  <2>4. ASSUME NEW id \in ran PROVE id <= nextId'
    BY <1>known, <2>1 DEF Numbered, TypeOK, Ids
  <2> QED BY <2>1, <2>3, <2>4 DEF Numbered
<1>2. ASSUME NEW q \in Queues, ShutdownUnstarted(q) PROVE Numbered'
  BY <1>known, <1>2 DEF ShutdownUnstarted, Numbered
<1>3. ASSUME NEW q \in Queues, ShutdownSignal(q) PROVE Numbered'
  BY <1>known, <1>3 DEF ShutdownSignal, Numbered
<1>4. ASSUME NEW q \in Queues, NEW id \in Ids, CancelLookup(q, id) PROVE Numbered'
  BY <1>known, <1>4 DEF CancelLookup, shared, Numbered
<1>5. CASE NotifyOne
  BY <1>known, <1>5 DEF NotifyOne, Idle, shared, Numbered
<1>6. CASE CancelStore
  BY <1>known, <1>6 DEF CancelStore, Numbered
<1>7. CASE CancelNotify
  BY <1>known, <1>7 DEF CancelNotify, Idle, shared, Numbered
<1>8. CASE ShutdownNotify
  BY <1>known, <1>8 DEF ShutdownNotify, shared, Numbered
<1>9. CASE ShutdownJoin
  BY <1>known, <1>9 DEF ShutdownJoin, Idle, Numbered
<1>10. ASSUME NEW q \in Queues, WorkerSleep(q) PROVE Numbered'
  BY <1>known, <1>10 DEF WorkerSleep, shared, Numbered
<1>11. ASSUME NEW q \in Queues, WorkerExit(q) PROVE Numbered'
  BY <1>known, <1>11 DEF WorkerExit, shared, Numbered
<1>12. ASSUME NEW q \in Queues, WorkerPop(q) PROVE Numbered'
  BY <1>known, <1>12 DEF WorkerPop, Numbered
<1>13. ASSUME NEW q \in Queues, WorkerLoadFlag(q) PROVE Numbered'
  <2>1. worker[q].item \in Ids /\ owner[worker[q].item] # NoId
    BY <1>known, <1>13, QueuesAssumption DEF WorkerLoadFlag, InHand, Holding, NoId
  <2> QED BY <1>known, <1>13, <2>1 DEF WorkerLoadFlag, shared, Numbered
<1>14. ASSUME NEW q \in Queues, WorkerRun(q) PROVE Numbered'
  BY <1>known, <1>14 DEF WorkerRun, shared, Numbered
<1>15. ASSUME NEW q \in Queues, WorkerErase(q) PROVE Numbered'
  BY <1>known, <1>15 DEF WorkerErase, Numbered
<1>16. ASSUME NEW q \in Queues, WorkerSpuriousWake(q) PROVE Numbered'
  BY <1>known, <1>16 DEF WorkerSpuriousWake, shared, Numbered
<1>17. CASE UNCHANGED vars
  BY <1>known, <1>17 DEF vars, Numbered
<1> QED BY <1>1, <1>2, <1>3, <1>4, <1>5, <1>6, <1>7, <1>8, <1>9, <1>10, <1>11, <1>12, <1>13, <1>14, <1>15, <1>16, <1>17 DEF Next, Call, Return, WorkerStep

\* What Cancel can find stays what waits or is in hand.
LEMMA CoveredStep == IInv /\ [Next]_vars => \A r \in Queues : Covered(r)'
<1> SUFFICES ASSUME IInv, [Next]_vars, NEW r \in Queues PROVE Covered(r)'
  OBVIOUS
<1>known. /\ TypeOK /\ (client.pc # "idle" => client.q \in Queues)
          /\ Covered(r) /\ Thread(r) /\ InLine(r)
          /\ worker[r].item \in Ids \cup {NoId} /\ queue[r] \in Seq(Ids) /\ NoId \notin Ids
  BY DEF IInv, Typing, TypeOK, NoId, Ids, Covered, PendingCoversWork
<1>places. {"asleep", "exited", "check", "running", "erasing"} \subseteq WorkerPc
  BY DEF WorkerPc
<1>1. ASSUME NEW q \in Queues, Enqueue(q) PROVE Covered(r)'
  <2>1. nextId + 1 \in Ids
    BY <1>known, <1>1, MaxIdAssumption DEF Enqueue, TypeOK, Ids
  <2>2. CASE r = q
    <3>1. pending'[r] = pending[r] \cup {nextId + 1} /\ queue'[r] = Append(queue[r], nextId + 1)
      BY <1>known, <1>1, <2>2 DEF Enqueue, FreshId, TypeOK
    <3>2. ToSet(queue'[r]) = ToSet(queue[r]) \cup {nextId + 1}
      BY <1>known, <2>1, <3>1, QueueContents
    <3>3. CASE started[q]
      BY <1>known, <1>1, <3>1, <3>2, <3>3 DEF Enqueue, EnsureWorker, Covered, Holding
    <3>4. CASE ~started[q]
      <4>1. worker'[r].pc = "check"
        BY <1>known, <1>1, <2>2, <3>4 DEF Enqueue, EnsureWorker, TypeOK
      <4>2. ~Holding(r) /\ ~Holding(r)'
        BY <1>known, <2>2, <3>4, <4>1 DEF Thread, Holding
      <4> QED BY <1>known, <3>1, <3>2, <4>2 DEF Covered
    <3> QED BY <3>3, <3>4
  <2>3. CASE r # q
    BY <1>known, <1>1, <2>3 DEF Enqueue, EnsureWorker, TypeOK, Covered, Holding
  <2> QED BY <2>2, <2>3
<1>2. ASSUME NEW q \in Queues, ShutdownUnstarted(q) PROVE Covered(r)'
  <2>1. CASE r = q
    <3>1. ~Holding(r)' /\ pending'[r] = {} /\ queue'[r] = <<>>
      BY <1>known, <1>2, <2>1 DEF ShutdownUnstarted, Thread, Holding, TypeOK
    <3> QED BY <3>1, QueueContents DEF Covered, ToSet
  <2>2. CASE r # q
    BY <1>known, <1>2, <2>2 DEF ShutdownUnstarted, TypeOK, Covered, Holding
  <2> QED BY <2>1, <2>2
<1>3. ASSUME NEW q \in Queues, ShutdownSignal(q) PROVE Covered(r)'
  BY <1>known, <1>3 DEF ShutdownSignal, Covered, Holding
<1>4. ASSUME NEW q \in Queues, NEW id \in Ids, CancelLookup(q, id) PROVE Covered(r)'
  BY <1>known, <1>4 DEF CancelLookup, shared, Covered, Holding
<1>5. CASE NotifyOne
  <2>1. /\ worker'[r].pc = IF r = client.q /\ worker[r].pc = "asleep" THEN "check" ELSE worker[r].pc
        /\ worker'[r].item = worker[r].item
    BY <1>known, <1>5, <1>places, WorkerMoves DEF NotifyOne
  <2> QED BY <1>known, <1>5, <2>1 DEF NotifyOne, Idle, shared, Covered, Holding
<1>6. CASE CancelStore
  BY <1>known, <1>6 DEF CancelStore, Covered, Holding
<1>7. CASE CancelNotify
  <2>1. /\ worker'[r].pc = IF r = client.q /\ worker[r].pc = "asleep" THEN "check" ELSE worker[r].pc
        /\ worker'[r].item = worker[r].item
    BY <1>known, <1>7, <1>places, WorkerMoves DEF CancelNotify
  <2> QED BY <1>known, <1>7, <2>1 DEF CancelNotify, Idle, shared, Covered, Holding
<1>8. CASE ShutdownNotify
  <2>1. /\ worker'[r].pc = IF r = client.q /\ worker[r].pc = "asleep" THEN "check" ELSE worker[r].pc
        /\ worker'[r].item = worker[r].item
    BY <1>known, <1>8, <1>places, WorkerMoves DEF ShutdownNotify
  <2> QED BY <1>known, <1>8, <2>1 DEF ShutdownNotify, shared, Covered, Holding
<1>9. CASE ShutdownJoin
  <2>1. CASE r = client.q
    <3>1. worker'[r].pc = "none" /\ pending'[r] = {} /\ queue'[r] = <<>>
      BY <1>known, <1>9, <2>1 DEF ShutdownJoin, TypeOK
    <3> QED BY <3>1 DEF Covered, Holding, ToSet
  <2>2. CASE r # client.q
    BY <1>known, <1>9, <2>2 DEF ShutdownJoin, TypeOK, Covered, Holding
  <2> QED BY <2>1, <2>2
<1>10. ASSUME NEW q \in Queues, WorkerSleep(q) PROVE Covered(r)'
  <2>1. /\ worker'[r].pc = IF r = q THEN "asleep" ELSE worker[r].pc
        /\ worker'[r].item = worker[r].item
    BY <1>known, <1>10, <1>places, WorkerMoves DEF WorkerSleep
  <2> QED BY <1>known, <1>10, <2>1 DEF WorkerSleep, shared, Covered, Holding
<1>11. ASSUME NEW q \in Queues, WorkerExit(q) PROVE Covered(r)'
  <2>1. /\ worker'[r].pc = IF r = q THEN "exited" ELSE worker[r].pc
        /\ worker'[r].item = worker[r].item
    BY <1>known, <1>11, <1>places, WorkerMoves DEF WorkerExit
  <2> QED BY <1>known, <1>11, <2>1 DEF WorkerExit, shared, Covered, Holding
<1>12. ASSUME NEW q \in Queues, WorkerPop(q) PROVE Covered(r)'
  <2>1. CASE r = q
    <3>1. /\ worker'[r] = [pc |-> "popped", item |-> Head(queue[r])]
          /\ queue'[r] = Tail(queue[r]) /\ pending'[r] = pending[r] /\ worker[r].pc = "check"
      BY <1>known, <1>12, <2>1 DEF WorkerPop, TypeOK
    <3>2. ToSet(queue[r]) = ToSet(queue'[r]) \cup {Head(queue[r])}
      BY <1>known, <1>12, <2>1, <3>1, QueueContents DEF WorkerPop
    <3> QED BY <1>known, <3>1, <3>2 DEF Covered, Holding
  <2>2. CASE r # q
    BY <1>known, <1>12, <2>2 DEF WorkerPop, TypeOK, Covered, Holding
  <2> QED BY <2>1, <2>2
<1>13. ASSUME NEW q \in Queues, WorkerLoadFlag(q) PROVE Covered(r)'
  <2>1. /\ worker'[r].pc = IF r = q THEN IF worker[q].item \in flag THEN "erasing" ELSE "running" ELSE worker[r].pc
        /\ worker'[r].item = worker[r].item
    BY <1>known, <1>13, <1>places, WorkerMoves DEF WorkerLoadFlag
  <2> QED BY <1>known, <1>13, <2>1 DEF WorkerLoadFlag, shared, Covered, Holding
<1>14. ASSUME NEW q \in Queues, WorkerRun(q) PROVE Covered(r)'
  <2>1. /\ worker'[r].pc = IF r = q THEN "erasing" ELSE worker[r].pc
        /\ worker'[r].item = worker[r].item
    BY <1>known, <1>14, <1>places, WorkerMoves DEF WorkerRun
  <2> QED BY <1>known, <1>14, <2>1 DEF WorkerRun, shared, Covered, Holding
<1>15. ASSUME NEW q \in Queues, WorkerErase(q) PROVE Covered(r)'
  <2>1. CASE r = q
    <3>1. /\ worker'[r] = [pc |-> "check", item |-> NoId] /\ worker[r].pc = "erasing"
          /\ queue'[r] = queue[r] /\ pending'[r] = pending[r] \ {worker[r].item}
      BY <1>known, <1>15, <2>1 DEF WorkerErase, TypeOK
    <3>2. worker[r].item \notin ToSet(queue[r])
      BY <1>known, QueueContents DEF InLine, NoId, Ids
    <3> QED BY <1>known, <3>1, <3>2 DEF Covered, Holding
  <2>2. CASE r # q
    BY <1>known, <1>15, <2>2 DEF WorkerErase, TypeOK, Covered, Holding
  <2> QED BY <2>1, <2>2
<1>16. ASSUME NEW q \in Queues, WorkerSpuriousWake(q) PROVE Covered(r)'
  <2>1. /\ worker'[r].pc = IF r = q THEN "check" ELSE worker[r].pc
        /\ worker'[r].item = worker[r].item
    BY <1>known, <1>16, <1>places, WorkerMoves DEF WorkerSpuriousWake
  <2> QED BY <1>known, <1>16, <2>1 DEF WorkerSpuriousWake, shared, Covered, Holding
<1>17. CASE UNCHANGED vars
  BY <1>known, <1>17 DEF vars, Covered, Holding
<1> QED BY <1>1, <1>2, <1>3, <1>4, <1>5, <1>6, <1>7, <1>8, <1>9, <1>10, <1>11, <1>12, <1>13, <1>14, <1>15, <1>16, <1>17 DEF Next, Call, Return, WorkerStep

\* Whoever changes what a sleeping worker waits for notifies it next.
LEMMA WokenStep == IInv /\ [Next]_vars => \A r \in Queues : Woken(r)'
<1> SUFFICES ASSUME IInv, [Next]_vars, NEW r \in Queues PROVE Woken(r)'
  OBVIOUS
<1>known. /\ TypeOK /\ (client.pc # "idle" => client.q \in Queues) /\ Woken(r) /\ Thread(r)
  BY DEF IInv, Typing, Woken, NoLostWakeup
<1>places. {"asleep", "exited", "check", "running", "erasing"} \subseteq WorkerPc
  BY DEF WorkerPc
<1>1. ASSUME NEW q \in Queues, Enqueue(q) PROVE Woken(r)'
  BY <1>known, <1>1 DEF Enqueue, EnsureWorker, FreshId, TypeOK, Woken, Thread
<1>2. ASSUME NEW q \in Queues, ShutdownUnstarted(q) PROVE Woken(r)'
  BY <1>known, <1>2 DEF ShutdownUnstarted, TypeOK, Woken, Thread
<1>3. ASSUME NEW q \in Queues, ShutdownSignal(q) PROVE Woken(r)'
  BY <1>known, <1>3 DEF ShutdownSignal, TypeOK, Woken, Thread
<1>4. ASSUME NEW q \in Queues, NEW id \in Ids, CancelLookup(q, id) PROVE Woken(r)'
  BY <1>known, <1>4 DEF CancelLookup, shared, TypeOK, Woken, Thread
<1>5. CASE NotifyOne
  <2>1. /\ worker'[r].pc = IF r = client.q /\ worker[r].pc = "asleep" THEN "check" ELSE worker[r].pc
        /\ worker'[r].item = worker[r].item
    BY <1>known, <1>5, <1>places, WorkerMoves DEF NotifyOne
  <2> QED BY <1>known, <1>5, <2>1 DEF NotifyOne, Idle, shared, TypeOK, Woken, Thread
<1>6. CASE CancelStore
  BY <1>known, <1>6 DEF CancelStore, TypeOK, Woken, Thread
<1>7. CASE CancelNotify
  <2>1. /\ worker'[r].pc = IF r = client.q /\ worker[r].pc = "asleep" THEN "check" ELSE worker[r].pc
        /\ worker'[r].item = worker[r].item
    BY <1>known, <1>7, <1>places, WorkerMoves DEF CancelNotify
  <2> QED BY <1>known, <1>7, <2>1 DEF CancelNotify, Idle, shared, TypeOK, Woken, Thread
<1>8. CASE ShutdownNotify
  <2>1. /\ worker'[r].pc = IF r = client.q /\ worker[r].pc = "asleep" THEN "check" ELSE worker[r].pc
        /\ worker'[r].item = worker[r].item
    BY <1>known, <1>8, <1>places, WorkerMoves DEF ShutdownNotify
  <2> QED BY <1>known, <1>8, <2>1 DEF ShutdownNotify, shared, TypeOK, Woken, Thread
<1>9. CASE ShutdownJoin
  BY <1>known, <1>9 DEF ShutdownJoin, Idle, TypeOK, Woken, Thread
<1>10. ASSUME NEW q \in Queues, WorkerSleep(q) PROVE Woken(r)'
  <2>1. /\ worker'[r].pc = IF r = q THEN "asleep" ELSE worker[r].pc
        /\ worker'[r].item = worker[r].item
    BY <1>known, <1>10, <1>places, WorkerMoves DEF WorkerSleep
  <2> QED BY <1>known, <1>10, <2>1 DEF WorkerSleep, shared, TypeOK, Woken, Thread
<1>11. ASSUME NEW q \in Queues, WorkerExit(q) PROVE Woken(r)'
  <2>1. /\ worker'[r].pc = IF r = q THEN "exited" ELSE worker[r].pc
        /\ worker'[r].item = worker[r].item
    BY <1>known, <1>11, <1>places, WorkerMoves DEF WorkerExit
  <2> QED BY <1>known, <1>11, <2>1 DEF WorkerExit, shared, TypeOK, Woken, Thread
<1>12. ASSUME NEW q \in Queues, WorkerPop(q) PROVE Woken(r)'
  BY <1>known, <1>12 DEF WorkerPop, TypeOK, Woken, Thread
<1>13. ASSUME NEW q \in Queues, WorkerLoadFlag(q) PROVE Woken(r)'
  <2>1. /\ worker'[r].pc = IF r = q THEN IF worker[q].item \in flag THEN "erasing" ELSE "running" ELSE worker[r].pc
        /\ worker'[r].item = worker[r].item
    BY <1>known, <1>13, <1>places, WorkerMoves DEF WorkerLoadFlag
  <2> QED BY <1>known, <1>13, <2>1 DEF WorkerLoadFlag, shared, TypeOK, Woken, Thread
<1>14. ASSUME NEW q \in Queues, WorkerRun(q) PROVE Woken(r)'
  <2>1. /\ worker'[r].pc = IF r = q THEN "erasing" ELSE worker[r].pc
        /\ worker'[r].item = worker[r].item
    BY <1>known, <1>14, <1>places, WorkerMoves DEF WorkerRun
  <2> QED BY <1>known, <1>14, <2>1 DEF WorkerRun, shared, TypeOK, Woken, Thread
<1>15. ASSUME NEW q \in Queues, WorkerErase(q) PROVE Woken(r)'
  BY <1>known, <1>15 DEF WorkerErase, TypeOK, Woken, Thread
<1>16. ASSUME NEW q \in Queues, WorkerSpuriousWake(q) PROVE Woken(r)'
  <2>1. /\ worker'[r].pc = IF r = q THEN "check" ELSE worker[r].pc
        /\ worker'[r].item = worker[r].item
    BY <1>known, <1>16, <1>places, WorkerMoves DEF WorkerSpuriousWake
  <2> QED BY <1>known, <1>16, <2>1 DEF WorkerSpuriousWake, shared, TypeOK, Woken, Thread
<1>17. CASE UNCHANGED vars
  BY <1>known, <1>17 DEF vars, TypeOK, Woken, Thread
<1> QED BY <1>1, <1>2, <1>3, <1>4, <1>5, <1>6, <1>7, <1>8, <1>9, <1>10, <1>11, <1>12, <1>13, <1>14, <1>15, <1>16, <1>17 DEF Next, Call, Return, WorkerStep

\* Together: the invariant holds initially and every step keeps it.
LEMMA Invariant == Spec => []IInv
<1>1. IInv /\ [Next]_vars => IInv'
  <2> SUFFICES ASSUME IInv, [Next]_vars PROVE IInv'
    OBVIOUS
  <2>1. Typing' /\ Numbered'
    BY TypingStep, NumberedStep
  <2>2. \A q \in Queues : Thread(q)' /\ InLine(q)' /\ InHand(q)'
    BY ThreadStep, InLineStep, InHandStep
  <2>3. PendingCoversWork'
    BY CoveredStep DEF Covered, PendingCoversWork
  <2>4. NoLostWakeup'
    BY WokenStep DEF Woken, NoLostWakeup
  <2> QED BY <2>1, <2>2, <2>3, <2>4 DEF IInv
<1> QED BY InitIInv, <1>1, PTL DEF Spec

\* The types of TypeOK hold in every reachable state.
THEOREM TypeCorrect == Spec => []TypeOK
<1>1. IInv => TypeOK
  BY DEF IInv, Typing
<1> QED BY Invariant, <1>1, PTL

\* Cancel and Shutdown can find every job that waits or is in the worker's
\* hands, and no other, whatever the caller does while the worker is busy.
THEOREM CancelFindsWork == Spec => []PendingCoversWork
<1>1. IInv => PendingCoversWork
  BY DEF IInv
<1> QED BY Invariant, <1>1, PTL

\* No notification is lost, although it is sent after the mutex is released.
THEOREM WakeupsArrive == Spec => []NoLostWakeup
<1>1. IInv => NoLostWakeup
  BY DEF IInv
<1> QED BY Invariant, <1>1, PTL

-----------------------------------------------------------------------------
\* The steps of the threads are steps of JobService.

\* What JobService calls live are the jobs that Cancel can find.
LEMMA LiveIsPending ==
    ASSUME IInv, NEW id \in Ids
    PROVE  /\ JobState(id) # "free" <=> owner[id] # NoId
           /\ \A q \in Queues : id \in pending[q] <=>
                owner[id] = q /\ JobState(id) \in {"queued", "running"}
<1>1. \A q \in Queues : id \in pending[q] => owner[id] = q
  BY PendingIsOwned
<1> QED BY <1>1, QueuesAssumption DEF JobState, NoId

LEMMA RefinesInit == Init => Jobs!Init
BY DEF Init, Jobs!Init, JobState, Jobs!Ids, Ids, Jobs!NoQueue, NoId

\* A step that leaves the queues' bookkeeping alone leaves every job where it is.
LEMMA SameJobs ==
    UNCHANGED <<owner, pending, ran>> => UNCHANGED [id \in Ids |-> JobState(id)]
BY DEF JobState

\* Emptying a queue that has nothing to do changes no job.
LEMMA EmptiedQueue ==
    ASSUME TypeOK, NEW q \in Queues, pending[q] = {}, pending' = [pending EXCEPT ![q] = {}],
           UNCHANGED <<owner, ran>>
    PROVE  UNCHANGED [id \in Ids |-> JobState(id)]
<1>1. pending' = pending
  BY DEF TypeOK
<1> QED BY <1>1, SameJobs

\* The job in hand is older than all that wait in its queue.
LEMMA HeldIsOldest ==
    ASSUME IInv, NEW q \in Queues, Holding(q)
    PROVE  /\ worker[q].item \in Ids /\ owner[worker[q].item] = q /\ worker[q].item \in pending[q]
           /\ Jobs!OldestOf(q, worker[q].item)
<1>1. /\ worker[q].item \in Ids /\ owner[worker[q].item] = q
      /\ pending[q] = {queue[q][i] : i \in 1 .. Len(queue[q])} \cup {worker[q].item}
  BY QueueContents DEF IInv, Typing, TypeOK, InHand, PendingCoversWork, NoId
<1>2. \A id \in pending[q] : worker[q].item <= id
  BY <1>1 DEF IInv, InLine, Typing, TypeOK, Ids
<1>3. \A id \in Ids : owner[id] = q /\ JobState(id) \in {"queued", "running"} => id \in pending[q]
  BY LiveIsPending
<1> QED BY <1>1, <1>2, <1>3 DEF Jobs!OldestOf, Jobs!LiveJobs, Jobs!Live, Jobs!Ids, Ids

\* Every step of a thread is a step of JobService, or leaves it alone: Enqueue
\* submits, Cancel and the first half of Shutdown raise flags, the load of the
\* flag begins a job, and taking it off the table ends or skips it.
LEMMA RefinesStep == IInv /\ [Next]_vars => [Jobs!Next]_(Jobs!vars)
<1> SUFFICES ASSUME IInv, [Next]_vars PROVE Jobs!Next \/ UNCHANGED Jobs!vars
  OBVIOUS
<1> DEFINE jobs == [id \in Ids |-> JobState(id)]
<1>types. TypeOK
  BY DEF IInv, Typing
<1>ids. Jobs!Ids = Ids
  BY DEF Jobs!Ids, Ids
<1>stutter. ASSUME UNCHANGED <<nextId, owner, pending, ran, flag>> PROVE UNCHANGED Jobs!vars
  BY <1>stutter, SameJobs DEF Jobs!vars
<1>1. ASSUME NEW q \in Queues, Enqueue(q) PROVE Jobs!Submit(q)
  <2>1. nextId + 1 \in Ids /\ nextId + 1 \notin ran
    BY <1>types, <1>1, MaxIdAssumption DEF Enqueue, TypeOK, Ids, IInv, Numbered
  <2>2. /\ owner' = [owner EXCEPT ![nextId + 1] = q] /\ ran' = ran
        /\ pending' = [pending EXCEPT ![q] = @ \cup {nextId + 1}]
    BY <1>1 DEF Enqueue, FreshId
  <2>3. ASSUME NEW id \in Ids
        PROVE  JobState(id)' = IF id = nextId + 1 THEN "queued" ELSE JobState(id)
    BY <1>types, <2>1, <2>2, QueuesAssumption DEF JobState, TypeOK, NoId
  <2>4. jobs' = [jobs EXCEPT ![nextId + 1] = "queued"]
    BY <2>1, <2>3
  <2> QED BY <1>1, <2>4 DEF Jobs!Submit, Jobs!Enlist, Enqueue, FreshId
<1>2. ASSUME NEW q \in Queues, ShutdownUnstarted(q) PROVE UNCHANGED Jobs!vars
  <2>1. pending[q] = {}
    BY <1>2, QueueContents DEF ShutdownUnstarted, IInv, Thread, PendingCoversWork, Holding, ToSet
  <2> QED BY <1>types, <1>2, <2>1, EmptiedQueue DEF ShutdownUnstarted, Jobs!vars
<1>3. ASSUME NEW q \in Queues, ShutdownSignal(q) PROVE Jobs!CloseQueue(q)
  <2>1. pending[q] = Jobs!LiveJobs(q)
    BY <1>types, <1>ids, LiveIsPending DEF Jobs!LiveJobs, Jobs!Live, TypeOK
  <2> QED BY <1>3, <2>1, SameJobs DEF ShutdownSignal, Jobs!CloseQueue
<1>4. ASSUME NEW q \in Queues, NEW id \in Ids, CancelLookup(q, id) PROVE UNCHANGED Jobs!vars
  BY <1>4, <1>stutter DEF CancelLookup, shared
<1>5. CASE NotifyOne
  BY <1>5, <1>stutter DEF NotifyOne, shared
<1>6. ASSUME CancelStore PROVE client.id \in Ids /\ Jobs!CancelJob(client.id)
  <2>1. client.id \in Ids /\ JobState(client.id) # "free"
    BY <1>6, LiveIsPending DEF CancelStore, IInv, Typing
  <2> QED BY <1>6, <2>1, SameJobs DEF CancelStore, Jobs!CancelJob
<1>7. CASE CancelNotify
  BY <1>7, <1>stutter DEF CancelNotify, shared
<1>8. CASE ShutdownNotify
  BY <1>8, <1>stutter DEF ShutdownNotify, shared
<1>9. ASSUME ShutdownJoin PROVE UNCHANGED Jobs!vars
  <2>1. client.q \in Queues /\ pending[client.q] = {}
    BY <1>9 DEF ShutdownJoin, IInv, Typing, Thread, PendingCoversWork, Holding, ToSet
  <2> QED BY <1>types, <1>9, <2>1, EmptiedQueue DEF ShutdownJoin, Jobs!vars
<1>10. ASSUME NEW q \in Queues, WorkerSleep(q) \/ WorkerExit(q) PROVE UNCHANGED Jobs!vars
  BY <1>10, <1>stutter DEF WorkerSleep, WorkerExit, shared
<1>11. ASSUME NEW q \in Queues, WorkerPop(q) PROVE UNCHANGED Jobs!vars
  BY <1>11, <1>stutter DEF WorkerPop
<1>12. ASSUME NEW q \in Queues, WorkerLoadFlag(q), worker[q].item \in flag PROVE UNCHANGED Jobs!vars
  BY <1>12, <1>stutter DEF WorkerLoadFlag, shared
<1>13. ASSUME NEW q \in Queues, WorkerLoadFlag(q), worker[q].item \notin flag
       PROVE  worker[q].item \in Ids /\ Jobs!BeginJob(worker[q].item)
  <2> DEFINE item == worker[q].item
  <2>1. /\ item \in Ids /\ owner[item] = q /\ item \in pending[q] /\ Jobs!OldestOf(q, item)
        /\ item \notin ran
    BY <1>13, HeldIsOldest DEF WorkerLoadFlag, Holding, IInv, InHand
  <2>2. ran' = ran \cup {item} /\ UNCHANGED <<nextId, owner, pending, flag>>
    BY <1>13 DEF WorkerLoadFlag, shared
  <2>3. JobState(item) = "queued"
    BY <2>1, QueuesAssumption DEF JobState, NoId
  <2>4. ASSUME NEW id \in Ids PROVE JobState(id)' = IF id = item THEN "running" ELSE JobState(id)
    BY <2>1, <2>2, QueuesAssumption DEF JobState, NoId
  <2>5. jobs' = [jobs EXCEPT ![item] = "running"]
    BY <2>1, <2>4
  <2> QED BY <1>13, <2>1, <2>2, <2>3, <2>5 DEF Jobs!BeginJob
<1>14. ASSUME NEW q \in Queues, WorkerRun(q) \/ WorkerSpuriousWake(q) PROVE UNCHANGED Jobs!vars
  BY <1>14, <1>stutter DEF WorkerRun, WorkerSpuriousWake, shared
<1>15. ASSUME NEW q \in Queues, WorkerErase(q)
       PROVE  /\ worker[q].item \in Ids
              /\ Jobs!FinishJob(worker[q].item) \/ Jobs!SkipJob(worker[q].item)
  <2> DEFINE item == worker[q].item
  <2>1. /\ item \in Ids /\ owner[item] = q /\ item \in pending[q] /\ Jobs!OldestOf(q, item)
        /\ item \in ran \/ item \in flag
    BY <1>15, HeldIsOldest DEF WorkerErase, Holding, IInv, InHand
  <2>2. pending' = [pending EXCEPT ![q] = @ \ {item}] /\ UNCHANGED <<nextId, owner, ran, flag>>
    BY <1>15 DEF WorkerErase
  <2>3. JobState(item) = IF item \in ran THEN "running" ELSE "queued"
    BY <2>1, QueuesAssumption DEF JobState, NoId
  <2>4. ASSUME NEW id \in Ids PROVE JobState(id)' = IF id = item THEN "done" ELSE JobState(id)
    BY <1>types, <2>1, <2>2, QueuesAssumption DEF JobState, TypeOK, NoId
  <2>5. jobs' = [jobs EXCEPT ![item] = "done"]
    BY <2>1, <2>4
  <2> QED BY <2>1, <2>2, <2>3, <2>5 DEF Jobs!FinishJob, Jobs!SkipJob
<1>16. CASE UNCHANGED vars
  BY <1>16, <1>stutter DEF vars
<1> QED BY <1>ids, <1>1, <1>2, <1>3, <1>4, <1>5, <1>6, <1>7, <1>8, <1>9, <1>10, <1>11,
           <1>12, <1>13, <1>14, <1>15, <1>16
        DEF Next, Call, Return, WorkerStep, Jobs!Next

\* The queues implement JobService, but for its fairness: ids are fresh, every
\* job is executed at most once and in its turn, and not if it was cancelled.
THEOREM ImplementsJobSteps == Spec => Jobs!Init /\ [][Jobs!Next]_(Jobs!vars)
BY Invariant, RefinesInit, RefinesStep, PTL DEF Spec

=============================================================================
