-------------------------- MODULE MCAsyncWorkQueue --------------------------
(***************************************************************************)
(* Two queues, as when the text service has a conversion provider and its  *)
(* fallback queue, and three jobs: enough for a job in the worker's hands, *)
(* one behind it and one in the other queue, or for a queue that is shut   *)
(* down and used again.                                                    *)
(***************************************************************************)
EXTENDS AsyncWorkQueue

=============================================================================
