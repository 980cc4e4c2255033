---------------------------- MODULE MCInputMode ----------------------------
(***************************************************************************)
(* Instances of InputMode.  With two services each can write between two   *)
(* writes, or two reads, of the other.                                     *)
(***************************************************************************)
EXTENDS InputMode

=============================================================================
