--------------------------- MODULE MCComposition ---------------------------
(***************************************************************************)
(* An instance of Composition.  Four letters are two words of a romaji and *)
(* a kana each; three sessions and those of one more key wait when a word  *)
(* is committed and the next one begun before the host runs any of them.   *)
(***************************************************************************)
EXTENDS Composition
=============================================================================
