------------------------- MODULE MCTranslationFlow -------------------------
(***************************************************************************)
(* Instances of TranslationFlow: texts, so that a reply can be for the     *)
(* wrong one; three requests, so that one is being fetched, one waits      *)
(* behind it and one is current; two sessions, so that a reply of the      *)
(* first could reach the second; a cache that is smaller than the set of   *)
(* texts, so that a new answer evicts one.                                 *)
(***************************************************************************)
EXTENDS TranslationFlow

=============================================================================
