------------------------- MODULE MCOllamaResidency -------------------------
(***************************************************************************)
(* Instances of OllamaResidency.  Two services are enough for one to begin *)
(* or to stop between two steps of the other, and three activations for    *)
(* one to come and go while the unload of an earlier stop waits.           *)
(***************************************************************************)
EXTENDS OllamaResidency

=============================================================================
