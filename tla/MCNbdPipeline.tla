--------------------------- MODULE MCNbdPipeline ---------------------------
(* Instances of NbdPipeline for TLC. *)
EXTENDS NbdPipeline, TLC

Handles == Permutations(Handle)
=============================================================================
