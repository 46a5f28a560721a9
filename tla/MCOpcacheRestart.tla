------------------------- MODULE MCOpcacheRestart -------------------------
(* Small instances of OpcacheRestart for TLC. *)
EXTENDS OpcacheRestart, TLC

Symmetry == Permutations(Procs)
=============================================================================
