---------------------------- MODULE MCFpmMaster ----------------------------
(* Small instances of FpmMaster for TLC. *)
EXTENDS FpmMaster, TLC

CONSTANTS Style, N, Start, MinSpare, MaxSpare

\* Pool "api" works on demand with two workers, the others as given.
MCpm == [p \in Pools |-> IF p = "api" THEN "ondemand" ELSE Style]
MCmax == [p \in Pools |-> IF p = "api" THEN 2 ELSE N]
MCstart == [p \in Pools |-> Start]
MCmin == [p \in Pools |-> MinSpare]
MCmaxspare == [p \in Pools |-> MaxSpare]

Symmetry == Permutations(Pids)
=============================================================================
