---------------------------- MODULE MCAccelStore ----------------------------
(* Two files and a link to the first of them. *)
EXTENDS AccelStore, TLC

CONSTANTS w1, w2, file1, file2, link1

MCLinks == [n \in Names |-> IF n = link1 THEN file1 ELSE n]
MCMoves == {<<link1, file2>>, <<file2, file1>>}
Symmetry == Permutations(Workers)
=============================================================================
