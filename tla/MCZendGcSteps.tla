--------------------------- MODULE MCZendGcSteps ----------------------------
(* The heaps of MCZendGc.                                                  *)
EXTENDS MCZendGc, ZendGcSteps

\* ref1 and ref2 are alike.
Symmetry == Permutations({ref1, ref2})
=============================================================================
