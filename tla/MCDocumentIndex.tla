-------------------------- MODULE MCDocumentIndex --------------------------
(* Instances of DocumentIndex for TLC. *)
EXTENDS DocumentIndex, TLC

CONSTANTS d1, d2, a, b, r1, r2

RunSymmetry == Permutations(Runs)
=============================================================================
