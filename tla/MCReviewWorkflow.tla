-------------------------- MODULE MCReviewWorkflow --------------------------
(* Instances of ReviewWorkflow for TLC. *)
EXTENDS ReviewWorkflow, TLC

CONSTANTS p1, q1, q2, alice, plain, edited

RequestSymmetry == Permutations(Requests)
=============================================================================
