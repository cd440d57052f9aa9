-------------------------- MODULE MCResearchSession --------------------------
(* Instances of ResearchSession for TLC. *)
EXTENDS ResearchSession, TLC

CONSTANTS q1, q2, q3, sample, other

RequestSymmetry == Permutations(Requests)
=============================================================================
