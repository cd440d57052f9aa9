---------------------------- MODULE MCAdmission ----------------------------
(* Instances of Admission for TLC. *)
EXTENDS Admission

CONSTANTS q1, q2, q3, q4

=============================================================================
