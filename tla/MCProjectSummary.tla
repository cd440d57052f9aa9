-------------------------- MODULE MCProjectSummary --------------------------
(* An instance of ProjectSummary for TLC: one API process queues its jobs,  *)
(* the other runs them.                                                     *)
EXTENDS ProjectSummary, TLC

CONSTANTS j1, j2, t1, t2, sample, other

MCAdminPaths == {<<sample, "corpus">>, <<other, "file">>}
Modes == t1 :> "queued" @@ t2 :> "foreground"
JobSymmetry == Permutations(Jobs)
=============================================================================
