-------------------------- MODULE MCIngestionQueue --------------------------
(* Instances of IngestionQueue for TLC. *)
EXTENDS IngestionQueue, TLC

CONSTANTS j1, j2, w1, w2, w3, c1

\* Each worker process runs with an INGESTION_WORKER_ID of its own ...
DistinctIds == [w \in Workers |-> w]

\* ... or all with the default, or the one docker-compose.yml sets.
SharedId == [w \in Workers |-> "citebot-worker"]

\* Then one worker is like the other; the properties checked so are safety.
SameWorkers == Permutations(Workers)

Sources == j1 :> 2 @@ j2 :> 1
OneSource == [j \in Jobs |-> 1]
=============================================================================
