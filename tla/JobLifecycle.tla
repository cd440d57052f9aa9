---------------------------- MODULE JobLifecycle ----------------------------
(***************************************************************************)
(* What the durable ingestion queue promises about one job, seen from      *)
(* GET /admin/ingestion/jobs/{id}: a job is submitted once, is run at most *)
(* MaxAttempts times, and an outcome, once recorded, is final.             *)
(* IngestionQueue implements this specification as long as no worker       *)
(* outlives its lease.                                                     *)
(***************************************************************************)
EXTENDS Naturals

CONSTANTS Jobs, MaxAttempts

VARIABLES
  status,    \* job -> the status column of ingestion_jobs
  attempts   \* job -> how many times a worker has claimed it

lifecycleVars == <<status, attempts>>

Outcomes == {"completed", "failed"}
Final == Outcomes \cup {"quarantined"}
Statuses == Final \cup {"absent", "queued", "running"}

LifecycleTypeOK ==
  /\ status \in [Jobs -> Statuses]
  /\ attempts \in [Jobs -> Nat]

LifecycleInit ==
  /\ status = [j \in Jobs |-> "absent"]
  /\ attempts = [j \in Jobs |-> 0]

\* A job enters the queue, or is run at once by the process that submits it.
Submit(j) ==
  /\ status[j] = "absent"
  /\ \E s \in {"queued", "running"} : status' = [status EXCEPT ![j] = s]
  /\ UNCHANGED attempts

Claim(j) ==
  /\ status[j] = "queued"
  /\ attempts[j] < MaxAttempts
  /\ status' = [status EXCEPT ![j] = "running"]
  /\ attempts' = [attempts EXCEPT ![j] = @ + 1]

Finish(j) ==
  /\ status[j] = "running"
  /\ \E s \in Outcomes : status' = [status EXCEPT ![j] = s]
  /\ UNCHANGED attempts

\* A restarting worker gives up some running jobs: back to the queue while
\* attempts are left, to quarantine otherwise.
Recover(lost) ==
  /\ \A j \in lost : status[j] = "running" /\ attempts[j] > 0
  /\ status' = [j \in Jobs |->
                  CASE j \notin lost -> status[j]
                    [] j \in lost /\ attempts[j] < MaxAttempts -> "queued"
                    [] OTHER -> "quarantined"]
  /\ UNCHANGED attempts

LifecycleNext ==
  \/ \E j \in Jobs : Submit(j) \/ Claim(j) \/ Finish(j)
  \/ \E lost \in SUBSET Jobs : Recover(lost)

LifecycleSpec == LifecycleInit /\ [][LifecycleNext]_lifecycleVars
=============================================================================
