--------------------------- MODULE IngestionQueue ---------------------------
(***************************************************************************)
(* The durable ingestion queue: the table ingestion_jobs                   *)
(* (app/db/models.py), the operations on it (app/ingestion/repository.py), *)
(* the pipeline that runs a job (app/ingestion/service.py) and the worker  *)
(* loop that polls it (app/ingestion/worker.py).                           *)
(*                                                                         *)
(* Workers claim queued jobs under a lease; callers (the API, the command  *)
(* line and the first-run bootstrap in foreground mode) run a job in the   *)
(* process that submitted it, without a lease.  Both go through            *)
(* _process_job.  What a document does to the index is in DocumentIndex;   *)
(* here a document is one heartbeat and one unit of work.                  *)
(***************************************************************************)
EXTENDS Integers, FiniteSets

CONSTANTS
  Jobs,             \* identifiers of the jobs that may be submitted
  Workers,          \* worker processes
  Callers,          \* processes that call ingest_path
  WorkerId,         \* worker process -> INGESTION_WORKER_ID it runs with
  Docs,             \* job -> number of documents its source path yields
  NoJob, NoOwner,
  MaxAttempts,      \* INGESTION_MAX_ATTEMPTS
  LeaseTime,        \* QUEUE_LEASE_SECONDS, in clock ticks
  MaxTime,          \* bound on the clock
  MaxCrashes,       \* bound on the number of crashes
  TimelyHeartbeats  \* TRUE: no document takes longer than a lease

Procs == Workers \cup Callers
Names == {WorkerId[w] : w \in Workers}

ASSUME QueueAssumption ==
  /\ IsFiniteSet(Jobs) /\ NoJob \notin Jobs
  /\ Workers \cap Callers = {}
  /\ WorkerId = [w \in Workers |-> WorkerId[w]]
  /\ NoOwner \notin Names
  /\ Docs \in [Jobs -> Nat]
  /\ MaxAttempts \in Nat \ {0}
  /\ LeaseTime \in Nat \ {0}
  /\ MaxTime \in Nat /\ MaxCrashes \in Nat
  /\ TimelyHeartbeats \in BOOLEAN

VARIABLES
  job,      \* the rows of ingestion_jobs
  proc,     \* what each process is doing; lost when it crashes
  clock,    \* datetime.now(tz=UTC), the same for every process
  crashes   \* number of crashes so far, only to bound them

vars == <<job, proc, clock, crashes>>

NoLease == 0    \* lease_expires_at IS NULL; the clock starts at 1
Outcomes == {"completed", "failed"}
Terminal == Outcomes \cup {"quarantined"}
Statuses == Terminal \cup {"absent", "queued", "running"}

\* "seen" is documents_seen; "startedAt" orders the jobs as started_at does.
JobRow == [status : Statuses, startedAt : Nat, attempts : Nat,
           owner : Names \cup {NoOwner}, expires : Nat, seen : Nat]

\* "now" is the time a claim in progress read; "lease" is the expiry that the
\* last claim or heartbeat of this process was granted.  The code does not
\* keep the latter (heartbeat ignores the row count): no action reads it,
\* except the assumption TimelyHeartbeats makes about the passing of time.
\* "outcome" is what the process is about to report, and "loaded" the row as
\* the session that reports it has loaded it.
ProcState == [pc : {"down", "idle", "selected", "processing", "reporting"},
              job : Jobs \cup {NoJob}, seen : Nat, now : Nat, lease : Nat,
              outcome : Outcomes \cup {"none"}, loaded : JobRow]

Absent == [status |-> "absent", startedAt |-> 0, attempts |-> 0,
           owner |-> NoOwner, expires |-> NoLease, seen |-> 0]

Idle == [pc |-> "idle", job |-> NoJob, seen |-> 0, now |-> 0,
         lease |-> NoLease, outcome |-> "none", loaded |-> Absent]
Down == [Idle EXCEPT !.pc = "down"]

\* A process that has a job runs it, or reports on it.
AtWork == {"processing", "reporting"}

TypeOK ==
  /\ job \in [Jobs -> JobRow]
  /\ proc \in [Procs -> ProcState]
  /\ clock \in Nat
  /\ crashes \in Nat

Init ==
  /\ job = [j \in Jobs |-> Absent]
  /\ proc = [p \in Procs |-> IF p \in Workers THEN Down ELSE Idle]
  /\ clock = 1
  /\ crashes = 0

-----------------------------------------------------------------------------
(* Submitting a job *)

\* create_job: the row a submission inserts, with the default of started_at.
NextStart == Cardinality({j \in Jobs : job[j].status # "absent"}) + 1
NewRow(status) == [Absent EXCEPT !.status = status, !.startedAt = NextStart]

\* enqueue_path: only persists the request.
EnqueuePath(j) ==
  /\ job[j].status = "absent"
  /\ job' = [job EXCEPT ![j] = NewRow("queued")]
  /\ UNCHANGED <<proc, clock, crashes>>

\* ingest_path: the row is born running, without an owner or a lease.
IngestPath(c, j) ==
  /\ proc[c].pc = "idle"
  /\ job[j].status = "absent"
  /\ job' = [job EXCEPT ![j] = NewRow("running")]
  /\ proc' = [proc EXCEPT ![c] = [Idle EXCEPT !.pc = "processing", !.job = j]]
  /\ UNCHANGED <<clock, crashes>>

-----------------------------------------------------------------------------
(* The worker loop *)

\* Mutant: forgets that only running jobs have a lease that counts.
ExpiredOfAnyStatus(j) ==
  /\ job[j].expires # NoLease
  /\ job[j].expires < clock

\* Mutant: forgets lease_expires_at < now.
ExpiredAnyLease(j) ==
  /\ job[j].status = "running"
  /\ job[j].expires # NoLease

Expired(j) ==
  /\ job[j].status = "running"
  /\ job[j].expires # NoLease
  /\ job[j].expires < clock

\* recover_stale_jobs on one row: quarantine when the attempts are used up,
\* back to the queue otherwise.  started_at stays.
Recovered(row) ==
  [row EXCEPT
     !.status = IF row.attempts >= MaxAttempts THEN "quarantined" ELSE "queued",
     !.owner = NoOwner,
     !.expires = NoLease]

\* Mutant: a worker that starts recovers nothing.
RunWorkerOnly(w) ==
  /\ proc[w].pc = "down"
  /\ proc' = [proc EXCEPT ![w] = Idle]
  /\ UNCHANGED <<job, clock, crashes>>

\* run_worker up to its loop.  Stale jobs are recovered here and nowhere else.
RunWorker(w) ==
  /\ proc[w].pc = "down"
  /\ job' = [j \in Jobs |-> IF Expired(j) THEN Recovered(job[j]) ELSE job[j]]
  /\ proc' = [proc EXCEPT ![w] = Idle]
  /\ UNCHANGED <<clock, crashes>>

\* Mutant: orders the rows of every status.
OldestOfAll(j) ==
  /\ job[j].status = "queued"
  /\ \A k \in Jobs :
       job[k].status # "absent" => job[j].startedAt <= job[k].startedAt

OldestQueued(j) ==
  /\ job[j].status = "queued"
  /\ \A k \in Jobs :
       job[k].status = "queued" => job[j].startedAt <= job[k].startedAt

\* claim_next_job reads the clock and selects a candidate ...
ClaimSelect(w) ==
  /\ proc[w].pc = "idle"
  /\ \E j \in Jobs :
       /\ OldestQueued(j)
       /\ proc' = [proc EXCEPT ![w] = [Idle EXCEPT !.pc = "selected",
                                                   !.job = j, !.now = clock]]
  /\ UNCHANGED <<job, clock, crashes>>

\* Mutant: the update repeats no condition on the status.
StillThere(w) == job[proc[w].job].status # "absent"

\* ... and takes it only if the row is still queued.
StillQueued(w) == job[proc[w].job].status = "queued"

\* Mutant: attempt_count is left alone.
ClaimedUncounted(row, id, lease) ==
  [row EXCEPT !.status = "running", !.owner = id, !.expires = lease]

\* The values the claim writes.
Claimed(row, id, lease) ==
  [row EXCEPT !.status = "running", !.owner = id, !.expires = lease,
              !.attempts = row.attempts + 1]

ClaimUpdate(w) ==
  LET j == proc[w].job
      lease == proc[w].now + LeaseTime
  IN  /\ proc[w].pc = "selected"
      /\ StillQueued(w)
      /\ job' = [job EXCEPT ![j] = Claimed(job[j], WorkerId[w], lease)]
      /\ proc' = [proc EXCEPT ![w] = [Idle EXCEPT !.pc = "processing",
                                                  !.job = j, !.lease = lease]]
      /\ UNCHANGED <<clock, crashes>>

ClaimLost(w) ==
  /\ proc[w].pc = "selected"
  /\ ~StillQueued(w)
  /\ proc' = [proc EXCEPT ![w] = Idle]
  /\ UNCHANGED <<job, clock, crashes>>

-----------------------------------------------------------------------------
(* _process_job *)

\* The WHERE clause of heartbeat.
HeartbeatMatches(p) ==
  /\ p \in Workers
  /\ job[proc[p].job].owner = WorkerId[p]
  /\ job[proc[p].job].status = "running"

\* One turn of the document loop: heartbeat (workers only), then the work.
ProcessDocument(p) ==
  LET j == proc[p].job
      lease == IF HeartbeatMatches(p) THEN clock + LeaseTime ELSE proc[p].lease
  IN  /\ proc[p].pc = "processing"
      /\ proc[p].seen < Docs[j]
      /\ proc' = [proc EXCEPT ![p] = [proc[p] EXCEPT !.seen = proc[p].seen + 1,
                                                      !.lease = lease]]
      /\ job' = IF HeartbeatMatches(p)
                THEN [job EXCEPT ![j] = [job[j] EXCEPT !.expires = lease]]
                ELSE job
      /\ UNCHANGED <<clock, crashes>>

\* complete_job and fail_job find the row by its id alone, load it, and set
\* these attributes of the loaded record.
Closed(row, status, seen) ==
  [row EXCEPT !.status = status, !.owner = NoOwner, !.expires = NoLease,
              !.seen = seen]

LoadRow(p, outcome) ==
  /\ proc[p].pc = "processing"
  /\ proc' = [proc EXCEPT ![p] = [proc[p] EXCEPT !.pc = "reporting",
                                                  !.outcome = outcome,
                                                  !.loaded = job[proc[p].job]]]
  /\ UNCHANGED <<job, clock, crashes>>

\* Mutant: an exception of one document ends the loop, not the job.
CompletePartialJob(p) == LoadRow(p, "completed")

CompleteJob(p) ==
  /\ proc[p].pc = "processing"
  /\ proc[p].seen = Docs[proc[p].job]
  /\ LoadRow(p, "completed")

\* Any exception of the loader, the parsers, the embedder or a write.
FailJob(p) == LoadRow(p, "failed")

\* The UPDATE at the end of the session has the columns whose value is not the
\* one that was loaded; whatever the row has in the others by then stays.
Flushed(row, loaded, record) ==
  LET Column(now, old, new) == IF new = old THEN now ELSE new
  IN  [row EXCEPT !.status = Column(row.status, loaded.status, record.status),
                  !.owner = Column(row.owner, loaded.owner, record.owner),
                  !.expires = Column(row.expires, loaded.expires, record.expires),
                  !.seen = Column(row.seen, loaded.seen, record.seen)]

WriteOutcome(p) ==
  LET j == proc[p].job
      loaded == proc[p].loaded
  IN  /\ proc[p].pc = "reporting"
      /\ job' = [job EXCEPT ![j] =
                   Flushed(job[j], loaded,
                           Closed(loaded, proc[p].outcome, proc[p].seen))]
      /\ proc' = [proc EXCEPT ![p] = Idle]
      /\ UNCHANGED <<clock, crashes>>

\* The write of the claim or of the outcome raises, or the request task is
\* cancelled (not an Exception): the process goes on, the row stays.
LoseOutcome(p) ==
  /\ proc[p].pc \in {"selected"} \cup AtWork
  /\ proc' = [proc EXCEPT ![p] = Idle]
  /\ UNCHANGED <<job, clock, crashes>>

-----------------------------------------------------------------------------
(* The environment *)

\* A worker container stops, or the API process of a foreground job does.
Crash(p) ==
  /\ crashes < MaxCrashes
  /\ IF p \in Workers THEN proc[p].pc # "down" ELSE proc[p].pc # "idle"
  /\ proc' = [proc EXCEPT ![p] = IF p \in Workers THEN Down ELSE Idle]
  /\ crashes' = crashes + 1
  /\ UNCHANGED <<job, clock>>

\* The time by which a worker heartbeats if TimelyHeartbeats holds.
Deadline(w) ==
  CASE proc[w].pc = "selected" -> proc[w].now + LeaseTime
    [] proc[w].pc \in AtWork   -> proc[w].lease
    [] OTHER                   -> clock + 1

Tick ==
  /\ clock < MaxTime
  /\ TimelyHeartbeats => \A w \in Workers : clock < Deadline(w)
  /\ clock' = clock + 1
  /\ UNCHANGED <<job, proc, crashes>>

-----------------------------------------------------------------------------
ProcessJob(p) ==
  ProcessDocument(p) \/ CompleteJob(p) \/ FailJob(p) \/ WriteOutcome(p)
RunNextJob(w) == ClaimSelect(w) \/ ClaimUpdate(w) \/ ClaimLost(w)

Next ==
  \/ \E j \in Jobs : EnqueuePath(j)
  \/ \E c \in Callers, j \in Jobs : IngestPath(c, j)
  \/ \E w \in Workers : RunWorker(w) \/ RunNextJob(w)
  \/ \E p \in Procs : ProcessJob(p) \/ LoseOutcome(p) \/ Crash(p)
  \/ Tick

Spec == Init /\ [][Next]_vars

(* Compose restarts a stopped worker, its loop never stops polling, the     *)
(* database does not refuse every claim for ever, and parsing one document  *)
(* ends.  Nothing is assumed of submissions, failures, crashes or the       *)
(* clock.                                                                   *)
WorkerFairness ==
  \A w \in Workers : /\ WF_vars(RunWorker(w))
                     /\ WF_vars(RunNextJob(w))
                     /\ SF_vars(ClaimUpdate(w))
                     /\ WF_vars(ProcessJob(w))

FairSpec == Spec /\ WorkerFairness
-----------------------------------------------------------------------------
(* Properties *)

Works(p, j) == proc[p].pc \in AtWork /\ proc[p].job = j

\* A job waits in the queue only while it has attempts left, and is never
\* claimed more often than INGESTION_MAX_ATTEMPTS allows, however workers
\* crash, restart and outlive their leases (recover_stale_jobs decides).
AttemptsBounded ==
  \A j \in Jobs : /\ job[j].attempts <= MaxAttempts
                  /\ job[j].status = "queued" => job[j].attempts < MaxAttempts

\* A running row has a lease exactly if a worker has claimed it, a queued one
\* has none: whatever a crash leaves behind of a claimed job, recover_stale_jobs
\* can find it, and it finds nothing that waits or is run in the foreground.
\* A finished row may keep a lease: a late report that loaded the row while it
\* was queued does not write the columns of the lease.
LeaseDiscipline ==
  \A j \in Jobs :
    /\ job[j].status = "running" => (job[j].expires # NoLease <=> job[j].attempts > 0)
    /\ job[j].status = "queued" => job[j].expires = NoLease

\* Two workers may process one job, but never both under a lease that still
\* runs: the second claim waits for the first lease to expire.  It takes
\* distinct INGESTION_WORKER_IDs (or timely heartbeats): heartbeat tells
\* workers apart by that name only.
LeaseExclusive ==
  \A v, w \in Workers :
    (v # w /\ \E j \in Jobs : Works(v, j) /\ Works(w, j))
      => (proc[v].lease < clock \/ proc[w].lease < clock)

\* A job that reads "completed" has the counts of a run that went through every
\* document of its source, if it was claimed twice at most: although a report
\* writes only the columns that differ from those it loaded, the status of one
\* run and the counts of another are not left together by two reports, in
\* whatever order they load and write.
CompletedSawAll ==
  \A j \in Jobs : job[j].status = "completed" /\ job[j].attempts <= 2
                    => job[j].seen = Docs[j]

\* Once a job has reached a terminal status no claim, recovery, submission or
\* late report takes it out of these, although a report that loaded the row
\* before may leave it with a lease that runs out.
TerminalAbsorbing ==
  [][\A j \in Jobs : job[j].status \in Terminal => job'[j].status \in Terminal]_vars

\* The outcome a client has read is the outcome (the harness that ingests a
\* corpus stops polling at the first terminal status).
OutcomeFinal ==
  [][\A j \in Jobs : job[j].status \in Terminal => job'[j].status = job[j].status]_vars

\* Under timely heartbeats a claimed row, its owner and its lease belong to the
\* one worker that processes it.
OwnerWorks ==
  \A w \in Workers, j \in Jobs :
    Works(w, j) => /\ job[j].status = "running"
                   /\ job[j].owner = WorkerId[w]
                   /\ job[j].expires = proc[w].lease
                   /\ clock <= proc[w].lease
                   /\ \A p \in Procs \ {w} : ~Works(p, j)

Lifecycle == INSTANCE JobLifecycle WITH
               status <- [j \in Jobs |-> job[j].status],
               attempts <- [j \in Jobs |-> job[j].attempts]

\* With timely heartbeats the queue behaves as JobLifecycle promises.
ImplementsLifecycle == Lifecycle!LifecycleSpec

\* A worker that starts while a lease has run out returns the job to the queue
\* or to quarantine: an expired job and a stopped worker do not last together.
RestartRecovers ==
  \A j \in Jobs : (Expired(j) /\ \E w \in Workers : proc[w].pc = "down")
                    ~> ~Expired(j)

\* A queued job is eventually taken by a worker, or finished by a late one.
QueuedIsTaken ==
  \A j \in Jobs : job[j].status = "queued" ~> job[j].status # "queued"

-----------------------------------------------------------------------------
(* What the code does not have. *)

\* The same of a job that was claimed more often: of three runs that overlap, the
\* second can write its counts between the load and the write of a third that
\* found the status and the counts of the first, or a part of them.
CountsAreOfCompletion ==
  \A j \in Jobs : job[j].status = "completed" => job[j].seen = Docs[j]

\* A job whose lease has run out does not stay running for ever.
ExpiredIsRecovered == \A j \in Jobs : Expired(j) ~> ~Expired(j)
=============================================================================
