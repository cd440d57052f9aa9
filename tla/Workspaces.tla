----------------------------- MODULE Workspaces -----------------------------
(***************************************************************************)
(* Projects (app/projects) and the ways into the ingestion queue: uploads  *)
(* (app/api/routes/documents.py), admin jobs (admin_ingestion.py) and the  *)
(* bootstrap of the sample corpus when an API process starts               *)
(* (app/ingestion/bootstrap.py).                                           *)
(*                                                                         *)
(* Jobs are what JobLifecycle says of them, but late workers may report    *)
(* on a job that is not theirs any more, as IngestionQueue has it.  A      *)
(* caller is a task of an API process: its start, or a request.  In        *)
(* foreground mode it runs its job itself.  Names, files and slugs are     *)
(* left out.                                                               *)
(***************************************************************************)
EXTENDS JobLifecycle

CONSTANTS
  Callers,
  Mode,         \* caller -> INGESTION_EXECUTION_MODE of its process
  Projects,
  SampleProject,
  CorpusSource, \* SAMPLE_CORPUS_PATH, as configured
  AdminPaths,   \* <<project, source>> of the jobs an admin submits
  NoCaller, NoJob

ASSUME WorkspaceAssumption ==
  /\ SampleProject \in Projects
  /\ CorpusSource \in {"corpus", "relative"}
  /\ AdminPaths \subseteq Projects \X {"corpus", "file"}
  /\ Mode \in [Callers -> {"queued", "foreground"}]
  /\ NoCaller \notin Callers /\ NoJob \notin Jobs

VARIABLES
  archived,  \* the projects whose status is "archived"
  origin,    \* job -> project, source, and what made it: a request or a bootstrap
  whole,     \* the completed corpus jobs that saw SAMPLE_CORPUS_DOCUMENT_COUNT documents
  task,      \* what each caller is doing
  lock       \* the holder of .sample-corpus-bootstrap.lock

vars == <<lifecycleVars, archived, origin, whole, task, lock>>

Idle == [pc |-> "idle", project |-> "none", job |-> NoJob]
NoOrigin == [project |-> "none", source |-> "none", by |-> "none"]

Origins == [project : Projects \cup {"none"}, source : {"corpus", "relative", "file", "none"},
            by : {"request", "bootstrap", "none"}]
Tasks == [pc : {"idle", "receiving", "locked", "unscheduled", "ingesting"},
          project : Projects \cup {"none"}, job : Jobs \cup {NoJob}]

TypeOK ==
  /\ LifecycleTypeOK
  /\ archived \subseteq Projects /\ whole \subseteq Jobs
  /\ origin \in [Jobs -> Origins]
  /\ task \in [Callers -> Tasks]
  /\ lock \in Callers \cup {NoCaller}

Init ==
  /\ LifecycleInit
  /\ archived = {} /\ whole = {}
  /\ origin = [j \in Jobs |-> NoOrigin]
  /\ task = [t \in Callers |-> Idle]
  /\ lock = NoCaller

-----------------------------------------------------------------------------
(* Projects *)

\* ProjectService.archive; nothing takes a project back.
Archive(p) ==
  /\ p # SampleProject
  /\ archived' = archived \cup {p}
  /\ UNCHANGED <<lifecycleVars, origin, whole, task, lock>>

Active(p) == p \notin archived

-----------------------------------------------------------------------------
(* Submissions *)

Foreground(t) == Mode[t] = "foreground"

\* enqueue_path, after which the task is over, or ingest_path.
SubmitFrom(t, from) ==
  \E j \in Jobs :
    /\ Submit(j)
    /\ status'[j] = IF Foreground(t) THEN "running" ELSE "queued"
    /\ origin' = [origin EXCEPT ![j] = from]
    /\ task' = [task EXCEPT ![t] = IF Foreground(t)
                                   THEN [Idle EXCEPT !.pc = "ingesting", !.job = j]
                                   ELSE Idle]

\* The route of an upload finds its project active, then receives the file.
\* The unscoped route has the sample project.
Upload(t, p) ==
  /\ task[t].pc = "idle"
  /\ Active(p)
  /\ task' = [task EXCEPT ![t].pc = "receiving", ![t].project = p]
  /\ UNCHANGED <<lifecycleVars, archived, origin, whole, lock>>

\* The file is complete.
AcceptUpload(t) ==
  /\ task[t].pc = "receiving"
  /\ SubmitFrom(t, [project |-> task[t].project, source |-> "file", by |-> "request"])
  /\ UNCHANGED <<archived, whole, lock>>

\* The admin route takes any path and does not look at the project.
RunIngestionJob(t) ==
  /\ task[t].pc = "idle"
  /\ \E path \in AdminPaths :
       SubmitFrom(t, [project |-> path[1], source |-> path[2], by |-> "request"])
  /\ UNCHANGED <<archived, whole, lock>>

-----------------------------------------------------------------------------
(* ensure_sample_corpus *)

\* Mutant: the lock is not looked at.
StartBootstrapUnlocked(t) ==
  /\ task[t].pc = "idle"
  /\ lock' = t
  /\ task' = [task EXCEPT ![t].pc = "locked"]
  /\ UNCHANGED <<lifecycleVars, archived, origin, whole>>

\* An API process starts.  If another one has the lock, it goes on without.
StartBootstrap(t) ==
  /\ task[t].pc = "idle"
  /\ lock = NoCaller
  /\ lock' = t
  /\ task' = [task EXCEPT ![t].pc = "locked"]
  /\ UNCHANGED <<lifecycleVars, archived, origin, whole>>

\* has_active_or_completed_job: a job of the absolute path, "corpus".  A job
\* has the path as it was given.
AlreadyScheduled ==
  \E j \in Jobs :
    /\ origin[j].source = "corpus" /\ origin[j].project = SampleProject
    /\ status[j] \in {"queued", "running"} \/ (status[j] = "completed" /\ j \in whole)

CheckCorpus(t) ==
  /\ task[t].pc = "locked"
  /\ IF AlreadyScheduled
       THEN lock' = NoCaller /\ task' = [task EXCEPT ![t] = Idle]
       ELSE task' = [task EXCEPT ![t].pc = "unscheduled"] /\ UNCHANGED lock
  /\ UNCHANGED <<lifecycleVars, archived, origin, whole>>

\* The lock is held until the job is queued, or has been run.
ScheduleCorpus(t) ==
  /\ task[t].pc = "unscheduled"
  /\ SubmitFrom(t, [project |-> SampleProject, source |-> CorpusSource, by |-> "bootstrap"])
  /\ lock' = IF Foreground(t) THEN lock ELSE NoCaller
  /\ UNCHANGED <<archived, whole>>

\* The task is over, or its process dies: the system drops the lock.
End(t) ==
  /\ task' = [task EXCEPT ![t] = Idle]
  /\ lock' = IF lock = t THEN NoCaller ELSE lock

\* A task raises, its client goes away, or its process stops.  The row of a job
\* it runs stays as it is.
Abandon(t) ==
  /\ task[t].pc # "idle"
  /\ End(t)
  /\ UNCHANGED <<lifecycleVars, archived, origin, whole>>

-----------------------------------------------------------------------------
(* Jobs *)

Worked(j) == attempts[j] > 0 \/ \E t \in Callers : task[t].job = j

\* complete_job, be it of a source that held no document, or fail_job.
Report(j) ==
  \/ whole' = whole \ {j}
  \/ /\ status'[j] = "completed" /\ origin[j].source # "file"
     /\ whole' = whole \cup {j}

FinishJob(j) ==
  /\ Worked(j)
  /\ Finish(j)
  /\ Report(j)
  /\ \/ \E t \in Callers : task[t].job = j /\ End(t)
     \/ (\A t \in Callers : task[t].job # j) /\ UNCHANGED <<task, lock>>
  /\ UNCHANGED <<archived, origin>>

\* A worker that has outlived its lease reports by job id: on a job that is
\* over, back in the queue, or in the hands of another worker.
ReportLate(j) ==
  /\ attempts[j] > 0
  /\ \E s \in Outcomes : status' = [status EXCEPT ![j] = s]
  /\ Report(j)
  /\ UNCHANGED <<attempts, archived, origin, task, lock>>

\* The queue claims a job, or a worker that starts recovers some.
QueueStep ==
  /\ \/ \E j \in Jobs : Claim(j)
     \/ \E lost \in SUBSET Jobs : Recover(lost)
  /\ UNCHANGED <<archived, origin, whole, task, lock>>

Next ==
  \/ \E p \in Projects : Archive(p) \/ \E t \in Callers : Upload(t, p)
  \/ \E t \in Callers :
       \/ AcceptUpload(t) \/ RunIngestionJob(t) \/ Abandon(t)
       \/ StartBootstrap(t) \/ CheckCorpus(t) \/ ScheduleCorpus(t)
  \/ \E j \in Jobs : FinishJob(j) \/ ReportLate(j)
  \/ QueueStep

Spec == Init /\ [][Next]_vars
-----------------------------------------------------------------------------
(* Properties *)

Live == {"queued", "running"}

\* However many API processes start, at once or again, at most one of the jobs
\* their bootstraps made is queued or running: whatever late workers report
\* and recovery does, a job that was over at the check does not come back.
OneLiveCorpus ==
  \A j, k \in Jobs :
    (/\ origin[j].by = "bootstrap" /\ status[j] \in Live
     /\ origin[k].by = "bootstrap" /\ status[k] \in Live) => j = k

-----------------------------------------------------------------------------
(* What the code does not have. *)

\* Archived projects are read-only.
ArchivedReadOnly ==
  [][\A j \in Jobs :
       (status[j] = "absent" /\ status'[j] # "absent")
         => origin'[j].project \notin archived]_vars

\* The corpus is queued or ingested exactly once.
CorpusOnce ==
  \A j, k \in Jobs :
    (/\ origin[j].by = "bootstrap" /\ status[j] \in Live \cup {"completed"}
     /\ origin[k].by = "bootstrap" /\ status[k] \in Live \cup {"completed"}) => j = k

\* A job that keeps bootstraps from scheduling the corpus is one a worker can
\* claim, recover or finish.
RunningIsWorked == \A j \in Jobs : status[j] = "running" => Worked(j)
=============================================================================
