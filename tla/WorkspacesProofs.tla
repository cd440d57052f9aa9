-------------------------- MODULE WorkspacesProofs --------------------------
(***************************************************************************)
(* Theorems about Workspaces and ProjectSummary: bootstraps never have two *)
(* jobs of the corpus queued or running, for any number of API processes,  *)
(* jobs and projects, and a summary that says "empty" hides no failure.    *)
(***************************************************************************)
EXTENDS ProjectSummary, TLAPS

\* Who is between the lock and the submission holds the lock.
LockHeld ==
  \A t \in Callers : task[t].pc \in {"locked", "unscheduled"} => lock = t

\* What a bootstrap submits is what has_active_or_completed_job looks for.
BootstrapIsCorpus ==
  \A j \in Jobs : origin[j].by = "bootstrap" =>
    origin[j].source = "corpus" /\ origin[j].project = SampleProject

\* A job a bootstrap made that is not over.
LiveBootstrap(j) == origin[j].by = "bootstrap" /\ status[j] \in Live

\* After the check no job of a bootstrap is live, and none becomes so before
\* the submission.
CheckedIsFree ==
  \A t \in Callers : task[t].pc = "unscheduled" => \A j \in Jobs : ~LiveBootstrap(j)

BootstrapInv ==
  /\ CorpusSource = "corpus"
  /\ TypeOK /\ LockHeld /\ BootstrapIsCorpus /\ CheckedIsFree /\ OneLiveCorpus

-----------------------------------------------------------------------------
(* Types *)

\* The steps of jobs keep the types of the rows.
LEMMA LifecycleKeepsTypes ==
  ASSUME LifecycleTypeOK,
         \/ \E j \in Jobs : Submit(j) \/ Claim(j) \/ Finish(j)
         \/ \E lost \in SUBSET Jobs : Recover(lost)
  PROVE  LifecycleTypeOK'
  BY DEF LifecycleTypeOK, Submit, Claim, Finish, Recover, Statuses, Final, Outcomes

\* A submission keeps the types.
LEMMA SubmitKeepsTypes ==
  ASSUME TypeOK, NEW t \in Callers, NEW from \in Origins, SubmitFrom(t, from),
         lock' \in {lock, NoCaller}, UNCHANGED <<archived, whole>>
  PROVE  TypeOK'
<1>1. PICK j \in Jobs :
        /\ Submit(j)
        /\ origin' = [origin EXCEPT ![j] = from]
        /\ task' = [task EXCEPT ![t] = IF Foreground(t)
                                       THEN [Idle EXCEPT !.pc = "ingesting", !.job = j]
                                       ELSE Idle]
  BY DEF SubmitFrom
<1>2. LifecycleTypeOK'
  BY <1>1, LifecycleKeepsTypes DEF TypeOK
<1>3. origin' \in [Jobs -> Origins]
  BY <1>1 DEF TypeOK, Origins
<1>4. task'[t] \in Tasks
  BY <1>1 DEF TypeOK, Idle, Tasks
<1>5. task' \in [Callers -> Tasks]
  BY <1>1, <1>4 DEF TypeOK, Tasks
<1> QED
  BY <1>2, <1>3, <1>5 DEF TypeOK, Origins, Tasks

\* The types hold of every state.
LEMMA NextKeepsTypes == TypeOK /\ [Next]_vars => TypeOK'
<1> SUFFICES ASSUME TypeOK, [Next]_vars PROVE TypeOK'
  OBVIOUS
<1> USE WorkspaceAssumption
<1>1. ASSUME NEW p \in Projects, Archive(p) PROVE TypeOK'
  BY <1>1 DEF Archive, TypeOK, LifecycleTypeOK, lifecycleVars
<1>2. ASSUME NEW p \in Projects, NEW t \in Callers, Upload(t, p) PROVE TypeOK'
  <2>1. task' = [task EXCEPT ![t] = [task[t] EXCEPT !.pc = "receiving", !.project = p]]
    BY <1>2 DEF Upload, TypeOK
  <2>2. task' \in [Callers -> Tasks]
    BY <2>1 DEF TypeOK, Tasks
  <2> QED
    BY <1>2, <2>2 DEF Upload, TypeOK, Tasks, LifecycleTypeOK, lifecycleVars
<1>3. ASSUME NEW t \in Callers, AcceptUpload(t) PROVE TypeOK'
  <2>1. [project |-> task[t].project, source |-> "file", by |-> "request"] \in Origins
    BY DEF TypeOK, Origins, Tasks
  <2>2. /\ SubmitFrom(t, [project |-> task[t].project, source |-> "file", by |-> "request"])
        /\ lock' \in {lock, NoCaller} /\ UNCHANGED <<archived, whole>>
    BY <1>3 DEF AcceptUpload
  <2> QED
    BY <2>1, <2>2, SubmitKeepsTypes
<1>4. ASSUME NEW t \in Callers, RunIngestionJob(t) PROVE TypeOK'
  <2>1. PICK path \in AdminPaths :
          SubmitFrom(t, [project |-> path[1], source |-> path[2], by |-> "request"])
    BY <1>4 DEF RunIngestionJob
  <2>2. [project |-> path[1], source |-> path[2], by |-> "request"] \in Origins
    BY DEF Origins
  <2> QED
    BY <1>4, <2>1, <2>2, SubmitKeepsTypes DEF RunIngestionJob
<1>5. ASSUME NEW t \in Callers, Abandon(t) PROVE TypeOK'
  BY <1>5 DEF Abandon, End, Idle, TypeOK, Tasks, LifecycleTypeOK, lifecycleVars
<1>6. ASSUME NEW t \in Callers, StartBootstrap(t) PROVE TypeOK'
  BY <1>6 DEF StartBootstrap, TypeOK, Tasks, LifecycleTypeOK, lifecycleVars
<1>7. ASSUME NEW t \in Callers, CheckCorpus(t) PROVE TypeOK'
  <2>1. \/ lock' = NoCaller /\ task' = [task EXCEPT ![t] = Idle]
        \/ lock' = lock /\ task' = [task EXCEPT ![t].pc = "unscheduled"]
    BY <1>7 DEF CheckCorpus
  <2>2. task' \in [Callers -> Tasks]
    BY <2>1 DEF Idle, TypeOK, Tasks
  <2> QED
    BY <1>7, <2>1, <2>2 DEF CheckCorpus, TypeOK, Tasks, LifecycleTypeOK, lifecycleVars
<1>8. ASSUME NEW t \in Callers, ScheduleCorpus(t) PROVE TypeOK'
  <2>1. [project |-> SampleProject, source |-> CorpusSource, by |-> "bootstrap"] \in Origins
    BY DEF Origins
  <2>2. /\ SubmitFrom(t, [project |-> SampleProject, source |-> CorpusSource, by |-> "bootstrap"])
        /\ lock' \in {lock, NoCaller} /\ UNCHANGED <<archived, whole>>
    BY <1>8 DEF ScheduleCorpus
  <2> QED
    BY <2>1, <2>2, SubmitKeepsTypes
<1>10. ASSUME NEW j \in Jobs, FinishJob(j) PROVE TypeOK'
  <2>1. LifecycleTypeOK'
    BY <1>10, LifecycleKeepsTypes DEF FinishJob, TypeOK
  <2>2. whole' \subseteq Jobs
    BY <1>10 DEF FinishJob, Report, TypeOK
  <2>3. \/ \E t \in Callers : End(t)
        \/ UNCHANGED <<task, lock>>
    BY <1>10 DEF FinishJob
  <2>4. UNCHANGED <<archived, origin>>
    BY <1>10 DEF FinishJob
  <2>5. CASE \E t \in Callers : End(t)
    BY <2>1, <2>2, <2>4, <2>5 DEF End, Idle, TypeOK, Tasks
  <2>6. CASE UNCHANGED <<task, lock>>
    BY <2>1, <2>2, <2>4, <2>6 DEF TypeOK
  <2> QED
    BY <2>3, <2>5, <2>6
<1>11. ASSUME NEW j \in Jobs, ReportLate(j) PROVE TypeOK'
  BY <1>11 DEF ReportLate, Report, Outcomes, Final, Statuses, TypeOK, LifecycleTypeOK
<1>12. CASE QueueStep
  <2>1. LifecycleTypeOK'
    BY <1>12, LifecycleKeepsTypes DEF QueueStep, TypeOK
  <2> QED
    BY <1>12, <2>1 DEF QueueStep, TypeOK
<1>13. CASE UNCHANGED vars
  BY <1>13 DEF vars, lifecycleVars, TypeOK, LifecycleTypeOK
<1> QED
  BY <1>1, <1>2, <1>3, <1>4, <1>5, <1>6, <1>7, <1>8, <1>10, <1>11, <1>12, <1>13 DEF Next
-----------------------------------------------------------------------------
(* Bootstraps *)

\* Steps that make no job live, and of tasks change one at most, which is or
\* gets outside of the bootstrap and takes no lock, keep the invariant.
LEMMA NoneRevivedKeeps ==
  ASSUME BootstrapInv, origin' = origin,
         \A j \in Jobs : status'[j] \in Live => status[j] \in Live,
         \/ UNCHANGED <<task, lock>>
         \/ \E t \in Callers :
              /\ \A u \in Callers \ {t} : task'[u] = task[u]
              /\ task'[t].pc \notin {"locked", "unscheduled"}
              /\ lock' = lock \/ lock = t
  PROVE  (LockHeld /\ BootstrapIsCorpus /\ CheckedIsFree /\ OneLiveCorpus)'
  BY DEF BootstrapInv, LockHeld, BootstrapIsCorpus, CheckedIsFree, LiveBootstrap,
         OneLiveCorpus

\* A submission changes one job and one task, and ends the latter's bootstrap.
LEMMA SubmitChanges ==
  ASSUME TypeOK, NEW t \in Callers, NEW from, SubmitFrom(t, from)
  PROVE  /\ \E j \in Jobs : /\ \A k \in Jobs \ {j} : status'[k] = status[k]
                            /\ origin' = [origin EXCEPT ![j] = from]
         /\ \A u \in Callers \ {t} : task'[u] = task[u]
         /\ task'[t].pc \notin {"locked", "unscheduled"}
<1>1. PICK j \in Jobs :
        /\ Submit(j)
        /\ origin' = [origin EXCEPT ![j] = from]
        /\ task' = [task EXCEPT ![t] = IF Foreground(t)
                                       THEN [Idle EXCEPT !.pc = "ingesting", !.job = j]
                                       ELSE Idle]
  BY DEF SubmitFrom
<1>2. \A k \in Jobs \ {j} : status'[k] = status[k]
  BY <1>1 DEF Submit, TypeOK, LifecycleTypeOK
<1>3. \A u \in Callers \ {t} : task'[u] = task[u]
  BY <1>1 DEF TypeOK
<1>4. task'[t].pc \in {"ingesting", "idle"}
  BY <1>1 DEF TypeOK, Idle
<1> QED
  BY <1>1, <1>2, <1>3, <1>4

\* A submission by a request keeps the invariant.
LEMMA RequestKeeps ==
  ASSUME BootstrapInv, NEW t \in Callers, NEW from \in Origins, from.by = "request",
         task[t].pc \notin {"locked", "unscheduled"},
         SubmitFrom(t, from), lock' = lock
  PROVE  (LockHeld /\ BootstrapIsCorpus /\ CheckedIsFree /\ OneLiveCorpus)'
<1>1. PICK j \in Jobs :
        /\ \A k \in Jobs \ {j} : status'[k] = status[k]
        /\ origin' = [origin EXCEPT ![j] = from]
        /\ \A u \in Callers \ {t} : task'[u] = task[u]
        /\ task'[t].pc \notin {"locked", "unscheduled"}
  BY SubmitChanges DEF BootstrapInv
<1>2. origin'[j].by # "bootstrap" /\ \A k \in Jobs \ {j} : origin'[k] = origin[k]
  BY <1>1 DEF BootstrapInv, TypeOK
<1>3. \A k \in Jobs : LiveBootstrap(k)' => LiveBootstrap(k)
  BY <1>1, <1>2 DEF LiveBootstrap
<1> QED
  BY <1>1, <1>2, <1>3
  DEF BootstrapInv, LockHeld, BootstrapIsCorpus, CheckedIsFree, LiveBootstrap, OneLiveCorpus

\* So does a bootstrap that has checked: there is no live job but its own.
LEMMA ScheduleKeeps ==
  ASSUME BootstrapInv, NEW t \in Callers, ScheduleCorpus(t)
  PROVE  (LockHeld /\ BootstrapIsCorpus /\ CheckedIsFree /\ OneLiveCorpus)'
<1> DEFINE from == [project |-> SampleProject, source |-> CorpusSource, by |-> "bootstrap"]
<1>1. PICK j \in Jobs :
        /\ \A k \in Jobs \ {j} : status'[k] = status[k]
        /\ origin' = [origin EXCEPT ![j] = from]
        /\ \A u \in Callers \ {t} : task'[u] = task[u]
        /\ task'[t].pc \notin {"locked", "unscheduled"}
  BY SubmitChanges DEF ScheduleCorpus, BootstrapInv
<1>2. origin'[j] = from /\ \A k \in Jobs \ {j} : origin'[k] = origin[k]
  BY <1>1 DEF BootstrapInv, TypeOK
<1>3. \A k \in Jobs : LiveBootstrap(k)' => k = j
  BY <1>1, <1>2 DEF ScheduleCorpus, BootstrapInv, CheckedIsFree, LiveBootstrap
<1>4. \A u \in Callers : task'[u].pc \notin {"locked", "unscheduled"}
  BY <1>1 DEF ScheduleCorpus, BootstrapInv, LockHeld
<1> QED
  BY <1>2, <1>3, <1>4
  DEF BootstrapInv, LockHeld, BootstrapIsCorpus, CheckedIsFree, LiveBootstrap, OneLiveCorpus

\* The check finds every live job of a bootstrap.
LEMMA CheckKeeps ==
  ASSUME BootstrapInv, NEW t \in Callers, CheckCorpus(t)
  PROVE  (LockHeld /\ BootstrapIsCorpus /\ CheckedIsFree /\ OneLiveCorpus)'
<1>1. UNCHANGED <<status, origin>>
  BY DEF CheckCorpus, lifecycleVars
<1>2. CASE AlreadyScheduled
  <2>1. task' = [task EXCEPT ![t] = Idle] /\ lock = t
    BY <1>2 DEF CheckCorpus, BootstrapInv, LockHeld
  <2> QED
    BY <1>1, <2>1, NoneRevivedKeeps DEF BootstrapInv, TypeOK, Idle
<1>3. CASE ~AlreadyScheduled
  <2>1. \A j \in Jobs : ~LiveBootstrap(j)
    BY <1>3 DEF AlreadyScheduled, LiveBootstrap, Live, BootstrapInv, BootstrapIsCorpus
  <2>2. task' = [task EXCEPT ![t].pc = "unscheduled"] /\ lock' = lock
    BY <1>3 DEF CheckCorpus
  <2>3. task[t].pc = "locked"
    BY DEF CheckCorpus
  <2> QED
    BY <1>1, <2>1, <2>2, <2>3
    DEF BootstrapInv, TypeOK, Tasks, LockHeld, BootstrapIsCorpus, CheckedIsFree,
        LiveBootstrap, OneLiveCorpus
<1> QED
  BY <1>2, <1>3

\* Every step keeps the invariant.
LEMMA NextKeepsBootstrapInv == BootstrapInv /\ [Next]_vars => BootstrapInv'
<1> SUFFICES ASSUME BootstrapInv, [Next]_vars
             PROVE  (LockHeld /\ BootstrapIsCorpus /\ CheckedIsFree /\ OneLiveCorpus)'
  BY NextKeepsTypes DEF BootstrapInv
<1> DEFINE Goal == (LockHeld /\ BootstrapIsCorpus /\ CheckedIsFree /\ OneLiveCorpus)'
<1>1. ASSUME NEW p \in Projects, Archive(p) PROVE Goal
  BY <1>1, NoneRevivedKeeps DEF Archive, lifecycleVars
<1>2. ASSUME NEW p \in Projects, NEW t \in Callers, Upload(t, p) PROVE Goal
  <2>1. /\ \A u \in Callers \ {t} : task'[u] = task[u]
        /\ task'[t].pc = "receiving"
    BY <1>2 DEF Upload, BootstrapInv, TypeOK, Tasks
  <2> QED
    BY <1>2, <2>1, NoneRevivedKeeps DEF Upload, lifecycleVars
<1>3. ASSUME NEW t \in Callers, AcceptUpload(t) PROVE Goal
  <2> DEFINE from == [project |-> task[t].project, source |-> "file", by |-> "request"]
  <2>1. from \in Origins /\ from.by = "request"
    BY DEF BootstrapInv, TypeOK, Origins, Tasks
  <2>2. SubmitFrom(t, from) /\ lock' = lock /\ task[t].pc \notin {"locked", "unscheduled"}
    BY <1>3 DEF AcceptUpload
  <2> QED
    BY <2>1, <2>2, RequestKeeps
<1>4. ASSUME NEW t \in Callers, RunIngestionJob(t) PROVE Goal
  <2>1. PICK path \in AdminPaths :
          SubmitFrom(t, [project |-> path[1], source |-> path[2], by |-> "request"])
    BY <1>4 DEF RunIngestionJob
  <2> DEFINE from == [project |-> path[1], source |-> path[2], by |-> "request"]
  <2>2. from \in Origins /\ from.by = "request"
    BY WorkspaceAssumption DEF Origins
  <2>3. lock' = lock /\ task[t].pc \notin {"locked", "unscheduled"}
    BY <1>4 DEF RunIngestionJob
  <2> QED
    BY <2>1, <2>2, <2>3, RequestKeeps
<1>5. ASSUME NEW t \in Callers, Abandon(t) PROVE Goal
  BY <1>5, NoneRevivedKeeps DEF Abandon, End, Idle, BootstrapInv, TypeOK, lifecycleVars
<1>6. ASSUME NEW t \in Callers, StartBootstrap(t) PROVE Goal
  <2>1. /\ \A u \in Callers \ {t} : task'[u] = task[u]
        /\ task'[t].pc = "locked"
    BY <1>6 DEF StartBootstrap, BootstrapInv, TypeOK, Tasks
  <2>2. \A u \in Callers : task[u].pc \notin {"locked", "unscheduled"}
    BY <1>6, WorkspaceAssumption DEF StartBootstrap, BootstrapInv, LockHeld
  <2> QED
    BY <1>6, <2>1, <2>2
    DEF StartBootstrap, lifecycleVars, BootstrapInv, LockHeld, BootstrapIsCorpus,
        CheckedIsFree, LiveBootstrap, OneLiveCorpus
<1>7. ASSUME NEW t \in Callers, CheckCorpus(t) PROVE Goal
  BY <1>7, CheckKeeps
<1>8. ASSUME NEW t \in Callers, ScheduleCorpus(t) PROVE Goal
  BY <1>8, ScheduleKeeps
<1>10. ASSUME NEW j \in Jobs, FinishJob(j) PROVE Goal
  <2>1. \A k \in Jobs : status'[k] \in Live => status[k] \in Live
    BY <1>10 DEF FinishJob, Finish, Outcomes, Live, BootstrapInv, TypeOK, LifecycleTypeOK
  <2>2. \/ UNCHANGED <<task, lock>>
        \/ \E t \in Callers :
             /\ \A u \in Callers \ {t} : task'[u] = task[u]
             /\ task'[t].pc \notin {"locked", "unscheduled"}
             /\ lock' = lock \/ lock = t
    BY <1>10 DEF FinishJob, End, Idle, BootstrapInv, TypeOK
  <2>3. origin' = origin
    BY <1>10 DEF FinishJob
  <2> QED
    BY <2>1, <2>2, <2>3, NoneRevivedKeeps
<1>11. ASSUME NEW j \in Jobs, ReportLate(j) PROVE Goal
  <2>1. \A k \in Jobs : status'[k] \in Live => status[k] \in Live
    BY <1>11 DEF ReportLate, Outcomes, Live, BootstrapInv, TypeOK, LifecycleTypeOK
  <2> QED
    BY <1>11, <2>1, NoneRevivedKeeps DEF ReportLate
<1>12. CASE QueueStep
  <2>1. \A k \in Jobs : status'[k] \in Live => status[k] \in Live
    BY <1>12 DEF QueueStep, Claim, Recover, Live, BootstrapInv, TypeOK, LifecycleTypeOK
  <2> QED
    BY <1>12, <2>1, NoneRevivedKeeps DEF QueueStep
<1>13. CASE UNCHANGED vars
  BY <1>13, NoneRevivedKeeps DEF vars, lifecycleVars
<1> QED
  BY <1>1, <1>2, <1>3, <1>4, <1>5, <1>6, <1>7, <1>8, <1>10, <1>11, <1>12, <1>13 DEF Next

\* At most one job of a bootstrap is queued or running, however many API
\* processes start and whatever becomes of their jobs, provided that
\* SAMPLE_CORPUS_PATH is absolute.
THEOREM CorpusIsNotDoubled == CorpusSource = "corpus" /\ Spec => []OneLiveCorpus
<1>1. CorpusSource = "corpus" /\ Init => BootstrapInv
  BY WorkspaceAssumption
  DEF Init, LifecycleInit, BootstrapInv, TypeOK, LifecycleTypeOK, Statuses, Final, Outcomes,
      NoOrigin, Origins, Idle, Tasks, LockHeld, BootstrapIsCorpus, CheckedIsFree,
      LiveBootstrap, OneLiveCorpus
<1>2. BootstrapInv => OneLiveCorpus
  BY DEF BootstrapInv
<1> QED
  BY <1>1, <1>2, NextKeepsBootstrapInv, PTL DEF Spec

-----------------------------------------------------------------------------
(* Summaries *)

\* The jobs a summary is about stay jobs of its project.
AcceptedStay ==
  \A j \in view.accepted :
    j \in Jobs /\ status[j] # "absent" /\ origin[j].project = view.project

\* Jobs that were not live when live ones were counted are over, and stay so.
UncountedAreOver ==
  view.next > 2 /\ "live" \notin view.found => \A j \in view.accepted : status[j] \in Final

SummaryInv == SummaryTypeOK /\ AcceptedStay /\ UncountedAreOver

\* No step takes a row away, gives it to another project, or brings back a job that
\* is over.
LEMMA NextKeepsJobs ==
  ASSUME TypeOK, Next, NEW j \in Jobs, status[j] # "absent"
  PROVE  /\ status'[j] # "absent" /\ origin'[j] = origin[j]
         /\ status[j] \in Final => status'[j] \in Final
<1>1. ASSUME NEW t \in Callers, NEW from, SubmitFrom(t, from)
      PROVE  status'[j] = status[j] /\ origin'[j] = origin[j]
  <2>1. PICK k \in Jobs : Submit(k) /\ origin' = [origin EXCEPT ![k] = from]
    BY <1>1 DEF SubmitFrom
  <2>2. k # j
    BY <2>1 DEF Submit
  <2> QED
    BY <2>1, <2>2 DEF Submit, TypeOK, LifecycleTypeOK
<1>2. ASSUME NEW t \in Callers, AcceptUpload(t) \/ RunIngestionJob(t) \/ ScheduleCorpus(t)
      PROVE  status'[j] = status[j] /\ origin'[j] = origin[j]
  BY <1>1, <1>2 DEF AcceptUpload, RunIngestionJob, ScheduleCorpus
<1>3. ASSUME \/ \E p \in Projects : Archive(p) \/ \E t \in Callers : Upload(t, p)
             \/ \E t \in Callers : Abandon(t) \/ StartBootstrap(t) \/ CheckCorpus(t)
      PROVE  status'[j] = status[j] /\ origin'[j] = origin[j]
  BY <1>3 DEF Archive, Upload, Abandon, StartBootstrap, CheckCorpus, lifecycleVars
<1>4. ASSUME NEW k \in Jobs, FinishJob(k) \/ ReportLate(k)
      PROVE  /\ status'[j] = status[j] \/ status'[j] \in Outcomes
             /\ origin'[j] = origin[j]
  BY <1>4 DEF FinishJob, Finish, ReportLate, TypeOK, LifecycleTypeOK
<1>5. ASSUME QueueStep
      PROVE  /\ status'[j] # "absent" /\ origin'[j] = origin[j]
             /\ status[j] \in Final => status'[j] = status[j]
  BY <1>5 DEF QueueStep, Claim, Recover, TypeOK, LifecycleTypeOK, Final, Outcomes
<1>6. Outcomes \subseteq Final /\ "absent" \notin Outcomes
  BY DEF Outcomes, Final
<1> QED
  BY <1>2, <1>3, <1>4, <1>5, <1>6 DEF Next

\* Every step keeps the invariant of summaries.
LEMMA NextKeepsSummaryInv == SummaryInv /\ [SummaryNext]_summaryVars => SummaryInv'
<1> SUFFICES ASSUME SummaryInv, [SummaryNext]_summaryVars PROVE SummaryInv'
  OBVIOUS
<1> USE DEF SummaryInv, SummaryTypeOK
<1>0. TypeOK' /\ Len(Counts) = 3 /\ DOMAIN Counts = 1..3
  <2>1. [Next]_vars
    BY DEF SummaryNext, summaryVars, SaveDocument, BeginSummary, Count, Respond
  <2> QED
    BY <2>1, NextKeepsTypes DEF Counts
<1>1. CASE Next /\ UNCHANGED <<filled, view>>
  <2>1. ASSUME NEW j \in view.accepted
        PROVE  /\ j \in Jobs /\ status'[j] # "absent" /\ origin'[j].project = view.project
               /\ status[j] \in Final => status'[j] \in Final
    BY <1>1, NextKeepsJobs DEF AcceptedStay
  <2> QED
    BY <1>0, <1>1, <2>1 DEF AcceptedStay, UncountedAreOver
<1>2. CASE UNCHANGED <<vars, view>> /\ filled' \subseteq Projects
  BY <1>0, <1>2 DEF AcceptedStay, UncountedAreOver, vars, lifecycleVars
<1>3. ASSUME NEW j \in Jobs, SaveDocument(j) PROVE SummaryInv'
  <2>1. origin[j].project \in Projects \cup {"none"}
    BY DEF TypeOK, Origins
  <2> QED
    BY <1>2, <1>3, <2>1 DEF SaveDocument
<1>4. ASSUME NEW p \in Projects, BeginSummary(p) PROVE SummaryInv'
  <2>1. /\ view'.next = 1 /\ view'.project = p /\ view'.accepted = JobsOf(p, Statuses \ {"absent"})
        /\ UNCHANGED <<status, origin, filled>>
    BY <1>4 DEF BeginSummary, vars, lifecycleVars
  <2>2. view' \in [next : 0..(Len(Counts) + 1), project : Projects \cup {"none"},
                   archived : BOOLEAN, found : SUBSET {"documents", "live", "failed"},
                   accepted : SUBSET Jobs]
    BY <1>0, <1>4 DEF BeginSummary, JobsOf
  <2> QED
    BY <1>0, <2>1, <2>2 DEF AcceptedStay, UncountedAreOver, JobsOf
<1>5. CASE Count
  <2>1. /\ view' = [view EXCEPT !.next = @ + 1, !.found = Found]
        /\ view.next \in 1..2 /\ UNCHANGED <<status, origin, filled>>
    BY <1>0, <1>5 DEF Count, Responding, vars, lifecycleVars
  <2>2. /\ view.found \subseteq Found /\ Found \subseteq {"documents", "live", "failed"}
        /\ view.next = 2 => (Finds("live", view.project) => "live" \in Found)
    BY <2>1 DEF Found, Counts
  <2>3. /\ view'.next = view.next + 1 /\ view'.project = view.project
        /\ view'.accepted = view.accepted /\ view'.found = Found
        /\ view' \in [next : 0..Len(Counts), project : Projects \cup {"none"},
                      archived : BOOLEAN, found : SUBSET {"documents", "live", "failed"},
                      accepted : SUBSET Jobs]
    <3> DEFINE found == Found
    <3>1. view' = [view EXCEPT !.next = view.next + 1, !.found = found]
      BY <2>1
    <3>2. found \in SUBSET {"documents", "live", "failed"}
      BY <2>2
    <3> HIDE DEF found
    <3>3. view'.next = view.next + 1 /\ view'.found = found
      BY <3>1
    <3>4. view.next + 1 \in 0..Len(Counts)
      BY <1>0, <2>1
    <3>5. /\ view'.project = view.project /\ view'.accepted = view.accepted
          /\ view' \in [next : 0..Len(Counts), project : Projects \cup {"none"},
                        archived : BOOLEAN, found : SUBSET {"documents", "live", "failed"},
                        accepted : SUBSET Jobs]
      BY <3>1, <3>2, <3>4
    <3> QED
      BY <3>3, <3>5 DEF found
  <2>4. CASE view.next = 2 /\ "live" \notin view'.found
    <3>1. \A j \in view.accepted : status[j] \notin Live
      BY <2>2, <2>3, <2>4 DEF Finds, JobsOf, AcceptedStay
    <3>2. \A j \in view.accepted : status[j] \in Final
      BY <3>1 DEF AcceptedStay, TypeOK, LifecycleTypeOK, Statuses, Live
    <3> QED
      BY <1>0, <2>1, <2>3, <3>2 DEF AcceptedStay, UncountedAreOver
  <2>5. CASE ~(view.next = 2 /\ "live" \notin view'.found)
    BY <1>0, <2>1, <2>2, <2>3, <2>5 DEF AcceptedStay, UncountedAreOver
  <2> QED
    BY <2>4, <2>5
<1>6. CASE Respond
  BY <1>0, <1>6 DEF Respond, NoView, vars, lifecycleVars, AcceptedStay, UncountedAreOver
<1>7. CASE UNCHANGED summaryVars
  BY <1>2, <1>7 DEF summaryVars
<1> QED
  BY <1>1, <1>3, <1>4, <1>5, <1>6, <1>7 DEF SummaryNext

\* A summary that says "empty" hides no job that waits, is at work, has failed or was
\* given up, for any projects, jobs and callers, whatever is submitted, recovered and
\* reported between its counts (ProjectRepository._summary).
THEOREM EmptySummariesHideNoFailure == SummarySpec => []EmptyHidesNoFailure
<1>1. SummaryInit => SummaryInv
  <2> SUFFICES ASSUME SummaryInit PROVE SummaryInv
    OBVIOUS
  <2>1. TypeOK
    BY WorkspaceAssumption
    DEF SummaryInit, Init, LifecycleInit, TypeOK, LifecycleTypeOK, Statuses, Final, Outcomes,
        NoOrigin, Origins, Idle, Tasks
  <2>2. Len(Counts) = 3
    BY DEF Counts
  <2> QED
    BY <2>1, <2>2 DEF SummaryInit, SummaryInv, SummaryTypeOK, NoView, AcceptedStay, UncountedAreOver
<1>2. SummaryInv => EmptyHidesNoFailure
  <2> SUFFICES ASSUME SummaryInv, Responding, Readiness = "empty", NEW j \in view.accepted
               PROVE  status[j] = "completed"
    BY DEF EmptyHidesNoFailure
  <2>1. view.next = 3 /\ Counts[view.next] = "failed"
    BY DEF Responding, Counts
  <2>2. "live" \notin Found /\ "failed" \notin Found
    BY DEF Readiness
  <2>3. "live" \notin view.found /\ ~Finds("failed", view.project)
    BY <2>1, <2>2 DEF Found
  <2>4. status[j] \in Final
    BY <2>1, <2>3 DEF SummaryInv, UncountedAreOver
  <2>5. status[j] \notin {"failed", "quarantined"}
    BY <2>3 DEF Finds, JobsOf, SummaryInv, AcceptedStay
  <2> QED
    BY <2>4, <2>5 DEF Final, Outcomes
<1> QED
  BY <1>1, <1>2, NextKeepsSummaryInv, PTL DEF SummarySpec

=============================================================================
