---------------------------- MODULE ProjectSummary ----------------------------
(***************************************************************************)
(* ProjectRepository._summary (app/projects/repository.py) beside the      *)
(* submissions and jobs of Workspaces: what a page says of a project is    *)
(* put together from statements that are awaited one after another, each   *)
(* of which sees what is committed by then (READ COMMITTED).               *)
(***************************************************************************)
EXTENDS Workspaces, Sequences

VARIABLES
  filled,   \* the projects that have documents
  view      \* the summary that is being computed

summaryVars == <<vars, filled, view>>

\* "accepted" is not in the code: the jobs the project had at the beginning.
NoView == [next |-> 0, project |-> "none", archived |-> FALSE, found |-> {},
           accepted |-> {}]

\* Mutant: the failed jobs are counted before the live ones.
CountsSwapped == <<"documents", "failed", "live">>

\* The statements, in their order.  The first of the four is left out: it counts
\* documents too, and readiness does not use it.
Counts == <<"documents", "live", "failed">>

SummaryTypeOK ==
  /\ TypeOK
  /\ filled \subseteq Projects
  /\ view \in [next : 0..Len(Counts), project : Projects \cup {"none"},
               archived : BOOLEAN, found : SUBSET {"documents", "live", "failed"},
               accepted : SUBSET Jobs]

SummaryInit == Init /\ filled = {} /\ view = NoView

\* A worker, or the caller itself, saves a document of the job, the first one of its
\* project, whatever became of the row meanwhile.
SaveDocument(j) ==
  /\ Worked(j) /\ origin[j].project \in Projects \ filled
  /\ filled' = filled \cup {origin[j].project}
  /\ UNCHANGED <<vars, view>>

JobsOf(p, statuses) ==
  {j \in Jobs : origin[j].project = p /\ status[j] \in statuses}

\* Whether a count is not zero.
Finds(count, p) ==
  \/ count = "documents" /\ p \in filled
  \/ count = "live" /\ JobsOf(p, Live) # {}
  \/ count = "failed" /\ JobsOf(p, {"failed", "quarantined"}) # {}

\* The record of the project is loaded, for get or for list.
BeginSummary(p) ==
  /\ view = NoView
  /\ view' = [next |-> 1, project |-> p, archived |-> p \in archived, found |-> {},
              accepted |-> JobsOf(p, Statuses \ {"absent"})]
  /\ UNCHANGED <<vars, filled>>

\* What has been found once the next count is taken.
Found ==
  LET count == Counts[view.next]
  IN  IF Finds(count, view.project) THEN view.found \cup {count} ELSE view.found

Responding == view.next = Len(Counts)

Count ==
  /\ view.next \in DOMAIN Counts /\ ~Responding
  /\ view' = [view EXCEPT !.next = @ + 1, !.found = Found]
  /\ UNCHANGED <<vars, filled>>

\* Behind the last count nothing is awaited: the summary is made of it at once.
Respond ==
  /\ Responding
  /\ view' = NoView
  /\ UNCHANGED <<vars, filled>>

\* What a summary says whose last count is taken now.
Readiness ==
  IF view.archived THEN "archived"
  ELSE IF "documents" \in Found THEN "ready"
  ELSE IF "live" \in Found THEN "preparing"
  ELSE IF "failed" \in Found THEN "failed"
  ELSE "empty"

SummaryNext ==
  \/ Next /\ UNCHANGED <<filled, view>>
  \/ \E j \in Jobs : SaveDocument(j)
  \/ \E p \in Projects : BeginSummary(p)
  \/ Count \/ Respond

SummarySpec == SummaryInit /\ [][SummaryNext]_summaryVars

-----------------------------------------------------------------------------
(* Properties *)

\* A summary that says "empty" hides no job that is waiting, at work, failed or given
\* up, although jobs change between its counts and late workers report: when it is
\* made, every job that the project had been given before has completed (_summary).
EmptyHidesNoFailure ==
  Responding /\ Readiness = "empty" => \A j \in view.accepted : status[j] = "completed"

-----------------------------------------------------------------------------
(* What the code does not have. *)

\* A project that has been given a job does not read "empty".
AcceptedIsVisible == Responding /\ view.accepted # {} => Readiness # "empty"

\* A project that reads "empty" has no document.
EmptyHasNoDocument ==
  Responding /\ Readiness = "empty" => view.project \notin filled

\* The sample project reads "ready" only once its corpus is ingested.
ReadyIsPrepared ==
  Responding /\ Readiness = "ready" =>
    \A j \in view.accepted : origin[j].by = "bootstrap" => status[j] \notin Live
=============================================================================
