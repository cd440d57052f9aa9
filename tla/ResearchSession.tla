--------------------------- MODULE ResearchSession ---------------------------
(***************************************************************************)
(* The requests that ask a question in one conversation, from their routes *)
(* (app/api/routes/research.py, workflows.py) through the admission and    *)
(* ResearchAgentService.answer to ResearchSessionStore                     *)
(* (app/agents/session_store.py), and the deletion of the conversation.    *)
(*                                                                         *)
(* A request is named by its trace id, and so is the pair of turns its     *)
(* answer adds.  What the graph says, and the memory it compresses, are    *)
(* left out: the memory is written beside the turns and computed from them.*)
(***************************************************************************)
EXTENDS Admission

CONSTANTS
  Projects,
  SampleProject,  \* the project of the routes that name none
  Routes          \* the routes in use, out of RouteKinds

\* "project" is a route below /projects/{project_id}/research, "sample" one of
\* the unscoped research routes, "workflow" a workflow run, or an evaluation.
RouteKinds == {"project", "sample", "workflow"}

ASSUME ResearchAssumption ==
  /\ SampleProject \in Projects
  /\ Routes \subseteq RouteKinds

VARIABLES
  ask,     \* the requests
  stored,  \* the row of research_sessions, NoRow when there is none
  erased   \* history: the requests whose turns a deletion has removed

sessionVars == <<ask, stored, erased>>
vars == <<sessionVars, admissionVars>>

NoRow == [project |-> "none", turns |-> <<>>]

\* The steps inside answer.
InGraph == {"running", "answered", "saving"}
Ended == {"refused", "failed", "recorded"}
Steps == Ended \cup InGraph \cup {"new", "checked", "admitted"}

NewAsk ==
  [step |-> "new", route |-> "none", project |-> "none", turns |-> <<>>, base |-> NoRow]

RowType == [project : Projects \cup {"none"}, turns : Seq(Requests)]

AskType ==
  [step : Steps, route : RouteKinds \cup {"none"}, project : Projects \cup {"none"},
   turns : Seq(Requests), base : RowType]

\* Types, and that no request adds its turns twice.
TypeOK ==
  /\ AdmissionTypeOK
  /\ ask \in [Requests -> AskType]
  /\ stored \in RowType
  /\ erased \subseteq Requests
  /\ \A q \in Requests : IsInjective(ask[q].turns)

Init ==
  /\ AdmissionInit
  /\ ask = [q \in Requests |-> NewAsk]
  /\ stored = NoRow
  /\ erased = {}

-----------------------------------------------------------------------------
(* The routes *)

At(q, step) == ask[q].step = step
Goto(q, step) == ask' = [ask EXCEPT ![q].step = step]

\* belongs_to_other_project, a transaction of its own.
OtherProject(p) == stored # NoRow /\ stored.project # p

\* The request arrives.  Only the project's research routes look whose the
\* conversation is.
Ask(q, route, p) ==
  /\ At(q, "new")
  /\ route \in Routes
  /\ route = "sample" => p = SampleProject
  /\ ask' = [ask EXCEPT ![q] =
               [NewAsk EXCEPT
                  !.step = IF route = "project" /\ OtherProject(p)
                             THEN "refused" ELSE "checked",
                  !.route = route, !.project = p]]
  /\ UNCHANGED <<stored, erased, admissionVars>>

\* The research routes enter the admission; when it is full, 503.
Admit(q) ==
  /\ At(q, "checked")
  /\ ask[q].route # "workflow"
  /\ \/ Enter(q) /\ Goto(q, "admitted")
     \/ ~Room /\ Goto(q, "refused") /\ UNCHANGED admissionVars
  /\ UNCHANGED <<stored, erased>>

\* Turns of the event loop inside BoundedAdmission.acquire.
Wait(q) ==
  /\ Resume(q) \/ Cancel(q)
  /\ UNCHANGED sessionVars

\* The wait has timed out: 503.
TurnAway(q) ==
  /\ Reject(q)
  /\ Goto(q, "refused")
  /\ UNCHANGED <<stored, erased>>

\* Mutant: a route does not wait for its place.
InsideAnyway(q) ==
  \/ At(q, "admitted")
  \/ At(q, "checked") /\ ask[q].route = "workflow"

\* The workflow routes call answer as they are.
Inside(q) ==
  \/ At(q, "admitted") /\ pc[q] = "active"
  \/ At(q, "checked") /\ ask[q].route = "workflow"

\* The body of the admission is over, with a response or an exception.
Finish(q) ==
  /\ ask[q].step \in Ended
  /\ Leave(q)
  /\ UNCHANGED sessionVars

-----------------------------------------------------------------------------
(* ResearchAgentService.answer and ResearchSessionStore *)

\* Mutant: a follow-up starts a new history.
History(q) == <<>>

\* ResearchSessionStore.get: the turns of the row of this project.
StoredTurns(q) ==
  IF stored.project = ask[q].project THEN stored.turns ELSE <<>>

Load(q) ==
  /\ Inside(q)
  /\ ask' = [ask EXCEPT ![q].step = "running", ![q].turns = StoredTurns(q)]
  /\ UNCHANGED <<stored, erased, admissionVars>>

\* final_response_formatting adds the turns of this request.
Answered(q) == Append(ask[q].turns, q)

\* The graph ends with an answer, or in its error handler, whose response
\* leaves the turns as they were loaded.
Generate(q) ==
  /\ At(q, "running")
  /\ \E turns \in {Answered(q), ask[q].turns} :
       ask' = [ask EXCEPT ![q].step = "answered", ![q].turns = turns]
  /\ UNCHANGED <<stored, erased, admissionVars>>

\* The model is unavailable, or a streaming client has gone away.
Fail(q) ==
  /\ ask[q].step \in InGraph
  /\ Goto(q, "failed")
  /\ UNCHANGED <<stored, erased, admissionVars>>

\* Mutant: save takes the row of any project.
Anyone(q) == FALSE

\* "Conversation belongs to another project".
Foreign(q) == OtherProject(ask[q].project)

\* save reads the row.
SaveLoad(q) ==
  /\ At(q, "answered")
  /\ ask' = [ask EXCEPT ![q].step = IF Foreign(q) THEN "failed" ELSE "saving",
                        ![q].base = stored]
  /\ UNCHANGED <<stored, erased, admissionVars>>

\* save commits: an INSERT when it read no row, which fails when there is one
\* by now; else an UPDATE of the columns that differ from those it read, which
\* fails when the row is gone.
SaveCommit(q) ==
  LET a == ask[q]
      insert == a.base = NoRow
  IN  /\ At(q, "saving")
      /\ IF insert # (stored = NoRow)
           THEN Goto(q, "failed") /\ UNCHANGED stored
           ELSE /\ Goto(q, "recorded")
                /\ stored' = CASE insert -> [project |-> a.project, turns |-> a.turns]
                               [] a.turns = a.base.turns -> stored
                               [] OTHER -> [stored EXCEPT !.turns = a.turns]
      /\ UNCHANGED <<erased, admissionVars>>

\* The conversation routes delete the row by session and project.
Delete ==
  /\ stored # NoRow
  /\ stored' = NoRow
  /\ erased' = erased \cup ToSet(stored.turns)
  /\ UNCHANGED <<ask, admissionVars>>

-----------------------------------------------------------------------------
Answer(q) ==
  Load(q) \/ Generate(q) \/ Fail(q) \/ SaveLoad(q) \/ SaveCommit(q)

Next ==
  \/ Delete
  \/ \E q \in Requests :
       \/ \E route \in RouteKinds, p \in Projects : Ask(q, route, p)
       \/ Admit(q) \/ Wait(q) \/ TurnAway(q) \/ Finish(q)
       \/ Answer(q)

Spec == Init /\ [][Next]_vars
-----------------------------------------------------------------------------
(* Properties *)

\* No workflow run has been made in this conversation.
OnlyQueries == \A q \in Requests : ask[q].route # "workflow"

\* What a conversation holds all comes from queries of its own project: not
\* even an identifier that two projects ask about at once mixes their turns.
ProjectIsolated ==
  OnlyQueries => \A q \in ToSet(stored.turns) : ask[q].project = stored.project

\* Short of a deletion, queries add turns to a conversation and take none away,
\* and the conversation stays with its project: a follow-up builds on
\* everything recorded before it.
TurnsOnlyGrow ==
  [][ OnlyQueries /\ stored # NoRow /\ stored' # NoRow =>
        /\ stored'.project = stored.project
        /\ IsPrefix(stored.turns, stored'.turns) ]_vars

\* A turn of a recorded answer is in the conversation, unless that has been
\* deleted.
AnswersRecorded ==
  \A q \in Requests :
    (At(q, "recorded") /\ q \in ToSet(ask[q].turns))
      => q \in ToSet(stored.turns) \cup erased

\* No more research graphs run for queries than RESEARCH_CONCURRENCY, also
\* beside workflow runs.
GraphsBounded ==
  Cardinality({q \in Requests : ask[q].route # "workflow" /\ ask[q].step \in InGraph})
    <= Concurrency

\* A deleted conversation does not come back.
DeletedStaysDeleted == ToSet(stored.turns) \cap erased = {}

=============================================================================
