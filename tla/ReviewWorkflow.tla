--------------------------- MODULE ReviewWorkflow ---------------------------
(***************************************************************************)
(* The review of work products: the tables work_products, review_events    *)
(* and review_checkpoints (app/workflows/repository.py), the policy        *)
(* (app/workflows/review.py), the LangGraph interrupt                      *)
(* (app/workflows/review_gate.py) and the routes that drive them           *)
(* (app/api/routes/workflows.py).                                          *)
(*                                                                         *)
(* decide is one transaction with two statements that matter: it loads the *)
(* row without a lock and, at its flush, updates the columns whose value   *)
(* changed since the load (what SQLAlchemy puts into an UPDATE).  The      *)
(* update comes before the checkpoint is read, and its row lock makes the  *)
(* rest of the transaction one step.  The gate is a second store, written  *)
(* after that transaction.                                                 *)
(***************************************************************************)
EXTENDS Naturals, Sequences

CONSTANTS
  Products,    \* work products; each has an analysis run of its own
  Requests,    \* HTTP requests that may be in flight together
  Contents,    \* contents of the findings
  Actors,      \* reviewers
  NoProduct, NoContent, NoActor, NoHash,
  MaxEvents    \* bound on the review events of a product

ASSUME ReviewAssumption ==
  /\ NoProduct \notin Products /\ NoContent \notin Contents
  /\ NoActor \notin Actors
  /\ MaxEvents \in Nat

VARIABLES
  record,      \* product -> its row in work_products
  checkpoint,  \* product -> its row in review_checkpoints
  events,      \* product -> its rows in review_events, oldest first
  gate,        \* product -> the LangGraph thread of its run
  req,         \* request -> what it is doing
  cut          \* history: the products whose last decision was cut short on its
               \* way to the gate; no action reads it

vars == <<record, checkpoint, events, gate, req, cut>>

Statuses == {"draft", "needs_review", "approved", "rejected"}

\* Mutant: an approved product can still be edited.
PolicyEditsApproved ==
  [approve |-> [from |-> {"needs_review", "draft"}, to |-> "approved"],
   reject |-> [from |-> {"needs_review", "draft"}, to |-> "rejected"],
   request_reanalysis |-> [from |-> {"needs_review", "rejected"}, to |-> "draft"],
   edit |-> [from |-> {"needs_review", "draft", "approved"}, to |-> "needs_review"],
   waive_with_reason |-> [from |-> {"needs_review"}, to |-> "approved"]]

\* review.transition: from which statuses an action is allowed, and to which.
Policy ==
  [approve |-> [from |-> {"needs_review", "draft"}, to |-> "approved"],
   reject |-> [from |-> {"needs_review", "draft"}, to |-> "rejected"],
   request_reanalysis |-> [from |-> {"needs_review", "rejected"}, to |-> "draft"],
   edit |-> [from |-> {"needs_review", "draft"}, to |-> "needs_review"],
   waive_with_reason |-> [from |-> {"needs_review"}, to |-> "approved"]]

Actions == DOMAIN Policy

\* payload_json: the product itself; its metadata is not modelled.
Payload == [status : Statuses, content : Contents]
Unborn == [status |-> "absent", content |-> NoContent]

\* _product_hash hashes all of the product but its metadata: two products have
\* one hash only if they agree on status and content.
ProductHash(payload) == <<payload.status, payload.content>>
Hashes == {ProductHash(payload) : payload \in Payload}

ASSUME HashAssumption == NoHash \notin Hashes

NoRow == [status |-> "absent", payload |-> Unborn, approvedBy |-> NoActor]
Row == [status : Statuses, payload : Payload, approvedBy : Actors \cup {NoActor}]

NoCheckpoint == [status |-> "absent", hash |-> NoHash, version |-> 0]
Checkpoint == [status : Statuses, hash : Hashes, version : Nat \ {0}]

Event == [action : Actions, before : Hashes, after : Hashes]

\* "reviewable" is what the route read from the checkpoint before it decided.
Request == [pc : {"saved", "read", "loaded", "decided", "resumed", "deleted"},
            product : Products, action : Actions \cup {"run"},
            content : Contents \cup {NoContent}, actor : Actors \cup {NoActor},
            expected : Hashes \cup {NoHash}, reviewable : BOOLEAN,
            loaded : Row \cup {NoRow}]
Idle == [pc |-> "idle", product |-> NoProduct, action |-> "none",
         content |-> NoContent, actor |-> NoActor, expected |-> NoHash,
         reviewable |-> FALSE, loaded |-> NoRow]

TypeOK ==
  /\ record \in [Products -> Row \cup {NoRow}]
  /\ checkpoint \in [Products -> Checkpoint \cup {NoCheckpoint}]
  /\ events \in [Products -> Seq(Event)]
  /\ gate \in [Products -> {"none", "pending", "finished"}]
  /\ req \in [Requests -> Request \cup {Idle}]
  /\ cut \in SUBSET Products

Init ==
  /\ record = [p \in Products |-> NoRow]
  /\ checkpoint = [p \in Products |-> NoCheckpoint]
  /\ events = [p \in Products |-> <<>>]
  /\ gate = [p \in Products |-> "none"]
  /\ req = [q \in Requests |-> Idle]
  /\ cut = {}

-----------------------------------------------------------------------------
(* Writing rows *)

\* Mutant: compares statuses, so an edit leaves the hash behind.
UpsertedByStatus(row, payload) ==
  IF row.status = payload.status
    THEN row
    ELSE [status |-> payload.status, hash |-> ProductHash(payload),
          version |-> row.version + 1]

\* _upsert_checkpoint on the row it reads.
Upserted(row, payload) ==
  IF row.hash = ProductHash(payload)
    THEN row
    ELSE [status |-> payload.status, hash |-> ProductHash(payload),
          version |-> row.version + 1]

\* The row decide leaves in its session.
Decided(r) ==
  LET next == Policy[r.action].to
  IN  [status |-> next,
       payload |-> [status |-> next,
                    content |-> IF r.action = "edit" THEN r.content
                                ELSE r.loaded.payload.content],
       approvedBy |-> IF next = "approved" THEN r.actor ELSE NoActor]

\* The UPDATE names the columns whose value is not the one loaded.
Flushed(row, loaded, new) ==
  [column \in DOMAIN row |->
     IF new[column] = loaded[column] THEN row[column] ELSE new[column]]

\* Mutant: the event repeats the hash that was loaded.
DecisionEventStale(r) ==
  [action |-> r.action, before |-> ProductHash(r.loaded.payload),
   after |-> ProductHash(r.loaded.payload)]

DecisionEvent(r) ==
  [action |-> r.action, before |-> ProductHash(r.loaded.payload),
   after |-> ProductHash(Decided(r).payload)]

-----------------------------------------------------------------------------
(* run_workflow: the product and its checkpoint in one transaction ... *)

SaveProduct(q, p) ==
  /\ req[q] = Idle
  /\ record[p] = NoRow
  /\ \E s \in {"draft", "needs_review"}, c \in Contents :
       LET payload == [status |-> s, content |-> c]
       IN  /\ record' = [record EXCEPT ![p] =
                [status |-> s, payload |-> payload, approvedBy |-> NoActor]]
           /\ checkpoint' = [checkpoint EXCEPT ![p] = Upserted(@, payload)]
           /\ req' = [req EXCEPT ![q] =
                IF s = "needs_review"
                  THEN [Idle EXCEPT !.pc = "saved", !.product = p, !.action = "run"]
                  ELSE Idle]
  /\ UNCHANGED <<events, gate, cut>>

\* ... then the gate of a product that needs a review.
StartGate(q) ==
  /\ req[q].pc = "saved"
  /\ gate' = [gate EXCEPT ![req[q].product] = "pending"]
  /\ req' = [req EXCEPT ![q] = Idle]
  /\ UNCHANGED <<record, checkpoint, events, cut>>

-----------------------------------------------------------------------------
(* decide_review and resume_review *)

\* The reviewer may send the hash of the product on the screen; the route
\* first reads the checkpoint.  A waiver without a comment is refused: the
\* comment is left out.
ReadCheckpoint(q, p, action) ==
  /\ req[q] = Idle
  /\ record[p] # NoRow
  /\ Len(events[p]) < MaxEvents
  /\ \E content \in (IF action = "edit" THEN Contents ELSE {NoContent}),
        actor \in Actors, expected \in {NoHash, ProductHash(record[p].payload)} :
       req' = [req EXCEPT ![q] =
         [Idle EXCEPT !.pc = "read", !.product = p, !.action = action,
                      !.content = content, !.actor = actor, !.expected = expected,
                      !.reviewable = (checkpoint[p].status = "needs_review")]]
  /\ UNCHANGED <<record, checkpoint, events, gate, cut>>

Current(q) == record[req[q].product]
HashMatches(q) == req[q].expected \in {NoHash, ProductHash(Current(q).payload)}
\* approve and reject again: the product is returned as it is.
AlreadyDone(q) ==
  \/ req[q].action = "approve" /\ Current(q).payload.status = "approved"
  \/ req[q].action = "reject" /\ Current(q).payload.status = "rejected"
Allowed(q) == Current(q).payload.status \in Policy[req[q].action].from

\* decide up to its checks: the state it goes on with.
Load(q) ==
  /\ req[q].pc = "read" /\ HashMatches(q) /\ ~AlreadyDone(q) /\ Allowed(q)
  /\ req' = [req EXCEPT ![q].pc = "loaded", ![q].loaded = Current(q)]
  /\ UNCHANGED <<record, checkpoint, events, gate, cut>>

Refuse(q) ==
  /\ req[q].pc = "read"
  /\ ~HashMatches(q) \/ (~AlreadyDone(q) /\ ~Allowed(q))
  /\ req' = [req EXCEPT ![q] = Idle]
  /\ UNCHANGED <<record, checkpoint, events, gate, cut>>

\* Where a decided request goes: on to the gate, if the checkpoint it read at
\* the start was waiting for a review.
AfterDecision(r) ==
  IF r.reviewable THEN [r EXCEPT !.pc = "decided", !.loaded = NoRow] ELSE Idle

ReturnCurrent(q) ==
  /\ req[q].pc = "read" /\ HashMatches(q) /\ AlreadyDone(q)
  /\ req' = [req EXCEPT ![q] = AfterDecision(req[q])]
  /\ UNCHANGED <<record, checkpoint, events, gate, cut>>

\* Mutant: an edit of a product that stays reviewable leaves no event.
CommitQuietEdit(q) ==
  LET r == req[q]
      p == r.product
      new == Decided(r)
  IN  /\ r.pc = "loaded"
      /\ record' = [record EXCEPT ![p] = Flushed(@, r.loaded, new)]
      /\ checkpoint' = [checkpoint EXCEPT ![p] = Upserted(@, new.payload)]
      /\ events' = IF new.status = r.loaded.status THEN events
                   ELSE [events EXCEPT ![p] = Append(@, DecisionEvent(r))]
      /\ req' = [req EXCEPT ![q] = AfterDecision(r)]
      /\ UNCHANGED <<gate, cut>>

\* decide from its flush to its commit.
Commit(q) ==
  LET r == req[q]
      p == r.product
      new == Decided(r)
  IN  /\ r.pc = "loaded"
      /\ record' = [record EXCEPT ![p] = Flushed(@, r.loaded, new)]
      /\ checkpoint' = [checkpoint EXCEPT ![p] = Upserted(@, new.payload)]
      /\ events' = [events EXCEPT ![p] = Append(@, DecisionEvent(r))]
      /\ req' = [req EXCEPT ![q] = AfterDecision(r)]
      /\ UNCHANGED <<gate, cut>>

\* Mutant: only an approval resumes the gate.
ResumeApproved(q) ==
  LET r == req[q]
  IN  /\ r.pc = "decided"
      /\ gate' = [gate EXCEPT ![r.product] =
                    IF @ = "pending" /\ r.action = "approve" THEN "finished" ELSE @]
      /\ req' = [req EXCEPT ![q] = IF r.action = "edit" THEN [r EXCEPT !.pc = "resumed"]
                                                        ELSE Idle]
      /\ cut' = cut \ {r.product}
      /\ UNCHANGED <<record, checkpoint, events>>

\* gate.resume runs an interrupted thread to its end; on another thread it
\* changes nothing, and may raise.  Only an edit goes on, to start the gate again.
\* Before or after what it does here, it may raise (Lose).
ResumeGate(q) ==
  LET r == req[q]
  IN  /\ r.pc = "decided"
      /\ gate' = [gate EXCEPT ![r.product] = IF @ = "pending" THEN "finished" ELSE @]
      /\ req' = [req EXCEPT ![q] = IF r.action = "edit" THEN [r EXCEPT !.pc = "resumed"]
                                                        ELSE Idle]
      /\ cut' = cut \ {r.product}
      /\ UNCHANGED <<record, checkpoint, events>>

\* restart: delete the thread ...
DeleteThread(q) ==
  /\ req[q].pc = "resumed"
  /\ gate' = [gate EXCEPT ![req[q].product] = "none"]
  /\ req' = [req EXCEPT ![q].pc = "deleted"]
  /\ UNCHANGED <<record, checkpoint, events, cut>>

\* ... and interrupt a new one.
RestartGate(q) ==
  /\ req[q].pc = "deleted"
  /\ gate' = [gate EXCEPT ![req[q].product] = "pending"]
  /\ req' = [req EXCEPT ![q] = Idle]
  /\ UNCHANGED <<record, checkpoint, events, cut>>

-----------------------------------------------------------------------------
\* The database or the saver of the gate raises in any of these steps, the task of
\* the request is cancelled, or the process stops, and with it every request in
\* flight: the request is over, and what was committed stays.
Lose(q) ==
  /\ req[q] # Idle
  /\ req' = [req EXCEPT ![q] = Idle]
  /\ cut' = IF req[q].pc = "decided" THEN cut \cup {req[q].product} ELSE cut
  /\ UNCHANGED <<record, checkpoint, events, gate>>

Begin(q) ==
  \E p \in Products :
    SaveProduct(q, p) \/ \E action \in Actions : ReadCheckpoint(q, p, action)

Next ==
  \E q \in Requests :
    \/ Begin(q)
    \/ Load(q) \/ Refuse(q) \/ ReturnCurrent(q) \/ Commit(q)
    \/ StartGate(q) \/ ResumeGate(q) \/ DeleteThread(q) \/ RestartGate(q)
    \/ Lose(q)

Spec == Init /\ [][Next]_vars

-----------------------------------------------------------------------------
(* Properties *)

Saved(p) == record[p] # NoRow
Quiet == \A q \in Requests : req[q] = Idle

\* The row, the payload in it and the checkpoint tell one story, also between
\* the steps of a request and after one is lost.
StoresAgree ==
  \A p \in Products : Saved(p) =>
    /\ record[p].status = record[p].payload.status
    /\ checkpoint[p].status = record[p].payload.status
    /\ checkpoint[p].hash = ProductHash(record[p].payload)

\* The events of a product form a chain that ends in the product: no decision
\* overwrote another one it had not seen.
EventChain ==
  \A p \in Products :
    LET n == Len(events[p])
    IN  /\ \A i \in 1 .. n - 1 : events[p][i].after = events[p][i + 1].before
        /\ n > 0 => events[p][n].after = ProductHash(record[p].payload)

\* A product that reads approved was approved with the hash it has now: an
\* export and the review history in it name one content, whatever requests ran
\* together (decide).
ApprovedHasEvent ==
  \A p \in Products : record[p].payload.status = "approved" =>
    \E i \in DOMAIN events[p] :
      /\ events[p][i].action \in {"approve", "waive_with_reason"}
      /\ events[p][i].after = ProductHash(record[p].payload)

\* History is append-only, and a saved product changes only together with an
\* event that names the hash it changes to.
EventPerTransition ==
  [][\A p \in Products :
       /\ Len(events[p]) <= Len(events'[p])
       /\ SubSeq(events'[p], 1, Len(events[p])) = events[p]
       /\ (Saved(p) /\ record'[p].payload # record[p].payload) =>
            /\ Len(events'[p]) = Len(events[p]) + 1
            /\ events'[p][Len(events'[p])].after = ProductHash(record'[p].payload)]_vars

\* An interrupt that no request is about to resume waits for a product that needs a
\* review, for requests one at a time and unless the last decision on the product was
\* cut short between its commit and the gate: no sequence of edits, reanalyses and
\* decisions, with requests lost anywhere else, orphans an interrupt, and a later
\* decision that goes to the gate makes good what an earlier one left.
InterruptAwaitsReview ==
  Quiet => \A p \in Products :
    gate[p] = "pending" => record[p].payload.status = "needs_review" \/ p \in cut

Promised == INSTANCE ReviewPolicy WITH
  product <- [p \in Products |-> record[p].payload],
  history <- [p \in Products |->
    [i \in DOMAIN events[p] |->
      [before |-> [status |-> events[p][i].before[1], content |-> events[p][i].before[2]],
       after |-> [status |-> events[p][i].after[1], content |-> events[p][i].after[2]]]]]

\* While no two requests overlap, the workflow keeps the promises of
\* ReviewPolicy: in particular an approved product never changes.
ImplementsPolicy == Promised!PolicySpec

-----------------------------------------------------------------------------
(* What the code does not have. *)

\* A decided product leaves no interrupt behind.
DecidedHasNoInterrupt ==
  Quiet => \A p \in Products :
    record[p].payload.status \in {"approved", "rejected"} => gate[p] # "pending"

\* A product that waits for a review is waiting at the gate.
PendingHasInterrupt ==
  Quiet => \A p \in Products :
    record[p].payload.status = "needs_review" => gate[p] = "pending"

\* The queue of pending reviews (list_pending filters by the status column)
\* shows every product whose payload needs a review.
PendingListed ==
  \A p \in Products :
    record[p].payload.status = "needs_review" => record[p].status = "needs_review"
=============================================================================
