------------------------ MODULE ReviewWorkflowProofs ------------------------
(***************************************************************************)
(* What holds of reviews for any number of products, requests, reviewers,  *)
(* contents and events.                                                     *)
(***************************************************************************)
EXTENDS ReviewWorkflow, SequenceTheorems, TLAPS

\* What the policy says of the actions one by one.
LEMMA PolicyOf ==
  ASSUME NEW a \in Actions
  PROVE  /\ Policy[a].to \in Statuses
         /\ Policy[a].to = "approved" => a \in {"approve", "waive_with_reason"}
         /\ Policy[a].to = "rejected" => a = "reject"
<1>1. a \in {"approve", "reject", "request_reanalysis", "edit", "waive_with_reason"}
  BY DEF Actions, Policy
<1> QED
  BY <1>1 DEF Policy, Statuses

\* The row that decide writes is a row, whatever was written since the load.
LEMMA FlushedRow ==
  ASSUME NEW row \in Row, NEW loaded \in Row, NEW new \in Row
  PROVE  LET r == Flushed(row, loaded, new)
         IN  /\ r \in Row
             /\ r.status = IF new.status = loaded.status THEN row.status ELSE new.status
             /\ r.payload = IF new.payload = loaded.payload THEN row.payload ELSE new.payload
BY DEF Flushed, Row

\* What a decision makes of the row it loaded, and the event it writes.
LEMMA DecidedRow ==
  ASSUME NEW r \in Request, r.action \in Actions, r.loaded \in Row,
         r.action = "edit" => r.content \in Contents
  PROVE  /\ Decided(r) \in Row
         /\ Decided(r).status = Policy[r.action].to
         /\ Decided(r).payload \in Payload
         /\ Decided(r).payload.status = Policy[r.action].to
         /\ DecisionEvent(r) \in Event
         /\ DecisionEvent(r).action = r.action
         /\ DecisionEvent(r).before = ProductHash(r.loaded.payload)
         /\ DecisionEvent(r).after = ProductHash(Decided(r).payload)
<1> DEFINE next == Policy[r.action].to
           content == IF r.action = "edit" THEN r.content ELSE r.loaded.payload.content
           actor == IF next = "approved" THEN r.actor ELSE NoActor
<1>1. next \in Statuses /\ content \in Contents /\ actor \in Actors \cup {NoActor}
      /\ r.loaded.payload \in Payload
  BY PolicyOf DEF Request, Row, Payload
<1>2. Decided(r) = [status |-> next, payload |-> [status |-> next, content |-> content],
                    approvedBy |-> actor]
  BY DEF Decided
<1> HIDE DEF next, content, actor
<1>3. /\ Decided(r) \in Row /\ Decided(r).status = next
      /\ Decided(r).payload \in Payload /\ Decided(r).payload.status = next
  BY <1>1, <1>2 DEF Row, Payload
<1>4. ProductHash(r.loaded.payload) \in Hashes /\ ProductHash(Decided(r).payload) \in Hashes
  BY <1>1, <1>3 DEF Hashes
<1> QED
  BY <1>3, <1>4 DEF DecisionEvent, Event, next

\* A checkpoint stays one.
LEMMA UpsertedCheckpoint ==
  ASSUME NEW row \in Checkpoint \cup {NoCheckpoint}, NEW payload \in Payload
  PROVE  Upserted(row, payload) \in Checkpoint \cup {NoCheckpoint}
<1>1. ProductHash(payload) \in Hashes /\ payload.status \in Statuses
  BY DEF Hashes, Payload
<1>2. row.version + 1 \in Nat \ {0}
  BY DEF Checkpoint, NoCheckpoint
<1> QED
  BY <1>1, <1>2 DEF Upserted, Checkpoint

(***************************************************************************)
(* The inductive invariant: types, and what a decision in progress has in  *)
(* hand: the row of a saved product.                                       *)
(***************************************************************************)
InProgress ==
  \A q \in Requests : LET r == req[q] IN
    r.pc \in {"read", "loaded"} =>
      /\ record[r.product] # NoRow
      /\ r.action \in Actions
      /\ r.action = "edit" => r.content \in Contents
      /\ r.pc = "loaded" => r.loaded \in Row

ReviewInv == TypeOK /\ InProgress

\* A request that goes on, and one that ends.
LEMMA RequestStates ==
  /\ Idle.pc = "idle"
  /\ \A r \in Request : r.pc # "idle" /\ r # Idle
  /\ \A r \in Row : r # NoRow
  /\ NoRow.status = "absent"
BY DEF Idle, Request, Row, NoRow, Statuses

\* The state of a request that has decided.
LEMMA AfterDecisionType ==
  ASSUME NEW r \in Request
  PROVE  /\ AfterDecision(r) \in Request \cup {Idle}
         /\ AfterDecision(r).pc \in {"idle", "decided"}
BY DEF AfterDecision, Request, Idle

\* Starting requests: a step that writes one request only.
LEMMA OneRequest ==
  ASSUME ReviewInv, NEW q \in Requests, NEW r \in Request \cup {Idle},
         r.pc \in {"read", "loaded"} =>
           /\ record[r.product] # NoRow
           /\ r.action \in Actions
           /\ r.action = "edit" => r.content \in Contents
           /\ r.pc = "loaded" => r.loaded \in Row,
         req' = [req EXCEPT ![q] = r],
         \A p \in Products : record'[p] # NoRow \/ record'[p] = record[p],
         \A p \in Products : record[p] # NoRow => record'[p] # NoRow
  PROVE  req' \in [Requests -> Request \cup {Idle}] /\ InProgress'
<1>1. req \in [Requests -> Request \cup {Idle}]
  BY DEF ReviewInv, TypeOK
<1>2. req' \in [Requests -> Request \cup {Idle}]
  BY <1>1
<1>3. ASSUME NEW s \in Requests, req'[s].pc \in {"read", "loaded"}
      PROVE  /\ req'[s].product \in Products
             /\ record[req'[s].product] # NoRow
             /\ req'[s].action \in Actions
             /\ req'[s].action = "edit" => req'[s].content \in Contents
             /\ req'[s].pc = "loaded" => req'[s].loaded \in Row
  <2>1. req'[s].product \in Products
    BY <1>2, <1>3 DEF Request, Idle
  <2>2. CASE s = q
    BY <1>1, <1>3, <2>1, <2>2
  <2>3. CASE s # q
    <3>1. req'[s] = req[s]
      BY <1>1, <2>3
    <3> QED
      BY <1>3, <2>1, <3>1 DEF ReviewInv, InProgress
  <2> QED
    BY <2>2, <2>3
<1> QED
  BY <1>2, <1>3 DEF InProgress

\* The invariant holds of empty tables.
LEMMA InitReviewInv == Init => ReviewInv
BY DEF Init, ReviewInv, TypeOK, InProgress, Idle

\* Every step keeps the invariant.
LEMMA ReviewStep == ReviewInv /\ [Next]_vars => ReviewInv'
<1> SUFFICES ASSUME ReviewInv, [Next]_vars PROVE ReviewInv'
  OBVIOUS
<1> USE DEF ReviewInv
<1>0. /\ record \in [Products -> Row \cup {NoRow}]
      /\ checkpoint \in [Products -> Checkpoint \cup {NoCheckpoint}]
      /\ events \in [Products -> Seq(Event)]
      /\ gate \in [Products -> {"none", "pending", "finished"}]
      /\ req \in [Requests -> Request \cup {Idle}]
      /\ cut \in SUBSET Products
  BY DEF TypeOK
<1>1. ASSUME NEW q \in Requests, NEW p \in Products, SaveProduct(q, p) PROVE ReviewInv'
  <2>1. PICK s \in {"draft", "needs_review"}, c \in Contents :
          LET payload == [status |-> s, content |-> c]
          IN  /\ record' = [record EXCEPT ![p] =
                   [status |-> s, payload |-> payload, approvedBy |-> NoActor]]
              /\ checkpoint' = [checkpoint EXCEPT ![p] = Upserted(@, payload)]
              /\ req' = [req EXCEPT ![q] =
                   IF s = "needs_review"
                     THEN [Idle EXCEPT !.pc = "saved", !.product = p, !.action = "run"]
                     ELSE Idle]
    BY <1>1 DEF SaveProduct
  <2> DEFINE payload == [status |-> s, content |-> c]
             row == [status |-> s, payload |-> payload, approvedBy |-> NoActor]
             r == IF s = "needs_review"
                    THEN [Idle EXCEPT !.pc = "saved", !.product = p, !.action = "run"]
                    ELSE Idle
  <2>2. payload \in Payload /\ row \in Row
    BY DEF Payload, Row, Statuses
  <2>3. r \in Request \cup {Idle} /\ r.pc \notin {"read", "loaded"}
    BY DEF Request, Idle
  <2>4. Upserted(checkpoint[p], payload) \in Checkpoint \cup {NoCheckpoint}
    BY <1>0, <2>2, UpsertedCheckpoint
  <2>5. /\ record' = [record EXCEPT ![p] = row]
        /\ checkpoint' = [checkpoint EXCEPT ![p] = Upserted(checkpoint[p], payload)]
        /\ req' = [req EXCEPT ![q] = r] /\ UNCHANGED <<events, gate, cut>>
    BY <1>1, <2>1 DEF SaveProduct
  <2> HIDE DEF payload, row, r
  <2>6. \A k \in Products : record'[k] # NoRow \/ record'[k] = record[k]
    BY <1>0, <2>2, <2>5, RequestStates
  <2>7. \A k \in Products : record[k] # NoRow => record'[k] # NoRow
    BY <1>0, <2>2, <2>5, RequestStates
  <2>8. req' \in [Requests -> Request \cup {Idle}] /\ InProgress'
    BY <2>3, <2>5, <2>6, <2>7, OneRequest
  <2> QED
    BY <1>0, <2>2, <2>4, <2>5, <2>8 DEF TypeOK
<1>2. ASSUME NEW q \in Requests, NEW p \in Products, NEW action \in Actions,
             ReadCheckpoint(q, p, action)
      PROVE  ReviewInv'
  <2>1. PICK content \in (IF action = "edit" THEN Contents ELSE {NoContent}),
             actor \in Actors, expected \in {NoHash, ProductHash(record[p].payload)} :
          req' = [req EXCEPT ![q] =
            [Idle EXCEPT !.pc = "read", !.product = p, !.action = action,
                         !.content = content, !.actor = actor, !.expected = expected,
                         !.reviewable = (checkpoint[p].status = "needs_review")]]
    BY <1>2 DEF ReadCheckpoint
  <2>2. record[p] \in Row
    BY <1>0, <1>2 DEF ReadCheckpoint
  <2>3. expected \in Hashes \cup {NoHash}
    BY <2>2 DEF Row, Hashes
  <2> DEFINE r == [Idle EXCEPT !.pc = "read", !.product = p, !.action = action,
                               !.content = content, !.actor = actor,
                               !.expected = expected,
                               !.reviewable = (checkpoint[p].status = "needs_review")]
  <2>4. r \in Request /\ r.pc = "read" /\ r.product = p /\ r.action = action
        /\ r.content = content
    BY <2>3 DEF Request, Idle
  <2>5. req' = [req EXCEPT ![q] = r] /\ UNCHANGED <<record, checkpoint, events, gate, cut>>
    BY <1>2, <2>1 DEF ReadCheckpoint
  <2> HIDE DEF r
  <2>6. req' \in [Requests -> Request \cup {Idle}] /\ InProgress'
    BY <2>2, <2>4, <2>5, OneRequest, RequestStates
  <2> QED
    BY <1>0, <2>5, <2>6 DEF TypeOK
<1>3. ASSUME NEW q \in Requests, Load(q) PROVE ReviewInv'
  <2> DEFINE r == [req[q] EXCEPT !.pc = "loaded", !.loaded = Current(q)]
  <2>1. /\ req' = [req EXCEPT ![q] = r] /\ req[q].pc = "read"
        /\ UNCHANGED <<record, checkpoint, events, gate, cut>>
    BY <1>0, <1>3 DEF Load
  <2>2. req[q] \in Request
    BY <1>0, <2>1, RequestStates
  <2>3. Current(q) \in Row
    BY <1>0, <2>1, <2>2 DEF InProgress, Current, Request
  <2>4. r \in Request /\ r.pc = "loaded" /\ r.loaded \in Row
        /\ r.product = req[q].product /\ r.action = req[q].action
        /\ r.content = req[q].content
    BY <2>2, <2>3 DEF Request
  <2> HIDE DEF r
  <2>5. /\ record[r.product] # NoRow /\ r.action \in Actions
        /\ r.action = "edit" => r.content \in Contents
    BY <2>1, <2>4 DEF InProgress
  <2>6. req' \in [Requests -> Request \cup {Idle}] /\ InProgress'
    BY <2>1, <2>4, <2>5, OneRequest
  <2> QED
    BY <1>0, <2>1, <2>6 DEF TypeOK
<1>4. ASSUME NEW q \in Requests, Refuse(q) PROVE ReviewInv'
  <2>1. req' = [req EXCEPT ![q] = Idle] /\ UNCHANGED <<record, checkpoint, events, gate, cut>>
    BY <1>4 DEF Refuse
  <2>2. req' \in [Requests -> Request \cup {Idle}] /\ InProgress'
    BY <2>1, OneRequest, RequestStates
  <2> QED
    BY <1>0, <2>1, <2>2 DEF TypeOK
<1>5. ASSUME NEW q \in Requests, ReturnCurrent(q) PROVE ReviewInv'
  <2>1. /\ req' = [req EXCEPT ![q] = AfterDecision(req[q])] /\ req[q].pc = "read"
        /\ UNCHANGED <<record, checkpoint, events, gate, cut>>
    BY <1>5 DEF ReturnCurrent
  <2>2. AfterDecision(req[q]) \in Request \cup {Idle}
        /\ AfterDecision(req[q]).pc \notin {"read", "loaded"}
    BY <1>0, <2>1, RequestStates, AfterDecisionType
  <2>3. req' \in [Requests -> Request \cup {Idle}] /\ InProgress'
    BY <2>1, <2>2, OneRequest
  <2> QED
    BY <1>0, <2>1, <2>3 DEF TypeOK
<1>6. ASSUME NEW q \in Requests, Commit(q) PROVE ReviewInv'
  <2> DEFINE r == req[q]
             p == r.product
             new == Decided(r)
             row == Flushed(record[p], r.loaded, new)
  <2>1. /\ r.pc = "loaded"
        /\ record' = [record EXCEPT ![p] = row]
        /\ checkpoint' = [checkpoint EXCEPT ![p] = Upserted(checkpoint[p], new.payload)]
        /\ events' = [events EXCEPT ![p] = Append(events[p], DecisionEvent(r))]
        /\ req' = [req EXCEPT ![q] = AfterDecision(r)]
        /\ UNCHANGED <<gate, cut>>
    BY <1>6 DEF Commit
  <2>2. /\ r \in Request /\ p \in Products /\ record[p] \in Row
        /\ r.action \in Actions /\ r.loaded \in Row
        /\ r.action = "edit" => r.content \in Contents
    BY <1>0, <2>1, RequestStates DEF InProgress, Request
  <2> HIDE DEF r
  <2>3. new \in Row /\ new.payload \in Payload /\ DecisionEvent(r) \in Event
    BY <2>2, DecidedRow
  <2> HIDE DEF p, new
  <2>4. row \in Row
    BY <2>2, <2>3, FlushedRow
  <2>5. Upserted(checkpoint[p], new.payload) \in Checkpoint \cup {NoCheckpoint}
    BY <1>0, <2>2, <2>3, UpsertedCheckpoint
  <2>6. Append(events[p], DecisionEvent(r)) \in Seq(Event)
    BY <1>0, <2>2, <2>3
  <2> HIDE DEF row
  <2>7. \A k \in Products : record'[k] # NoRow \/ record'[k] = record[k]
    BY <1>0, <2>1, <2>4, RequestStates
  <2>8. \A k \in Products : record[k] # NoRow => record'[k] # NoRow
    BY <1>0, <2>1, <2>4, RequestStates
  <2>9. AfterDecision(r) \in Request \cup {Idle} /\ AfterDecision(r).pc \notin {"read", "loaded"}
    BY <2>2, AfterDecisionType
  <2>10. req' \in [Requests -> Request \cup {Idle}] /\ InProgress'
    BY <2>1, <2>7, <2>8, <2>9, OneRequest
  <2> QED
    BY <1>0, <2>1, <2>4, <2>5, <2>6, <2>10 DEF TypeOK
<1>7. ASSUME NEW q \in Requests, StartGate(q) \/ ResumeGate(q) \/ DeleteThread(q) \/ RestartGate(q)
      PROVE  ReviewInv'
  <2>1. PICK r : req' = [req EXCEPT ![q] = r]
                 /\ r \in {Idle, [req[q] EXCEPT !.pc = "resumed"],
                           [req[q] EXCEPT !.pc = "deleted"]}
    BY <1>7 DEF StartGate, ResumeGate, DeleteThread, RestartGate
  <2>2. /\ req[q].pc \in {"saved", "decided", "resumed", "deleted"}
        /\ UNCHANGED <<record, checkpoint, events>> /\ cut' \in SUBSET Products
    BY <1>0, <1>7 DEF StartGate, ResumeGate, DeleteThread, RestartGate
  <2>3. req[q] \in Request
    BY <1>0, <2>2, RequestStates
  <2>4. r \in Request \cup {Idle} /\ r.pc \notin {"read", "loaded"}
    BY <2>1, <2>3, RequestStates DEF Request
  <2>5. req' \in [Requests -> Request \cup {Idle}] /\ InProgress'
    BY <2>1, <2>2, <2>4, OneRequest
  <2>6. gate' \in [Products -> {"none", "pending", "finished"}]
    BY <1>0, <1>7 DEF StartGate, ResumeGate, DeleteThread, RestartGate
  <2> QED
    BY <1>0, <2>2, <2>5, <2>6 DEF TypeOK
<1>8. ASSUME NEW q \in Requests, Lose(q) PROVE ReviewInv'
  <2>1. /\ UNCHANGED <<record, checkpoint, events, gate>>
        /\ req' = [req EXCEPT ![q] = Idle] /\ req[q] \in Request
        /\ cut' = cut \/ cut' = cut \cup {req[q].product}
    BY <1>0, <1>8, RequestStates DEF Lose
  <2>2. cut' \in SUBSET Products
    BY <1>0, <2>1 DEF Request
  <2>3. req' \in [Requests -> Request \cup {Idle}] /\ InProgress'
    BY <2>1, OneRequest, RequestStates
  <2> QED
    BY <1>0, <2>1, <2>2, <2>3 DEF TypeOK
<1>9. CASE UNCHANGED vars
  BY <1>9 DEF vars, TypeOK, InProgress
<1> QED
  BY <1>1, <1>2, <1>3, <1>4, <1>5, <1>6, <1>7, <1>8, <1>9 DEF Next, Begin

\* Types, and what the requests in progress have loaded.
LEMMA ReviewInvariant == Spec => []ReviewInv
BY InitReviewInv, ReviewStep, PTL DEF Spec

\* Every stored row, every event and every request has its type, however requests
\* overlap and are lost.
THEOREM TypeCorrect == Spec => []TypeOK
BY ReviewInvariant, PTL DEF ReviewInv

-----------------------------------------------------------------------------
(***************************************************************************)
(* How one step may change what is stored of a product: not at all, by     *)
(* run_workflow, or by the decision of one request.                        *)
(***************************************************************************)
Kept(p) == record'[p] = record[p] /\ checkpoint'[p] = checkpoint[p] /\ events'[p] = events[p]

SavedNow(p) ==
  /\ record[p] = NoRow /\ events'[p] = events[p]
  /\ record'[p].status \in {"draft", "needs_review"}
  /\ record'[p].payload \in Payload /\ record'[p].payload.status = record'[p].status
  /\ checkpoint'[p] = Upserted(checkpoint[p], record'[p].payload)

DecidedNow(q, p) ==
  LET r == req[q]
  IN  /\ r.pc = "loaded" /\ r.product = p /\ Commit(q)
      /\ r \in Request /\ r.action \in Actions /\ r.loaded \in Row
      /\ Decided(r).payload \in Payload /\ Decided(r).payload.status = Policy[r.action].to
      /\ record[p] \in Row
      /\ record'[p].status = IF Policy[r.action].to = r.loaded.status
                               THEN record[p].status ELSE Policy[r.action].to
      /\ record'[p].payload = IF Decided(r).payload = r.loaded.payload
                                THEN record[p].payload ELSE Decided(r).payload
      /\ checkpoint'[p] = Upserted(checkpoint[p], Decided(r).payload)
      /\ events'[p] = Append(events[p], DecisionEvent(r))
      /\ DecisionEvent(r).action = r.action
      /\ DecisionEvent(r).before = ProductHash(r.loaded.payload)
      /\ DecisionEvent(r).after = ProductHash(Decided(r).payload)

\* The row and the history of a product change in a save or in a commit only.
LEMMA StoredChange ==
  ASSUME ReviewInv, [Next]_vars, NEW p \in Products
  PROVE  Kept(p) \/ SavedNow(p) \/ \E q \in Requests : DecidedNow(q, p)
<1> USE DEF ReviewInv
<1>0. /\ record \in [Products -> Row \cup {NoRow}]
      /\ checkpoint \in [Products -> Checkpoint \cup {NoCheckpoint}]
      /\ events \in [Products -> Seq(Event)]
      /\ req \in [Requests -> Request \cup {Idle}]
  BY DEF TypeOK
<1>1. ASSUME NEW q \in Requests, NEW k \in Products, SaveProduct(q, k)
      PROVE  Kept(p) \/ SavedNow(p)
  <2>1. PICK s \in {"draft", "needs_review"}, c \in Contents :
          LET payload == [status |-> s, content |-> c]
          IN  /\ record' = [record EXCEPT ![k] =
                   [status |-> s, payload |-> payload, approvedBy |-> NoActor]]
              /\ checkpoint' = [checkpoint EXCEPT ![k] = Upserted(@, payload)]
    BY <1>1 DEF SaveProduct
  <2> DEFINE payload == [status |-> s, content |-> c]
             row == [status |-> s, payload |-> payload, approvedBy |-> NoActor]
  <2>2. /\ payload \in Payload /\ payload.status = s
        /\ row.status = s /\ row.payload = payload
    BY DEF Payload, Statuses
  <2>3. /\ record' = [record EXCEPT ![k] = row]
        /\ checkpoint' = [checkpoint EXCEPT ![k] = Upserted(checkpoint[k], payload)]
        /\ record[k] = NoRow /\ events' = events
    BY <1>1, <2>1 DEF SaveProduct
  <2> HIDE DEF payload, row
  <2> QED
    BY <1>0, <2>2, <2>3 DEF Kept, SavedNow
<1>2. ASSUME NEW q \in Requests, Commit(q)
      PROVE  Kept(p) \/ DecidedNow(q, p)
  <2> DEFINE r == req[q]
             k == r.product
             new == Decided(r)
             row == Flushed(record[k], r.loaded, new)
  <2>1. /\ r.pc = "loaded"
        /\ record' = [record EXCEPT ![k] = row]
        /\ checkpoint' = [checkpoint EXCEPT ![k] = Upserted(checkpoint[k], new.payload)]
        /\ events' = [events EXCEPT ![k] = Append(events[k], DecisionEvent(r))]
    BY <1>2 DEF Commit
  <2>2. /\ r \in Request /\ k \in Products /\ record[k] \in Row
        /\ r.action \in Actions /\ r.loaded \in Row
        /\ r.action = "edit" => r.content \in Contents
    BY <1>0, <2>1, RequestStates DEF InProgress, Request
  <2> HIDE DEF r
  <2>3. /\ new \in Row /\ new.payload \in Payload
        /\ new.status = Policy[r.action].to /\ new.payload.status = Policy[r.action].to
        /\ DecisionEvent(r).action = r.action
        /\ DecisionEvent(r).before = ProductHash(r.loaded.payload)
        /\ DecisionEvent(r).after = ProductHash(new.payload)
    BY <2>2, DecidedRow
  <2>4. k # p => Kept(p)
    BY <2>1 DEF Kept
  <2>5. ASSUME k = p PROVE DecidedNow(q, p)
    <3> HIDE DEF k, new
    <3>1. /\ row.status = IF new.status = r.loaded.status THEN record[k].status ELSE new.status
          /\ row.payload = IF new.payload = r.loaded.payload THEN record[k].payload ELSE new.payload
      BY <2>2, <2>3, FlushedRow
    <3> HIDE DEF row
    <3>2. /\ record'[p] = row /\ checkpoint'[p] = Upserted(checkpoint[p], new.payload)
          /\ events'[p] = Append(events[p], DecisionEvent(r))
      BY <1>0, <2>1, <2>2, <2>5
    <3> QED
      BY <1>2, <2>1, <2>2, <2>3, <2>5, <3>1, <3>2 DEF DecidedNow, r, k, new
  <2> QED
    BY <2>4, <2>5
<1>3. ASSUME UNCHANGED <<record, checkpoint, events>> PROVE Kept(p)
  BY <1>3 DEF Kept
<1> QED
  BY <1>1, <1>2, <1>3
     DEF Next, Begin, ReadCheckpoint, Load, Refuse, ReturnCurrent, StartGate, ResumeGate,
         DeleteThread, RestartGate, Lose, vars

\* A product that reads approved was approved with the hash it has, however many
\* decisions on it were loaded before the other ones committed (decide).
THEOREM ApprovalsHaveEvents == Spec => []ApprovedHasEvent
<1>1. Init => ApprovedHasEvent
  BY DEF Init, ApprovedHasEvent, NoRow, Unborn
<1>2. ReviewInv /\ ApprovedHasEvent /\ [Next]_vars => ApprovedHasEvent'
  <2> SUFFICES ASSUME ReviewInv, ApprovedHasEvent, [Next]_vars,
                      NEW p \in Products, record'[p].payload.status = "approved"
               PROVE  \E i \in DOMAIN events'[p] :
                        /\ events'[p][i].action \in {"approve", "waive_with_reason"}
                        /\ events'[p][i].after = ProductHash(record'[p].payload)
    BY DEF ApprovedHasEvent
  <2>1. events[p] \in Seq(Event)
    BY DEF ReviewInv, TypeOK
  <2>2. CASE Kept(p)
    BY <2>2 DEF Kept, ApprovedHasEvent
  <2>3. CASE SavedNow(p)
    BY <2>3 DEF SavedNow
  <2>4. ASSUME NEW q \in Requests, DecidedNow(q, p)
        PROVE  \E i \in DOMAIN events'[p] :
                 /\ events'[p][i].action \in {"approve", "waive_with_reason"}
                 /\ events'[p][i].after = ProductHash(record'[p].payload)
    <3> DEFINE r == req[q]
               e == DecisionEvent(r)
               n == Len(events[p])
    <3>1. events'[p] = Append(events[p], e)
      BY <2>4 DEF DecidedNow
    <3>2. /\ r.action \in Actions /\ Decided(r).payload.status = Policy[r.action].to
          /\ e.action = r.action /\ e.after = ProductHash(Decided(r).payload)
          /\ \/ record'[p].payload = record[p].payload
             \/ record'[p].payload = Decided(r).payload
      BY <2>4 DEF DecidedNow
    <3> HIDE DEF e, r
    <3>3. /\ DOMAIN events[p] = 1..n /\ n \in Nat /\ DOMAIN events'[p] = 1..(n + 1)
          /\ events'[p][n + 1] = e /\ \A i \in 1..n : events'[p][i] = events[p][i]
      BY <2>1, <3>1
    <3> HIDE DEF n
    <3>4. CASE record'[p].payload = record[p].payload
      <4>1. PICK i \in DOMAIN events[p] :
                   /\ events[p][i].action \in {"approve", "waive_with_reason"}
                   /\ events[p][i].after = ProductHash(record[p].payload)
        BY <3>4 DEF ApprovedHasEvent
      <4>2. i \in DOMAIN events'[p] /\ events'[p][i] = events[p][i]
        BY <3>3
      <4> QED
        BY <3>4, <4>1, <4>2
    <3>5. CASE record'[p].payload = Decided(r).payload
      <4>1. r.action \in {"approve", "waive_with_reason"}
        BY <3>2, <3>5, PolicyOf
      <4>2. n + 1 \in DOMAIN events'[p]
        BY <3>3
      <4> QED
        BY <3>2, <3>3, <3>5, <4>1, <4>2
    <3> QED
      BY <3>2, <3>4, <3>5
  <2> QED
    BY <2>2, <2>3, <2>4, StoredChange
<1> QED
  BY <1>1, <1>2, ReviewInvariant, PTL DEF Spec

\* History is append-only, and a change of a saved product comes with the event
\* that names it.
THEOREM TransitionsHaveEvents == Spec => EventPerTransition
<1> DEFINE Recorded ==
      \A p \in Products :
        /\ Len(events[p]) <= Len(events'[p])
        /\ SubSeq(events'[p], 1, Len(events[p])) = events[p]
        /\ (Saved(p) /\ record'[p].payload # record[p].payload) =>
             /\ Len(events'[p]) = Len(events[p]) + 1
             /\ events'[p][Len(events'[p])].after = ProductHash(record'[p].payload)
<1>1. ReviewInv /\ [Next]_vars => [Recorded]_vars
  <2> SUFFICES ASSUME ReviewInv, [Next]_vars, NEW p \in Products
               PROVE  /\ Len(events[p]) <= Len(events'[p])
                      /\ SubSeq(events'[p], 1, Len(events[p])) = events[p]
                      /\ (Saved(p) /\ record'[p].payload # record[p].payload) =>
                           /\ Len(events'[p]) = Len(events[p]) + 1
                           /\ events'[p][Len(events'[p])].after = ProductHash(record'[p].payload)
    OBVIOUS
  <2>1. events[p] \in Seq(Event)
    BY DEF ReviewInv, TypeOK
  <2>2. SubSeq(events[p], 1, Len(events[p])) = events[p]
    BY <2>1
  <2>3. CASE Kept(p)
    BY <2>1, <2>2, <2>3 DEF Kept
  <2>4. CASE SavedNow(p)
    BY <2>1, <2>2, <2>4 DEF SavedNow, Saved
  <2>5. ASSUME NEW q \in Requests, DecidedNow(q, p)
        PROVE  /\ Len(events'[p]) = Len(events[p]) + 1
               /\ SubSeq(events'[p], 1, Len(events[p])) = events[p]
               /\ record'[p].payload # record[p].payload =>
                    events'[p][Len(events'[p])].after = ProductHash(record'[p].payload)
    <3> DEFINE e == DecisionEvent(req[q])
    <3>1. /\ events'[p] = Append(events[p], e) /\ e \in Event
          /\ e.after = ProductHash(Decided(req[q]).payload)
          /\ \/ record'[p].payload = record[p].payload
             \/ record'[p].payload = Decided(req[q]).payload
      <4>1. e \in Event
        BY <2>5, DecidedRow DEF DecidedNow, ReviewInv, InProgress
      <4> QED
        BY <2>5, <4>1 DEF DecidedNow
    <3> HIDE DEF e
    <3>2. /\ Len(events'[p]) = Len(events[p]) + 1
          /\ events'[p][Len(events'[p])] = e
          /\ SubSeq(events'[p], 1, Len(events[p])) = events[p]
      BY <2>1, <3>1, AppendProperties
    <3> QED
      BY <3>1, <3>2
  <2> QED
    BY <2>1, <2>3, <2>4, <2>5, StoredChange
<1> QED
  BY <1>1, ReviewInvariant, PTL DEF Spec, EventPerTransition

-----------------------------------------------------------------------------
(***************************************************************************)
(* One request at a time, and any of them may be lost.  What a decision *)
(* loaded is then what it overwrites, so the stores and the history keep   *)
(* telling one story.                                                      *)
(***************************************************************************)
OneAtATime == \A q, r \in Requests : q = r

LoadedIsCurrent ==
  \A q \in Requests : req[q].pc = "loaded" => req[q].loaded = record[req[q].product]

UnsavedIsBlank ==
  \A p \in Products : record[p] = NoRow => checkpoint[p] = NoCheckpoint /\ events[p] = <<>>

StoryInv == ReviewInv /\ LoadedIsCurrent /\ UnsavedIsBlank /\ StoresAgree /\ EventChain

\* For requests one at a time, a row stays as it was loaded until the commit.
LEMMA LoadedStep ==
  ASSUME OneAtATime, StoryInv, [Next]_vars
  PROVE  LoadedIsCurrent'
<1> SUFFICES ASSUME NEW q \in Requests, req'[q].pc = "loaded"
             PROVE  req'[q].loaded = record'[req'[q].product]
  BY DEF LoadedIsCurrent
<1>0. req \in [Requests -> Request \cup {Idle}] /\ \A r \in Requests : r = q
  BY DEF StoryInv, ReviewInv, TypeOK, OneAtATime
<1>1. CASE Load(q)
  <2>1. req[q] \in Request
    BY <1>0, <1>1, RequestStates DEF Load
  <2>2. req'[q] = [req[q] EXCEPT !.pc = "loaded", !.loaded = Current(q)] /\ record' = record
    BY <1>0, <1>1 DEF Load
  <2>3. req'[q].loaded = Current(q) /\ req'[q].product = req[q].product
    BY <2>1, <2>2 DEF Request
  <2> QED
    BY <2>2, <2>3 DEF Current
<1>2. ASSUME NEW p \in Products, SaveProduct(q, p) PROVE FALSE
  BY <1>0, <1>2 DEF SaveProduct, Idle
<1>3. ASSUME NEW p \in Products, NEW action \in Actions, ReadCheckpoint(q, p, action)
      PROVE  FALSE
  BY <1>0, <1>3 DEF ReadCheckpoint, Idle
<1>4. ASSUME Refuse(q) \/ StartGate(q) \/ RestartGate(q) \/ Lose(q) PROVE FALSE
  BY <1>0, <1>4, RequestStates DEF Refuse, StartGate, RestartGate, Lose
<1>5. ASSUME ReturnCurrent(q) \/ Commit(q) PROVE FALSE
  <2>1. req'[q] = AfterDecision(req[q]) /\ req[q] \in Request
    BY <1>0, <1>5, RequestStates DEF ReturnCurrent, Commit
  <2> QED
    BY <2>1, AfterDecisionType
<1>6. ASSUME ResumeGate(q) \/ DeleteThread(q) PROVE FALSE
  <2>1. req[q] \in Request
    BY <1>0, <1>6, RequestStates DEF ResumeGate, DeleteThread
  <2>2. req'[q] \in {Idle, [req[q] EXCEPT !.pc = "resumed"], [req[q] EXCEPT !.pc = "deleted"]}
    BY <1>0, <1>6 DEF ResumeGate, DeleteThread
  <2> QED
    BY <2>1, <2>2, RequestStates DEF Request
<1>7. CASE UNCHANGED vars
  BY <1>7 DEF vars, StoryInv, LoadedIsCurrent
<1> QED
  BY <1>0, <1>1, <1>2, <1>3, <1>4, <1>5, <1>6, <1>7 DEF Next, Begin

\* What is written to a checkpoint names the payload.
LEMMA UpsertedAgrees ==
  ASSUME NEW row, NEW payload \in Payload,
         \/ row = NoCheckpoint
         \/ \E old \in Payload : row.status = old.status /\ row.hash = ProductHash(old)
  PROVE  /\ Upserted(row, payload).status = payload.status
         /\ Upserted(row, payload).hash = ProductHash(payload)
<1>1. CASE row.hash = ProductHash(payload)
  <2>1. row # NoCheckpoint
    BY <1>1, HashAssumption DEF NoCheckpoint, Hashes
  <2>2. PICK old \in Payload : row.status = old.status /\ row.hash = ProductHash(old)
    BY <2>1
  <2>3. old.status = payload.status
    BY <1>1, <2>2 DEF ProductHash
  <2> QED
    BY <1>1, <2>2, <2>3 DEF Upserted
<1>2. CASE row.hash # ProductHash(payload)
  BY <1>2 DEF Upserted
<1> QED
  BY <1>1, <1>2

\* For requests one at a time, every step keeps stores and events together.
LEMMA StoryStep ==
  ASSUME OneAtATime, StoryInv, [Next]_vars
  PROVE  (UnsavedIsBlank /\ StoresAgree /\ EventChain)'
<1> DEFINE Chained(history, payload) ==
      LET n == Len(history)
      IN  /\ \A i \in 1 .. n - 1 : history[i].after = history[i + 1].before
          /\ n > 0 => history[n].after = ProductHash(payload)
<1> SUFFICES ASSUME NEW p \in Products
             PROVE  /\ record'[p] = NoRow => checkpoint'[p] = NoCheckpoint /\ events'[p] = <<>>
                    /\ record'[p] # NoRow =>
                         /\ record'[p].status = record'[p].payload.status
                         /\ checkpoint'[p].status = record'[p].payload.status
                         /\ checkpoint'[p].hash = ProductHash(record'[p].payload)
                    /\ Chained(events'[p], record'[p].payload)
  BY DEF UnsavedIsBlank, StoresAgree, EventChain, Saved
<1>0. /\ ReviewInv /\ events[p] \in Seq(Event) /\ record[p] \in Row \cup {NoRow}
      /\ record[p] = NoRow => checkpoint[p] = NoCheckpoint /\ events[p] = <<>>
      /\ record[p] # NoRow =>
           /\ record[p].status = record[p].payload.status
           /\ checkpoint[p].status = record[p].payload.status
           /\ checkpoint[p].hash = ProductHash(record[p].payload)
      /\ Chained(events[p], record[p].payload)
  BY DEF StoryInv, ReviewInv, TypeOK, UnsavedIsBlank, StoresAgree, EventChain, Saved
<1>1. CASE Kept(p)
  BY <1>0, <1>1 DEF Kept
<1>2. CASE SavedNow(p)
  <2>1. /\ record'[p].payload \in Payload /\ record'[p].payload.status = record'[p].status
        /\ checkpoint[p] = NoCheckpoint /\ events'[p] = <<>>
        /\ checkpoint'[p] = Upserted(checkpoint[p], record'[p].payload)
        /\ record'[p] # NoRow
    BY <1>0, <1>2, RequestStates DEF SavedNow
  <2>2. /\ checkpoint'[p].status = record'[p].payload.status
        /\ checkpoint'[p].hash = ProductHash(record'[p].payload)
    BY <2>1, UpsertedAgrees
  <2> QED
    BY <2>1, <2>2
<1>3. ASSUME NEW q \in Requests, DecidedNow(q, p)
      PROVE  /\ record'[p] # NoRow
             /\ record'[p].status = record'[p].payload.status
             /\ checkpoint'[p].status = record'[p].payload.status
             /\ checkpoint'[p].hash = ProductHash(record'[p].payload)
             /\ Chained(events'[p], record'[p].payload)
  <2> DEFINE new == Decided(req[q]).payload
             to == Policy[req[q].action].to
             e == DecisionEvent(req[q])
             n == Len(events[p])
  <2>1. /\ req[q].loaded = record[p] /\ record[p] \in Row /\ record[p] # NoRow
        /\ new \in Payload /\ new.status = to /\ to \in Statuses
    BY <1>3, PolicyOf, RequestStates DEF DecidedNow, StoryInv, LoadedIsCurrent
  <2>2. /\ record'[p].status = IF to = req[q].loaded.status THEN record[p].status ELSE to
        /\ record'[p].payload = IF new = req[q].loaded.payload THEN record[p].payload ELSE new
        /\ checkpoint'[p] = Upserted(checkpoint[p], new)
        /\ events'[p] = Append(events[p], e)
        /\ e.before = ProductHash(req[q].loaded.payload) /\ e.after = ProductHash(new)
    BY <1>3 DEF DecidedNow
  <2> HIDE DEF new, to, e
  <2>3. record'[p].status = to /\ record'[p].payload = new
    BY <2>1, <2>2
  <2>4. record[p].payload \in Payload
    BY <2>1 DEF Row
  <2>5. checkpoint'[p].status = new.status /\ checkpoint'[p].hash = ProductHash(new)
    BY <1>0, <2>1, <2>2, <2>4, UpsertedAgrees
  <2>6. /\ n \in Nat /\ Len(events'[p]) = n + 1 /\ events'[p][n + 1] = e
        /\ \A i \in 1..n : events'[p][i] = events[p][i]
    BY <1>0, <2>2
  <2>7. /\ \A i \in 1 .. n - 1 : events[p][i].after = events[p][i + 1].before
        /\ n > 0 => events[p][n].after = e.before
    BY <1>0, <2>1, <2>2
  <2> HIDE DEF n
  <2>8. ASSUME NEW i \in 1..n PROVE events'[p][i].after = events'[p][i + 1].before
    <3>1. CASE i = n
      BY <2>6, <2>7, <3>1
    <3>2. CASE i # n
      <4>1. i \in 1 .. n - 1 /\ i + 1 \in 1..n
        BY <2>6, <3>2
      <4> QED
        BY <2>6, <2>7, <4>1
    <3> QED
      BY <3>1, <3>2
  <2>9. Chained(events'[p], new)
    BY <2>2, <2>6, <2>8
  <2>10. record'[p] # NoRow
    BY <2>1, <2>3, RequestStates DEF Statuses
  <2> QED
    BY <2>1, <2>3, <2>5, <2>9, <2>10
<1> HIDE DEF Chained
<1> QED
  BY <1>0, <1>1, <1>2, <1>3, StoredChange

\* The invariant of requests one at a time.
LEMMA StoryInvariant == ASSUME OneAtATime PROVE Spec => []StoryInv
<1>1. Init => StoryInv
  BY InitReviewInv, RequestStates
     DEF Init, StoryInv, LoadedIsCurrent, UnsavedIsBlank, StoresAgree, EventChain, Saved
<1>2. StoryInv /\ [Next]_vars => StoryInv'
  BY ReviewStep, LoadedStep, StoryStep DEF StoryInv
<1> QED
  BY <1>1, <1>2, PTL DEF Spec

\* Row, payload and checkpoint agree between any two steps of a request, and after
\* it is lost at any of them.
THEOREM StoresAlwaysAgree ==
  ASSUME OneAtATime
  PROVE  Spec => []StoresAgree
BY StoryInvariant, PTL DEF StoryInv

\* The events of a product lead from hash to hash, and the last one to the product.
THEOREM EventsFormAChain ==
  ASSUME OneAtATime
  PROVE  Spec => []EventChain
BY StoryInvariant, PTL DEF StoryInv

(***************************************************************************)
(* The gate.  An interrupt belongs to a product that needs its review, or  *)
(* to a decision that is on its way to resume it; a request that starts or *)
(* restarts a gate does so for a product that needs a review; a decision   *)
(* that will not go to the gate was on a product that had no interrupt.    *)
(***************************************************************************)
NeedsReview(p) == record[p].payload.status = "needs_review"

GateOwned ==
  \A p \in Products : gate[p] = "pending" =>
    NeedsReview(p) \/ p \in cut \/ \E q \in Requests : req[q].pc = "decided" /\ req[q].product = p

GateWanted ==
  \A q \in Requests : LET r == req[q] IN
    \/ r.pc \in {"saved", "resumed", "deleted"}
    \/ r.pc = "decided" /\ r.action = "edit"
    => NeedsReview(r.product)

GatePassed ==
  \A q \in Requests : LET r == req[q] IN
    r.pc \in {"read", "loaded"} /\ ~r.reviewable => ~NeedsReview(r.product)

GateInv == StoryInv /\ GateOwned /\ GateWanted /\ GatePassed

\* The one request there is, from before a step to after it.
GateStepOf(q) ==
  LET r == req[q]
      s == req'[q]
      p == r.product
  IN  \* the whole step leaves it alone, or loses it
      \/ req' = req /\ gate' = gate /\ record' = record /\ cut' = cut
      \/ /\ s = Idle /\ gate' = gate /\ record' = record /\ cut \subseteq cut'
         /\ r.pc = "decided" => p \in cut'
      \* it begins
      \/ /\ r.pc = "idle" /\ gate' = gate /\ cut' = cut
         /\ \/ /\ s.pc \in {"idle", "saved"}
               /\ s.pc = "saved" => record'[s.product].payload.status = "needs_review"
               /\ \A k \in Products : record'[k] = record[k] \/ record[k] = NoRow
            \/ /\ s.pc = "read" /\ record' = record
               /\ ~s.reviewable => ~NeedsReview(s.product)
      \* it decides
      \/ /\ r.pc = "read" /\ gate' = gate /\ record' = record /\ cut' = cut
         /\ \/ s = Idle
            \/ s.pc = "loaded" /\ s.product = p /\ s.reviewable = r.reviewable
            \/ s.pc = "decided" /\ s.product = p /\ s.action # "edit"
      \/ /\ r.pc = "loaded" /\ gate' = gate /\ cut' = cut /\ DecidedNow(q, p)
         /\ s = AfterDecision(r)
         /\ \A k \in Products : k # p => record'[k] = record[k]
      \* it goes through the gate
      \/ /\ r.pc \in {"saved", "deleted"} /\ s = Idle
         /\ gate' = [gate EXCEPT ![p] = "pending"] /\ record' = record /\ cut' = cut
      \/ /\ r.pc \in {"decided", "resumed"} /\ record' = record /\ cut \ {p} \subseteq cut'
         /\ \E g \in {"none", "finished", gate[p]} :
              gate' = [gate EXCEPT ![p] = g] /\ gate'[p] # "pending"
         /\ \/ s = Idle
            \/ /\ s.pc \in {"resumed", "deleted"} /\ s.product = p
               /\ r.pc = "decided" => r.action = "edit"

\* What each step does to the threads of the gate.
LEMMA GateStep ==
  ASSUME OneAtATime, StoryInv, [Next]_vars, NEW q \in Requests
  PROVE  GateStepOf(q)
<1>0. /\ record \in [Products -> Row \cup {NoRow}]
      /\ gate \in [Products -> {"none", "pending", "finished"}]
      /\ req \in [Requests -> Request \cup {Idle}] /\ cut \in SUBSET Products
      /\ \A r \in Requests : r = q
      /\ req[q] # Idle => req[q] \in Request /\ req[q].product \in Products
  BY RequestStates DEF StoryInv, ReviewInv, TypeOK, OneAtATime, Request
<1>1. ASSUME NEW p \in Products, SaveProduct(q, p) PROVE GateStepOf(q)
  <2>1. PICK s \in {"draft", "needs_review"}, c \in Contents :
          LET payload == [status |-> s, content |-> c]
          IN  /\ record' = [record EXCEPT ![p] =
                   [status |-> s, payload |-> payload, approvedBy |-> NoActor]]
              /\ req' = [req EXCEPT ![q] =
                   IF s = "needs_review"
                     THEN [Idle EXCEPT !.pc = "saved", !.product = p, !.action = "run"]
                     ELSE Idle]
    BY <1>1 DEF SaveProduct
  <2> DEFINE row == [status |-> s, payload |-> [status |-> s, content |-> c],
                     approvedBy |-> NoActor]
             run == [Idle EXCEPT !.pc = "saved", !.product = p, !.action = "run"]
  <2>2. row.payload.status = s /\ run.pc = "saved" /\ run.product = p
    BY DEF Idle
  <2>3. /\ record' = [record EXCEPT ![p] = row] /\ record[p] = NoRow
        /\ req'[q] = IF s = "needs_review" THEN run ELSE Idle
        /\ req[q] = Idle /\ gate' = gate /\ cut' = cut
    BY <1>0, <1>1, <2>1 DEF SaveProduct
  <2> HIDE DEF row, run
  <2>4. \A k \in Products : record'[k] = record[k] \/ record[k] = NoRow
    BY <1>0, <2>3
  <2>5. record'[p].payload.status = s
    BY <1>0, <2>2, <2>3
  <2> QED
    BY <2>2, <2>3, <2>4, <2>5, RequestStates DEF GateStepOf, NeedsReview
<1>2. ASSUME NEW p \in Products, NEW action \in Actions, ReadCheckpoint(q, p, action)
      PROVE  GateStepOf(q)
  <2>1. /\ req'[q].pc = "read" /\ req'[q].product = p
        /\ req'[q].reviewable = (checkpoint[p].status = "needs_review")
        /\ req[q] = Idle /\ record[p] # NoRow
        /\ gate' = gate /\ record' = record /\ cut' = cut
    BY <1>0, <1>2 DEF ReadCheckpoint, Idle
  <2>2. checkpoint[p].status = record[p].payload.status
    BY <2>1 DEF StoryInv, StoresAgree, Saved
  <2> QED
    BY <2>1, <2>2, RequestStates DEF GateStepOf, NeedsReview
<1>3. CASE Load(q)
  <2>1. /\ req[q].pc = "read" /\ req[q] \in Request
        /\ req'[q] = [req[q] EXCEPT !.pc = "loaded", !.loaded = Current(q)]
        /\ gate' = gate /\ record' = record /\ cut' = cut
    BY <1>0, <1>3, RequestStates DEF Load
  <2>2. /\ req'[q].pc = "loaded" /\ req'[q].product = req[q].product
        /\ req'[q].reviewable = req[q].reviewable
    BY <2>1 DEF Request
  <2> QED
    BY <2>1, <2>2 DEF GateStepOf
<1>4. CASE Refuse(q)
  BY <1>0, <1>4 DEF Refuse, GateStepOf
<1>5. CASE ReturnCurrent(q)
  <2>1. /\ req[q].pc = "read" /\ req[q] \in Request /\ req[q].action # "edit"
        /\ req'[q] = AfterDecision(req[q])
        /\ gate' = gate /\ record' = record /\ cut' = cut
    BY <1>0, <1>5, RequestStates DEF ReturnCurrent, AlreadyDone
  <2>2. \/ req'[q] = Idle
        \/ /\ req'[q].pc = "decided" /\ req'[q].product = req[q].product
           /\ req'[q].action = req[q].action
    BY <2>1 DEF AfterDecision, Request
  <2> QED
    BY <2>1, <2>2 DEF GateStepOf
<1>6. CASE Commit(q)
  <2> DEFINE p == req[q].product
  <2>1. /\ req[q].pc = "loaded" /\ req'[q] = AfterDecision(req[q]) /\ p \in Products
        /\ gate' = gate /\ cut' = cut
        /\ \A k \in Products : k # p => record'[k] = record[k]
        /\ events'[p] = Append(events[p], DecisionEvent(req[q]))
    BY <1>0, <1>6, RequestStates DEF Commit, StoryInv, ReviewInv, TypeOK
  <2>2. DecidedNow(q, p)
    <3>1. req[q] \in Request /\ InProgress /\ record[p] # NoRow /\ ReviewInv
      BY <1>0, <2>1, RequestStates DEF StoryInv, ReviewInv, InProgress
    <3>2. events[p] \in Seq(Event)
      BY <2>1 DEF StoryInv, ReviewInv, TypeOK
    <3>3. ~Kept(p)
      <4>1. Len(events'[p]) = Len(events[p]) + 1 /\ Len(events[p]) \in Nat
        BY <2>1, <3>2
      <4> QED
        BY <4>1 DEF Kept
    <3> QED
      BY <1>0, <2>1, <3>1, <3>3, StoredChange DEF SavedNow
  <2> QED
    BY <2>1, <2>2 DEF GateStepOf
<1>7. CASE StartGate(q) \/ RestartGate(q)
  BY <1>0, <1>7 DEF StartGate, RestartGate, GateStepOf
<1>8. CASE ResumeGate(q)
  <2> DEFINE p == req[q].product
             g == IF gate[p] = "pending" THEN "finished" ELSE gate[p]
  <2>1. /\ req[q].pc = "decided" /\ req[q] \in Request /\ p \in Products
        /\ gate' = [gate EXCEPT ![p] = g] /\ record' = record /\ cut' = cut \ {p}
        /\ \/ req'[q] = Idle
           \/ req'[q] = [req[q] EXCEPT !.pc = "resumed"] /\ req[q].action = "edit"
    BY <1>0, <1>8, RequestStates DEF ResumeGate
  <2>2. gate'[p] # "pending" /\ g \in {"none", "finished", gate[p]}
    BY <1>0, <2>1
  <2>3. req'[q] # Idle => req'[q].pc = "resumed" /\ req'[q].product = p
    BY <2>1 DEF Request
  <2> HIDE DEF g
  <2> QED
    BY <2>1, <2>2, <2>3 DEF GateStepOf
<1>9. CASE DeleteThread(q)
  <2>1. /\ req[q].pc = "resumed" /\ req[q] \in Request /\ req[q].product \in Products
        /\ gate' = [gate EXCEPT ![req[q].product] = "none"]
        /\ record' = record /\ cut' = cut
        /\ req'[q] = [req[q] EXCEPT !.pc = "deleted"]
    BY <1>0, <1>9, RequestStates DEF DeleteThread
  <2>2. /\ req'[q].pc = "deleted" /\ req'[q].product = req[q].product
        /\ gate'[req[q].product] # "pending"
    BY <1>0, <2>1 DEF Request
  <2> QED
    BY <2>1, <2>2 DEF GateStepOf
<1>10. CASE Lose(q)
  BY <1>0, <1>10 DEF Lose, GateStepOf
<1>11. CASE UNCHANGED vars
  BY <1>11 DEF vars, GateStepOf
<1> QED
  BY <1>0, <1>1, <1>2, <1>3, <1>4, <1>5, <1>6, <1>7, <1>8, <1>9, <1>10, <1>11 DEF Next, Begin

\* For requests one at a time, every step keeps the gate with the products.
LEMMA GateInvStep ==
  ASSUME OneAtATime, GateInv, [Next]_vars, StoryInv'
  PROVE  GateInv'
<1>0. /\ StoryInv /\ record \in [Products -> Row \cup {NoRow}]
      /\ gate \in [Products -> {"none", "pending", "finished"}] /\ cut \in SUBSET Products
      /\ req \in [Requests -> Request \cup {Idle}]
      /\ \A q \in Requests : req[q] # Idle => req[q] \in Request /\ req[q].product \in Products
      /\ \A p \in Products : NeedsReview(p) => record[p] # NoRow
  BY RequestStates DEF GateInv, StoryInv, ReviewInv, TypeOK, NeedsReview, NoRow, Unborn, Request
<1>1. CASE Requests = {}
  BY <1>0, <1>1 DEF GateInv, GateOwned, GateWanted, GatePassed, Next, Begin, vars,
                    NeedsReview
<1>2. ASSUME NEW q \in Requests
      PROVE  GateInv'
  <2> DEFINE r == req[q]
             s == req'[q]
             p == r.product
  <2>0. /\ \A t \in Requests : t = q
        /\ \A k \in Products : gate[k] = "pending" =>
             NeedsReview(k) \/ k \in cut \/ (r.pc = "decided" /\ p = k)
        /\ r.pc \in {"saved", "resumed", "deleted"} \/ (r.pc = "decided" /\ r.action = "edit")
             => NeedsReview(p)
        /\ r.pc \in {"read", "loaded"} /\ ~r.reviewable => ~NeedsReview(p)
    BY DEF OneAtATime, GateInv, GateOwned, GateWanted, GatePassed
  <2> SUFFICES
        /\ \A k \in Products : gate'[k] = "pending" =>
             record'[k].payload.status = "needs_review" \/ k \in cut' \/ (s.pc = "decided" /\ s.product = k)
        /\ s.pc \in {"saved", "resumed", "deleted"} \/ (s.pc = "decided" /\ s.action = "edit")
             => record'[s.product].payload.status = "needs_review"
        /\ s.pc \in {"read", "loaded"} /\ ~s.reviewable
             => record'[s.product].payload.status # "needs_review"
    BY <2>0 DEF GateInv, GateOwned, GateWanted, GatePassed, NeedsReview
  <2>1. GateStepOf(q)
    BY <1>0, GateStep
  <2>2. CASE req' = req /\ gate' = gate /\ record' = record /\ cut' = cut
    BY <2>0, <2>2 DEF NeedsReview
  <2>3. CASE /\ s = Idle /\ gate' = gate /\ record' = record /\ cut \subseteq cut'
             /\ r.pc = "decided" => p \in cut'
    BY <2>0, <2>3, RequestStates DEF NeedsReview
  <2>4. CASE /\ r.pc = "idle" /\ gate' = gate /\ cut' = cut
             /\ s.pc \in {"idle", "saved"}
             /\ s.pc = "saved" => record'[s.product].payload.status = "needs_review"
             /\ \A k \in Products : record'[k] = record[k] \/ record[k] = NoRow
    BY <1>0, <2>0, <2>4 DEF NeedsReview
  <2>5. CASE /\ r.pc = "idle" /\ gate' = gate /\ cut' = cut
             /\ s.pc = "read" /\ record' = record
             /\ ~s.reviewable => ~NeedsReview(s.product)
    BY <2>0, <2>5 DEF NeedsReview
  <2>6. CASE /\ r.pc = "read" /\ gate' = gate /\ record' = record /\ cut' = cut
             /\ \/ s = Idle
                \/ s.pc = "loaded" /\ s.product = p /\ s.reviewable = r.reviewable
                \/ s.pc = "decided" /\ s.product = p /\ s.action # "edit"
    BY <2>0, <2>6, RequestStates DEF NeedsReview
  <2>7. CASE /\ r.pc = "loaded" /\ gate' = gate /\ cut' = cut /\ DecidedNow(q, p)
             /\ s = AfterDecision(r)
             /\ \A k \in Products : k # p => record'[k] = record[k]
    <3>1. /\ r \in Request /\ r.action \in Actions /\ r.loaded = record[p]
          /\ record'[p].payload = IF Decided(r).payload = r.loaded.payload
                                    THEN record[p].payload ELSE Decided(r).payload
          /\ Decided(r).payload.status = Policy[r.action].to
      BY <1>0, <2>7 DEF DecidedNow, StoryInv, LoadedIsCurrent
    <3>2. record'[p].payload.status = Policy[r.action].to
      BY <3>1
    <3>3. r.action = "edit" => record'[p].payload.status = "needs_review"
      BY <3>2 DEF Policy
    <3>4. \/ s = Idle /\ ~r.reviewable
          \/ s.pc = "decided" /\ s.product = p /\ s.action = r.action
      BY <2>7, <3>1 DEF AfterDecision, Request
    <3>5. ASSUME NEW k \in Products, gate[k] = "pending", k \notin cut
          PROVE  \/ record'[k].payload.status = "needs_review"
                 \/ s.pc = "decided" /\ s.product = k
      <4>1. NeedsReview(k)
        BY <2>0, <2>7, <3>5
      <4>2. CASE k = p
        BY <2>0, <2>7, <3>4, <4>1, <4>2
      <4>3. CASE k # p
        BY <2>7, <4>1, <4>3 DEF NeedsReview
      <4> QED
        BY <4>2, <4>3
    <3> QED
      BY <2>7, <3>3, <3>4, <3>5, RequestStates
  <2>8. CASE /\ r.pc \in {"saved", "deleted"} /\ s = Idle
             /\ gate' = [gate EXCEPT ![p] = "pending"] /\ record' = record /\ cut' = cut
    BY <1>0, <2>0, <2>8, RequestStates DEF NeedsReview
  <2>9. CASE /\ r.pc \in {"decided", "resumed"} /\ record' = record /\ cut \ {p} \subseteq cut'
             /\ \E g \in {"none", "finished", gate[p]} :
                  gate' = [gate EXCEPT ![p] = g] /\ gate'[p] # "pending"
             /\ \/ s = Idle
                \/ /\ s.pc \in {"resumed", "deleted"} /\ s.product = p
                   /\ r.pc = "decided" => r.action = "edit"
    <3>1. \A k \in Products : gate'[k] = "pending" => gate[k] = "pending" /\ k # p
      BY <1>0, <2>9
    <3> QED
      BY <2>0, <2>9, <3>1, RequestStates DEF NeedsReview
  <2> QED
    BY <2>1, <2>2, <2>3, <2>4, <2>5, <2>6, <2>7, <2>8, <2>9 DEF GateStepOf
<1> QED
  BY <1>1, <1>2

\* Between requests an interrupt waits for a product that needs a review, or is one that
\* a lost resume has left (decide_review, ReviewGate.resume, ReviewGate.restart).
THEOREM InterruptsAwaitReview ==
  ASSUME OneAtATime
  PROVE  Spec => []InterruptAwaitsReview
<1>1. Init => GateInv
  BY InitReviewInv, RequestStates
     DEF Init, GateInv, StoryInv, LoadedIsCurrent, UnsavedIsBlank, StoresAgree, EventChain,
         Saved, GateOwned, GateWanted, GatePassed
<1>2. GateInv /\ [Next]_vars /\ StoryInv' => GateInv'
  BY GateInvStep
<1>3. GateInv => InterruptAwaitsReview
  BY RequestStates DEF GateInv, GateOwned, NeedsReview, InterruptAwaitsReview, Quiet
<1> QED
  BY <1>1, <1>2, <1>3, StoryInvariant, PTL DEF Spec

-----------------------------------------------------------------------------
(***************************************************************************)
(* The refinement.  A decision was allowed on the row it loaded, which is  *)
(* the row it changes; the event it adds names that row and the new one.   *)
(***************************************************************************)
LoadedAllowed ==
  \A q \in Requests : req[q].pc = "loaded" =>
    req[q].loaded.payload.status \in Policy[req[q].action].from

Shown(e) ==
  [before |-> [status |-> e.before[1], content |-> e.before[2]],
   after |-> [status |-> e.after[1], content |-> e.after[2]]]

ShownProducts == [p \in Products |-> record[p].payload]
ShownHistory == [p \in Products |-> [i \in DOMAIN events[p] |-> Shown(events[p][i])]]

\* What may become allowed: a request that loads, and nobody else.
LEMMA AllowedStep ==
  ASSUME ReviewInv, LoadedAllowed, [Next]_vars
  PROVE  LoadedAllowed'
<1> SUFFICES ASSUME NEW q \in Requests, req'[q].pc = "loaded"
             PROVE  req'[q].loaded.payload.status \in Policy[req'[q].action].from
  BY DEF LoadedAllowed
<1>0. req \in [Requests -> Request \cup {Idle}]
  BY DEF ReviewInv, TypeOK
<1>1. CASE req'[q] = req[q]
  BY <1>1 DEF LoadedAllowed
<1>2. CASE Load(q)
  <2>1. req[q] \in Request
    BY <1>0, <1>2, RequestStates DEF Load
  <2>2. /\ req'[q] = [req[q] EXCEPT !.pc = "loaded", !.loaded = Current(q)]
        /\ Allowed(q)
    BY <1>0, <1>2 DEF Load
  <2>3. req'[q].loaded = Current(q) /\ req'[q].action = req[q].action
    BY <2>1, <2>2 DEF Request
  <2> QED
    BY <2>2, <2>3 DEF Allowed
<1>3. \A r \in Requests, p \in Products : SaveProduct(r, p) => req'[q] = req[q] \/ r = q
  BY <1>0 DEF SaveProduct
<1>4. \A r \in Requests, p \in Products, action \in Actions :
        ReadCheckpoint(r, p, action) => req'[q] = req[q] \/ r = q
  BY <1>0 DEF ReadCheckpoint
<1>5. \A r \in Requests :
        Load(r) \/ Refuse(r) \/ ReturnCurrent(r) \/ Commit(r) \/ StartGate(r) \/ ResumeGate(r)
          \/ DeleteThread(r) \/ RestartGate(r) \/ Lose(r) => req'[q] = req[q] \/ r = q
  BY <1>0 DEF Load, Refuse, ReturnCurrent, Commit, StartGate, ResumeGate, DeleteThread,
              RestartGate, Lose
<1>6. ASSUME NEW p \in Products, SaveProduct(q, p) PROVE FALSE
  BY <1>0, <1>6 DEF SaveProduct, Idle
<1>7. ASSUME NEW p \in Products, NEW action \in Actions, ReadCheckpoint(q, p, action)
      PROVE  FALSE
  BY <1>0, <1>7 DEF ReadCheckpoint, Idle
<1>8. ASSUME Refuse(q) \/ StartGate(q) \/ RestartGate(q) \/ Lose(q) PROVE FALSE
  BY <1>0, <1>8, RequestStates DEF Refuse, StartGate, RestartGate, Lose
<1>9. ASSUME ReturnCurrent(q) \/ Commit(q) PROVE FALSE
  <2>1. req'[q] = AfterDecision(req[q]) /\ req[q] \in Request
    BY <1>0, <1>9, RequestStates DEF ReturnCurrent, Commit
  <2> QED
    BY <2>1, AfterDecisionType
<1>10. ASSUME ResumeGate(q) \/ DeleteThread(q) PROVE FALSE
  <2>1. req[q] \in Request
    BY <1>0, <1>10, RequestStates DEF ResumeGate, DeleteThread
  <2>2. req'[q] \in {Idle, [req[q] EXCEPT !.pc = "resumed"], [req[q] EXCEPT !.pc = "deleted"]}
    BY <1>0, <1>10 DEF ResumeGate, DeleteThread
  <2> QED
    BY <2>1, <2>2, RequestStates DEF Request
<1>11. UNCHANGED vars => req'[q] = req[q]
  BY DEF vars
<1> QED
  BY <1>1, <1>2, <1>3, <1>4, <1>5, <1>6, <1>7, <1>8, <1>9, <1>10, <1>11 DEF Next, Begin

\* Showing a history entry by entry commutes with adding an entry.
LEMMA ShownAppend ==
  ASSUME NEW history \in Seq(Event), NEW e \in Event
  PROVE  LET more == Append(history, e)
         IN  [i \in DOMAIN more |-> Shown(more[i])]
               = Append([i \in DOMAIN history |-> Shown(history[i])], Shown(e))
<1> DEFINE n == Len(history)
           more == Append(history, e)
           shown == [i \in DOMAIN history |-> Shown(history[i])]
           all == [i \in DOMAIN more |-> Shown(more[i])]
           S == {Shown(d) : d \in Event}
<1>1. /\ n \in Nat /\ DOMAIN history = 1..n /\ DOMAIN more = 1..(n + 1)
      /\ \A i \in 1..n : more[i] = history[i] /\ history[i] \in Event
      /\ more[n + 1] = e
  OBVIOUS
<1> HIDE DEF n, more
<1>2. shown \in [1..n -> S] /\ all \in [1..(n + 1) -> S]
  <2>1. \A i \in 1..(n + 1) : more[i] \in Event
    BY <1>1
  <2>2. \A i \in 1..n : Shown(history[i]) \in S
    BY <1>1
  <2>3. \A i \in 1..(n + 1) : Shown(more[i]) \in S
    BY <2>1
  <2> QED
    BY <1>1, <2>2, <2>3
<1>3. shown \in Seq(S) /\ all \in Seq(S) /\ Len(shown) = n /\ Len(all) = n + 1
  BY <1>1, <1>2
<1>4. Shown(e) \in S
  OBVIOUS
<1>5. \A i \in 1..n : all[i] = shown[i]
  BY <1>1
<1>6. all[n + 1] = Shown(e)
  BY <1>1
<1> HIDE DEF shown, all, S
<1>7. all = Append(shown, Shown(e))
  <2>1. Append(shown, Shown(e)) \in Seq(S) /\ Len(Append(shown, Shown(e))) = n + 1
    BY <1>3, <1>4
  <2>2. \A i \in 1..(n + 1) : all[i] = Append(shown, Shown(e))[i]
    BY <1>1, <1>3, <1>4, <1>5, <1>6, AppendProperties
  <2> QED
    BY <1>3, <2>1, <2>2, SeqEqual
<1> QED
  BY <1>7 DEF shown, all, more

\* Which moves the policy makes.
LEMMA PolicyMoves ==
  ASSUME NEW a \in Actions, NEW s \in Policy[a].from
  PROVE  /\ <<s, Policy[a].to>> \in Promised!Moves
         /\ Policy[a].to \in {"approved", "rejected", "needs_review", "draft"}
         /\ a = "edit" => Policy[a].to = "needs_review"
<1>1. a \in {"approve", "reject", "request_reanalysis", "edit", "waive_with_reason"}
  BY DEF Actions, Policy
<1> QED
  BY <1>1 DEF Policy, Promised!Moves

\* Every step is a step of ReviewPolicy, or a stutter.
LEMMA PolicyStep ==
  ASSUME StoryInv, LoadedAllowed, [Next]_vars
  PROVE  [Promised!PolicyNext]_(Promised!policyVars)
<1>0. /\ record \in [Products -> Row \cup {NoRow}]
      /\ events \in [Products -> Seq(Event)]
      /\ req \in [Requests -> Request \cup {Idle}]
      /\ ReviewInv
  BY DEF StoryInv, ReviewInv, TypeOK
<1>1. ASSUME NEW q \in Requests, NEW p \in Products, SaveProduct(q, p)
      PROVE  Promised!Materialize(p)
  <2>1. PICK s \in {"draft", "needs_review"}, c \in Contents :
          record' = [record EXCEPT ![p] =
            [status |-> s, payload |-> [status |-> s, content |-> c], approvedBy |-> NoActor]]
    BY <1>1 DEF SaveProduct
  <2>2. record[p] = NoRow /\ events' = events
    BY <1>1 DEF SaveProduct
  <2>3. ShownProducts' = [ShownProducts EXCEPT ![p] = [status |-> s, content |-> c]]
    BY <1>0, <2>1 DEF ShownProducts
  <2>4. ShownProducts[p] = Promised!Unborn
    BY <2>2 DEF ShownProducts, NoRow, Unborn, Promised!Unborn
  <2>5. ShownHistory' = ShownHistory
    BY <2>2 DEF ShownHistory
  <2> QED
    BY <2>3, <2>4, <2>5 DEF Promised!Materialize, ShownProducts, ShownHistory, Shown
<1>2. ASSUME NEW q \in Requests, Commit(q)
      PROVE  \E p \in Products : Promised!Decide(p)
  <2>0. PICK p \in Products : p = req[q].product
    BY <1>0, <1>2, RequestStates DEF Commit, Request
  <2> DEFINE r == req[q]
             new == Decided(r)
             e == DecisionEvent(r)
             content == IF r.action = "edit" THEN r.content ELSE r.loaded.payload.content
             to == Policy[r.action].to
  <2>1. /\ r.pc = "loaded" /\ r \in Request /\ p = r.product
        /\ r.action \in Actions /\ r.loaded \in Row /\ record[p] = r.loaded
        /\ r.action = "edit" => r.content \in Contents
        /\ r.loaded.payload.status \in Policy[r.action].from
    BY <1>0, <1>2, <2>0, RequestStates
       DEF Commit, ReviewInv, InProgress, StoryInv, LoadedIsCurrent, LoadedAllowed, Request
  <2>2. /\ record' = [record EXCEPT ![p] = Flushed(record[p], r.loaded, new)]
        /\ events' = [events EXCEPT ![p] = Append(events[p], e)]
    BY <1>2, <2>0 DEF Commit
  <2>3. /\ new \in Row /\ new.payload = [status |-> to, content |-> content]
        /\ content \in Contents /\ e \in Event
        /\ e.before = ProductHash(r.loaded.payload) /\ e.after = ProductHash(new.payload)
    <3>1. /\ new \in Row /\ e \in Event
          /\ e.before = ProductHash(r.loaded.payload) /\ e.after = ProductHash(new.payload)
      BY <2>1, DecidedRow
    <3>2. new.payload = [status |-> to, content |-> content]
      BY DEF Decided
    <3>3. content \in Contents
      BY <2>1 DEF Row, Payload
    <3> QED
      BY <3>1, <3>2, <3>3
  <2> HIDE DEF new, e, content, to
  <2>4. Flushed(record[p], r.loaded, new).payload = new.payload
    BY <2>1, <2>3, FlushedRow
  <2>5. r.loaded.payload \in Payload
    BY <2>1 DEF Row
  <2> HIDE DEF r
  <2>6. ShownProducts' = [ShownProducts EXCEPT ![p] = [status |-> to, content |-> content]]
    BY <1>0, <2>1, <2>2, <2>3, <2>4 DEF ShownProducts
  <2>7. ShownProducts[p] = r.loaded.payload
    BY <2>1 DEF ShownProducts
  <2>8. Shown(e) = [before |-> ShownProducts[p],
                    after |-> [status |-> to, content |-> content]]
    BY <2>3, <2>5, <2>7 DEF Shown, ProductHash, Payload
  <2>9. ShownHistory' = [ShownHistory EXCEPT ![p] = Append(ShownHistory[p], Shown(e))]
    <3>1. \A k \in Products :
            [i \in DOMAIN events'[k] |-> Shown(events'[k][i])]
              = IF k = p THEN Append(ShownHistory[p], Shown(e)) ELSE ShownHistory[k]
      <4>1. SUFFICES ASSUME NEW k \in Products
                     PROVE  [i \in DOMAIN events'[k] |-> Shown(events'[k][i])]
                              = IF k = p THEN Append(ShownHistory[p], Shown(e))
                                ELSE ShownHistory[k]
        OBVIOUS
      <4>2. CASE k = p
        <5>1. events'[k] = Append(events[p], e) /\ events[p] \in Seq(Event)
          BY <1>0, <2>1, <2>2, <4>2
        <5> QED
          BY <2>1, <2>3, <4>2, <5>1, ShownAppend DEF ShownHistory
      <4>3. CASE k # p
        BY <1>0, <2>2, <4>3 DEF ShownHistory
      <4> QED
        BY <4>2, <4>3
    <3>2. ShownHistory' = [k \in Products |-> [i \in DOMAIN events'[k] |-> Shown(events'[k][i])]]
      BY DEF ShownHistory, Shown
    <3>3. [ShownHistory EXCEPT ![p] = Append(ShownHistory[p], Shown(e))]
            = [k \in Products |-> IF k = p THEN Append(ShownHistory[p], Shown(e))
                                  ELSE ShownHistory[k]]
      BY <2>1 DEF ShownHistory
    <3> QED
      BY <3>1, <3>2, <3>3
  <2>10. /\ <<ShownProducts[p].status, to>> \in Promised!Moves
         /\ to \in {"approved", "rejected", "needs_review", "draft"}
         /\ to # "needs_review" => content = ShownProducts[p].content
    BY <2>1, <2>7, PolicyMoves DEF to, content
  <2>11. Promised!Decide(p)
    <3>1. \E s \in {"approved", "rejected", "needs_review", "draft"}, c \in Contents :
            LET after == [status |-> s, content |-> c]
            IN  /\ <<ShownProducts[p].status, s>> \in Promised!Moves
                /\ s # "needs_review" => c = ShownProducts[p].content
                /\ ShownProducts' = [ShownProducts EXCEPT ![p] = after]
                /\ ShownHistory' = [ShownHistory EXCEPT ![p] =
                     Append(ShownHistory[p], [before |-> ShownProducts[p], after |-> after])]
      BY <2>3, <2>6, <2>8, <2>9, <2>10
    <3> QED
      BY <3>1 DEF Promised!Decide, ShownProducts, ShownHistory, Shown
  <2> QED
    BY <2>11
<1>3. ASSUME UNCHANGED <<record, events>>
      PROVE  UNCHANGED Promised!policyVars
  BY <1>3 DEF Promised!policyVars
<1> QED
  BY <1>1, <1>2, <1>3
     DEF Next, Begin, ReadCheckpoint, Load, Refuse, ReturnCurrent, StartGate, ResumeGate,
         DeleteThread, RestartGate, Lose, vars, Promised!PolicyNext

\* One request at a time and requests lost anywhere, the workflow implements
\* ReviewPolicy: one decision at a time, each in the history with what was before
\* and after it, and an approved product never changes.
THEOREM WorkflowImplementsPolicy ==
  ASSUME OneAtATime
  PROVE  Spec => ImplementsPolicy
<1>1. Init => Promised!PolicyInit /\ LoadedAllowed
  <2> SUFFICES ASSUME Init PROVE Promised!PolicyInit /\ LoadedAllowed
    OBVIOUS
  <2>1. ShownProducts = [p \in Products |-> Promised!Unborn]
    BY DEF Init, ShownProducts, NoRow, Unborn, Promised!Unborn
  <2>2. ShownHistory = [p \in Products |-> <<>>]
    BY DEF Init, ShownHistory
  <2>3. LoadedAllowed
    BY DEF Init, LoadedAllowed, Idle
  <2> QED
    BY <2>1, <2>2, <2>3 DEF Promised!PolicyInit, ShownProducts, ShownHistory, Shown
<1>2. StoryInv /\ LoadedAllowed /\ [Next]_vars => LoadedAllowed'
  BY AllowedStep DEF StoryInv
<1>3. StoryInv /\ LoadedAllowed /\ [Next]_vars => [Promised!PolicyNext]_(Promised!policyVars)
  BY PolicyStep
<1> QED
  BY <1>1, <1>2, <1>3, StoryInvariant, PTL
     DEF Spec, ImplementsPolicy, Promised!PolicySpec
=============================================================================
