------------------------ MODULE ResearchSessionProofs ------------------------
(***************************************************************************)
(* What holds of the bounded admission and of the research routes that run *)
(* under it, for any number of requests and projects and any limits. The   *)
(* first part is about Admission alone; the routes then inherit it,        *)
(* because their steps are steps of the admission or none.                 *)
(***************************************************************************)
EXTENDS ResearchSession, FiniteSetTheorems, TLAPS

Holders == {q \in Requests : pc[q] \in {"granted", "revoked", "active"}}
Entered == {q \in Requests : pc[q] # "out"}

\* A request that waits has its future in the queue: what its removal relies
\* on.
WaitingIsQueued ==
  \A q \in Requests : pc[q] \in Queued => \E i \in DOMAIN waiters : waiters[i] = q

\* The inductive invariant.
AdmissionInv ==
  AdmissionTypeOK /\ WaitingIsQueued /\ PermitsConserved /\ QueueBounded

\* The invariant holds of an idle admission.
LEMMA InitAdmissionInv == AdmissionInit => AdmissionInv
<1> SUFFICES ASSUME AdmissionInit PROVE AdmissionInv
  OBVIOUS
<1> USE AdmissionAssumption DEF AdmissionInit
<1>1. AdmissionTypeOK /\ WaitingIsQueued
  BY DEF AdmissionTypeOK, WaitingIsQueued, Queued
<1>2. Holders = {} /\ Entered = {}
  BY DEF Holders, Entered
<1>3. Cardinality(Holders) = 0 /\ Cardinality(Entered) = 0
  BY <1>2, FS_EmptySet
<1>4. QED
  BY <1>1, <1>3 DEF AdmissionInv, PermitsConserved, QueueBounded, Holders, Entered

\* Counting: the cases of the library's theorems that are used below.
LEMMA CardDisjoint ==
  ASSUME NEW S, NEW T, IsFiniteSet(S), IsFiniteSet(T), S \cap T = {}
  PROVE  IsFiniteSet(S \cup T) /\ Cardinality(S \cup T) = Cardinality(S) + Cardinality(T)
<1>1. Cardinality({}) = 0 /\ Cardinality(S) \in Nat /\ Cardinality(T) \in Nat
  BY FS_EmptySet, FS_CardinalityType
<1>2. Cardinality(S \cup T) = Cardinality(S) + Cardinality(T) - Cardinality(S \cap T)
  BY FS_Union
<1>3. QED
  BY <1>1, <1>2, FS_Union

\* One request more.
LEMMA CardAdd ==
  ASSUME NEW S, NEW x, IsFiniteSet(S), x \notin S
  PROVE  IsFiniteSet(S \cup {x}) /\ Cardinality(S \cup {x}) = Cardinality(S) + 1
BY FS_AddElement

\* One request less.
LEMMA CardRemove ==
  ASSUME NEW S, NEW x, IsFiniteSet(S)
  PROVE  /\ IsFiniteSet(S \ {x})
         /\ Cardinality(S \ {x}) = Cardinality(S) - (IF x \in S THEN 1 ELSE 0)
<1>1. Cardinality(S) \in Nat
  BY FS_CardinalityType
<1>2. QED
  BY <1>1, FS_RemoveElement

(***************************************************************************)
(* At most n permits go out: the requests woken stand at places with       *)
(* different numbers, below n, of open futures before them.                *)
(***************************************************************************)
LEMMA FirstPendingBound ==
  ASSUME NEW q, NEW ws \in Seq(Requests), NEW n \in Nat
  PROVE  /\ FirstPending(q, ws, n) \subseteq {p \in Requests \ {q} : pc[p] = "pending"}
         /\ IsFiniteSet(FirstPending(q, ws, n))
         /\ Cardinality(FirstPending(q, ws, n)) \in Nat
         /\ Cardinality(FirstPending(q, ws, n)) <= n
<1> DEFINE Before(i) == {k \in DOMAIN ws : k < i /\ ws[k] # q /\ pc[ws[k]] = "pending"}
           W == FirstPending(q, ws, n)
           Spot(p) == CHOOSE i \in DOMAIN ws : ws[i] = p /\ Cardinality(Before(i)) < n
           rank == [p \in W |-> Cardinality(Before(Spot(p)))]
<1>1. W \subseteq {p \in Requests \ {q} : pc[p] = "pending"}
  BY DEF FirstPending
<1>2. \A p \in W : /\ Spot(p) \in DOMAIN ws
                   /\ ws[Spot(p)] = p /\ p # q /\ pc[p] = "pending"
                   /\ Cardinality(Before(Spot(p))) < n
  BY DEF FirstPending
<1>3. /\ IsFiniteSet(1..Len(ws))
      /\ DOMAIN ws = 1..Len(ws)
  BY FS_Interval
<1>4. \A i \in DOMAIN ws : IsFiniteSet(Before(i)) /\ Cardinality(Before(i)) \in Nat
  <2> TAKE i \in DOMAIN ws
  <2>1. Before(i) \in SUBSET (1..Len(ws))
    BY <1>3
  <2> HIDE DEF Before
  <2>2. QED
    BY <2>1, <1>3, FS_Subset, FS_CardinalityType
<1>5. ASSUME NEW i \in DOMAIN ws, NEW k \in DOMAIN ws, i < k,
             ws[i] # q, pc[ws[i]] = "pending"
      PROVE  Cardinality(Before(i)) < Cardinality(Before(k))
  <2>1. Before(i) \subseteq Before(k) /\ i \in Before(k) /\ i \notin Before(i)
    BY <1>3, <1>5
  <2> HIDE DEF Before
  <2>2. Before(i) \in SUBSET Before(k) /\ Before(i) # Before(k)
    BY <2>1
  <2>3. IsFiniteSet(Before(k)) /\ Cardinality(Before(k)) \in Nat /\ Cardinality(Before(i)) \in Nat
    BY <1>4
  <2>4. QED
    BY <2>2, <2>3, FS_Subset
<1> HIDE DEF Before, W
<1>6. ASSUME NEW p \in W, NEW r \in W, rank[p] = rank[r] PROVE p = r
  <2>1. Cardinality(Before(Spot(p))) = Cardinality(Before(Spot(r)))
    BY <1>6
  <2> HIDE DEF Spot
  <2>2. Spot(p) \in Int /\ Spot(r) \in Int
    BY <1>2, <1>3
  <2>3. ~ Spot(p) < Spot(r) /\ ~ Spot(r) < Spot(p)
    BY <1>2, <1>4, <1>5, <2>1
  <2>4. Spot(p) = Spot(r)
    BY <2>2, <2>3
  <2>5. QED
    BY <1>2, <2>4
<1>7. \A p \in W : rank[p] \in 0..(n - 1)
  BY <1>2, <1>4
<1>8. rank \in [W -> 0..(n - 1)]
  BY <1>7
<1>9. rank \in Injection(W, 0..(n - 1))
  BY <1>6, <1>8 DEF Injection, IsInjective
<1>10. IsFiniteSet(0..(n - 1)) /\ Cardinality(0..(n - 1)) = n
  BY FS_Interval
<1>11. IsFiniteSet(W) /\ Cardinality(W) <= n
  BY <1>9, <1>10, FS_Injection
<1>12. QED
  BY <1>1, <1>11, FS_CardinalityType DEF W

\* The queue without the future of q, and with those of all others.
LEMMA DequeuedQueue ==
  ASSUME NEW q \in Requests, AdmissionTypeOK, WaitingIsQueued, pc[q] \in Queued
  PROVE  /\ Dequeued(q) \in Seq(Requests)
         /\ \A p \in Requests \ {q} :
              pc[p] \in Queued => \E i \in DOMAIN Dequeued(q) : Dequeued(q)[i] = p
<1> DEFINE at == Place(q)
<1>1. waiters \in Seq(Requests) /\ at \in 1..Len(waiters) /\ waiters[at] = q
  BY DEF AdmissionTypeOK, WaitingIsQueued, Place
<1> HIDE DEF at
<1> DEFINE front == SubSeq(waiters, 1, at - 1)
           back == SubSeq(waiters, at + 1, Len(waiters))
<1>2. Dequeued(q) = front \o back
  BY DEF Dequeued, RemoveAt, at
<1>3. /\ front \in Seq(Requests) /\ Len(front) = at - 1
      /\ \A i \in 1..(at - 1) : front[i] = waiters[i]
  BY <1>1
<1>4. /\ back \in Seq(Requests) /\ Len(back) = Len(waiters) - at
      /\ \A i \in 1..(Len(waiters) - at) : back[i] = waiters[at + i]
  BY <1>1
<1> HIDE DEF front, back
<1>5. front \o back \in Seq(Requests) /\ Len(front \o back) = Len(waiters) - 1
  <2>1. Len(front \o back) = Len(front) + Len(back) /\ front \o back \in Seq(Requests)
    BY <1>3, <1>4
  <2>2. Len(waiters) \in Nat /\ at \in Int
    BY <1>1
  <2>3. (at - 1) + (Len(waiters) - at) = Len(waiters) - 1
    BY <2>2
  <2>4. QED
    BY <1>3, <1>4, <2>1, <2>3
<1>6. ASSUME NEW p \in Requests \ {q}, pc[p] \in Queued
      PROVE  \E i \in DOMAIN (front \o back) : (front \o back)[i] = p
  <2>1. PICK k \in 1..Len(waiters) : waiters[k] = p
    BY <1>1, <1>6 DEF WaitingIsQueued
  <2>2. CASE k < at
    <3>1. k \in 1..Len(front \o back) /\ (front \o back)[k] = p
      BY <1>1, <1>3, <1>4, <1>5, <2>1, <2>2
    <3>2. QED
      BY <3>1, <1>5
  <2>3. CASE k > at
    <3>1. /\ k - at \in 1..(Len(waiters) - at) /\ at + (k - at) = k
          /\ k - 1 \in 1..Len(front \o back)
          /\ Len(front) + (k - at) = k - 1
      BY <1>1, <1>3, <1>5, <2>1, <2>3
    <3>2. (front \o back)[k - 1] = back[k - at]
      BY <1>1, <1>3, <1>4, <3>1
    <3>3. (front \o back)[k - 1] = p
      BY <1>4, <2>1, <3>1, <3>2
    <3>4. QED
      BY <3>1, <3>3, <1>5
  <2>4. QED
    BY <1>1, <2>1, <2>2, <2>3
<1>7. QED
  BY <1>2, <1>5, <1>6

\* The sets the counts are about, before and after a request moves on.
LEMMA FiniteCounts ==
  /\ IsFiniteSet(Holders) /\ Cardinality(Holders) \in Nat
  /\ IsFiniteSet(Entered) /\ Cardinality(Entered) \in Nat
<1>1. Holders \in SUBSET Requests /\ Entered \in SUBSET Requests
  BY DEF Holders, Entered
<1>2. QED
  BY <1>1, AdmissionAssumption, FS_Subset, FS_CardinalityType

\* What Move does to types and counts: the permits that go out are held by
\* those who are woken.
LEMMA MoveCounts ==
  ASSUME NEW q \in Requests, NEW to \in {"out", "active"}, NEW ws \in Seq(Requests),
         NEW free \in Nat, NEW n \in Nat, n <= free,
         AdmissionTypeOK, pc[q] \notin {"pending", "out"}, Move(q, to, ws, free, n)
  PROVE  /\ pc' \in [Requests -> Queued \cup {"out", "active"}]
         /\ value' \in Nat
         /\ \A p \in Requests : pc'[p] \in Queued => p # q /\ pc[p] \in Queued
         /\ value' + Cardinality(Holders') =
              free + Cardinality(Holders)
                + (IF to = "active" THEN 1 ELSE 0) - (IF q \in Holders THEN 1 ELSE 0)
         /\ Cardinality(Entered') = Cardinality(Entered) - (IF to = "out" THEN 1 ELSE 0)
<1> DEFINE W == FirstPending(q, ws, n)
<1>1. /\ W \subseteq {p \in Requests \ {q} : pc[p] = "pending"}
      /\ IsFiniteSet(W) /\ Cardinality(W) \in Nat /\ Cardinality(W) <= n
  BY FirstPendingBound
<1>2. /\ pc' = [p \in Requests |->
                 CASE p = q -> to [] p \in W -> "granted" [] OTHER -> pc[p]]
      /\ value' = free - Cardinality(W)
  BY DEF Move
<1> HIDE DEF W
<1>3. pc \in [Requests -> Queued \cup {"out", "active"}]
  BY DEF AdmissionTypeOK
<1>4. pc' \in [Requests -> Queued \cup {"out", "active"}]
  BY <1>2, <1>3 DEF Queued
<1>5. value' \in Nat
  BY <1>1, <1>2
<1>6. \A p \in Requests : pc'[p] \in Queued => p # q /\ pc[p] \in Queued
  BY <1>1, <1>2 DEF Queued
<1>7. IsFiniteSet(Holders) /\ Cardinality(Holders) \in Nat /\ IsFiniteSet(Entered)
  BY FiniteCounts
<1> DEFINE rest == Holders \ {q}
           held == rest \cup W
<1>8. IsFiniteSet(rest)
  BY <1>7, CardRemove
<1>9. Cardinality(rest) = Cardinality(Holders) - (IF q \in Holders THEN 1 ELSE 0)
  BY <1>7, CardRemove
<1>10. rest \cap W = {} /\ q \notin held
  BY <1>1 DEF Holders
<1>11. Holders' = IF to = "active" THEN held \cup {q} ELSE held
  BY <1>1, <1>2 DEF Holders
<1>12. IsFiniteSet(held) /\ Cardinality(held) = Cardinality(rest) + Cardinality(W)
  <2> HIDE DEF rest
  <2>1. QED
    BY <1>1, <1>8, <1>10, CardDisjoint
<1> HIDE DEF rest, held
<1>13. Cardinality(Holders') = Cardinality(held) + (IF to = "active" THEN 1 ELSE 0)
  <2>1. CASE to = "active"
    BY <1>10, <1>11, <1>12, <2>1, CardAdd
  <2>2. CASE to = "out"
    <3>1. Cardinality(held) \in Nat
      BY <1>12, FS_CardinalityType
    <3>2. QED
      BY <1>11, <2>2, <3>1
  <2>3. QED
    BY <2>1, <2>2
<1>14. value' + Cardinality(Holders') =
         free + Cardinality(Holders)
           + (IF to = "active" THEN 1 ELSE 0) - (IF q \in Holders THEN 1 ELSE 0)
  <2> DEFINE new == Cardinality(Holders')
             old == Cardinality(Holders)
             left == Cardinality(rest)
             all == Cardinality(held)
             woken == Cardinality(W)
  <2>1. /\ new = all + (IF to = "active" THEN 1 ELSE 0)
        /\ all = left + woken
        /\ left = old - (IF q \in Holders THEN 1 ELSE 0)
        /\ value' = free - woken
        /\ old \in Nat /\ woken \in Nat
    BY <1>1, <1>2, <1>7, <1>9, <1>12, <1>13
  <2> HIDE DEF new, old, left, all, woken
  <2>2. value' + new =
         free + old
           + (IF to = "active" THEN 1 ELSE 0) - (IF q \in Holders THEN 1 ELSE 0)
    BY <2>1
  <2>3. QED
    BY <2>2 DEF new, old
<1>15. Cardinality(Entered') = Cardinality(Entered) - (IF to = "out" THEN 1 ELSE 0)
  <2>1. Entered' = IF to = "out" THEN Entered \ {q} ELSE Entered
    BY <1>1, <1>2 DEF Entered
  <2>2. q \in Entered
    BY DEF Entered
  <2>3. Cardinality(Entered \ {q}) = Cardinality(Entered) - 1 /\ Cardinality(Entered) \in Nat
    BY <1>7, <2>2, CardRemove, FS_CardinalityType
  <2>4. QED
    BY <2>1, <2>3
<1>16. QED
  BY <1>4, <1>5, <1>6, <1>14, <1>15

\* A request that is let in counts, and finds a permit or a place in the queue.
LEMMA EnterStep ==
  ASSUME NEW q \in Requests, AdmissionInv, Enter(q)
  PROVE  AdmissionInv'
<1> USE DEF AdmissionInv, AdmissionTypeOK
<1>1. /\ pc[q] = "out" /\ waiting < Concurrency + QueueSize /\ waiting' = waiting + 1
      /\ Concurrency \in Nat /\ QueueSize \in Nat
  BY AdmissionAssumption DEF Enter, Room
<1>2. /\ IsFiniteSet(Holders) /\ Cardinality(Holders) \in Nat /\ q \notin Holders
      /\ IsFiniteSet(Entered) /\ Cardinality(Entered) \in Nat /\ q \notin Entered
  BY <1>1, FiniteCounts DEF Holders, Entered
<1>3. Entered' = Entered \cup {q}
  BY <1>1 DEF Enter, Entered
<1>4. QueueBounded'
  <2>1. Cardinality(Entered') = Cardinality(Entered) + 1
    BY <1>2, <1>3, CardAdd
  <2>2. waiting = Cardinality(Entered)
    BY DEF QueueBounded, Entered
  <2>3. waiting' = Cardinality(Entered') /\ waiting' <= Concurrency + QueueSize
    BY <1>1, <2>1, <2>2
  <2>4. QED
    BY <2>3 DEF QueueBounded, Entered
<1>5. value + Cardinality(Holders) = Concurrency
  BY DEF PermitsConserved, Holders
<1>6. CASE Locked
  <2>1. /\ pc' = [pc EXCEPT ![q] = "pending"]
        /\ waiters' = Append(waiters, q) /\ value' = value
    BY <1>6 DEF Enter
  <2>2. AdmissionTypeOK'
    BY <1>1, <2>1 DEF Queued
  <2>3. \A p \in Requests : pc'[p] \in Queued => p = q \/ pc[p] \in Queued
    BY <2>1
  <2>4. WaitingIsQueued'
    <3> SUFFICES ASSUME NEW p \in Requests, pc'[p] \in Queued
                 PROVE  \E i \in DOMAIN waiters' : waiters'[i] = p
      BY DEF WaitingIsQueued
    <3>1. CASE p = q
      <4>1. Len(waiters) + 1 \in DOMAIN waiters' /\ waiters'[Len(waiters) + 1] = q
        BY <2>1
      <4>2. QED
        BY <3>1, <4>1
    <3>2. CASE pc[p] \in Queued
      <4>1. PICK i \in DOMAIN waiters : waiters[i] = p
        BY <3>2 DEF WaitingIsQueued
      <4>2. i \in DOMAIN waiters' /\ waiters'[i] = p
        BY <2>1, <4>1
      <4>3. QED
        BY <4>2
    <3>3. QED
      BY <2>3, <3>1, <3>2
  <2>5. Holders' = Holders
    BY <1>1, <2>1 DEF Holders
  <2>6. PermitsConserved'
    BY <1>5, <2>1, <2>5 DEF PermitsConserved, Holders
  <2>7. QED
    BY <1>4, <2>2, <2>4, <2>6
<1>7. CASE ~Locked
  <2>1. /\ pc' = [pc EXCEPT ![q] = "active"]
        /\ waiters' = waiters /\ value' = value - 1 /\ value \in Nat \ {0}
    BY <1>7 DEF Enter, Locked
  <2>2. AdmissionTypeOK'
    BY <1>1, <2>1
  <2>3. WaitingIsQueued'
    BY <2>1 DEF WaitingIsQueued, Queued
  <2>4. Holders' = Holders \cup {q}
    BY <1>1, <2>1 DEF Holders
  <2>5. Cardinality(Holders') = Cardinality(Holders) + 1
    BY <1>2, <2>4, CardAdd
  <2>6. value' + Cardinality(Holders') = Concurrency
    BY <1>2, <1>5, <2>1, <2>5
  <2>7. QED
    BY <1>4, <2>2, <2>3, <2>6 DEF PermitsConserved, Holders
<1>8. QED
  BY <1>6, <1>7

\* Resume, Reject and Leave all move one request on and wake others.
LEMMA MoveStep ==
  ASSUME NEW q \in Requests, NEW to \in {"out", "active"}, NEW ws \in Seq(Requests),
         NEW free \in Nat, NEW n \in Nat, n <= free,
         AdmissionInv, pc[q] \notin {"pending", "out"}, Move(q, to, ws, free, n),
         \A p \in Requests \ {q} :
           pc[p] \in Queued => \E i \in DOMAIN ws : ws[i] = p,
         free = value + (IF q \in Holders THEN 1 ELSE 0) - (IF to = "active" THEN 1 ELSE 0),
         waiting' = waiting - (IF to = "out" THEN 1 ELSE 0)
  PROVE  AdmissionInv'
<1> USE DEF AdmissionInv
<1>1. waiters' = ws
  BY DEF Move
<1>2. /\ pc' \in [Requests -> Queued \cup {"out", "active"}]
      /\ value' \in Nat
      /\ \A p \in Requests : pc'[p] \in Queued => p # q /\ pc[p] \in Queued
      /\ value' + Cardinality(Holders') =
           free + Cardinality(Holders)
             + (IF to = "active" THEN 1 ELSE 0) - (IF q \in Holders THEN 1 ELSE 0)
      /\ Cardinality(Entered') = Cardinality(Entered) - (IF to = "out" THEN 1 ELSE 0)
  BY MoveCounts
<1>3. /\ value \in Nat /\ Cardinality(Holders) \in Nat
      /\ value + Cardinality(Holders) = Concurrency
      /\ waiting = Cardinality(Entered) /\ waiting <= Concurrency + QueueSize
      /\ Concurrency \in Nat /\ QueueSize \in Nat
  BY AdmissionAssumption, FiniteCounts
     DEF AdmissionTypeOK, PermitsConserved, QueueBounded, Holders, Entered
<1>4. value' + Cardinality(Holders') = Concurrency
  BY <1>2, <1>3
<1>5. PermitsConserved'
  BY <1>4 DEF PermitsConserved, Holders
<1>6. waiting' = Cardinality(Entered') /\ waiting' <= Concurrency + QueueSize
  <2>1. waiting \in Nat /\ waiting' = waiting - (IF to = "out" THEN 1 ELSE 0)
    BY DEF AdmissionTypeOK
  <2>2. waiting' = Cardinality(Entered')
    BY <1>2, <1>3
  <2>3. waiting' <= Concurrency + QueueSize
    BY <1>3, <2>1
  <2>4. QED
    BY <2>2, <2>3
<1>7. QueueBounded'
  BY <1>6 DEF QueueBounded, Entered
<1>8. waiting' \in Nat
  <2>1. (Entered)' \in SUBSET Requests
    BY DEF Entered
  <2>2. QED
    BY <1>6, <2>1, AdmissionAssumption, FS_Subset, FS_CardinalityType
<1>9. AdmissionTypeOK'
  BY <1>1, <1>2, <1>8 DEF AdmissionTypeOK
<1>10. WaitingIsQueued'
  BY <1>1, <1>2 DEF WaitingIsQueued
<1>11. QED
  BY <1>5, <1>7, <1>9, <1>10

\* A cancelled request keeps its place until its task runs.
LEMMA CancelStep ==
  ASSUME NEW q \in Requests, AdmissionInv, Cancel(q)
  PROVE  AdmissionInv'
<1> USE DEF AdmissionInv, Cancel
<1>1. AdmissionTypeOK'
  BY DEF AdmissionTypeOK, Queued
<1>2. \A p \in Requests : pc'[p] \in Queued => pc[p] \in Queued
  BY DEF AdmissionTypeOK, Queued
<1>3. WaitingIsQueued'
  BY <1>2 DEF WaitingIsQueued
<1>4. Holders' = Holders /\ Entered' = Entered
  BY DEF AdmissionTypeOK, Holders, Entered
<1>5. PermitsConserved' /\ QueueBounded'
  BY <1>4 DEF PermitsConserved, QueueBounded, Holders, Entered
<1>6. QED
  BY <1>1, <1>3, <1>5

\* Every step of acquire keeps the invariant.
LEMMA NextAdmissionInv == AdmissionInv /\ [AdmissionNext]_admissionVars => AdmissionInv'
<1> SUFFICES ASSUME AdmissionInv, [AdmissionNext]_admissionVars PROVE AdmissionInv'
  OBVIOUS
<1>1. /\ value \in Nat /\ waiting \in Nat /\ waiters \in Seq(Requests)
      /\ \A p \in Requests : pc[p] \in Queued => \E i \in DOMAIN waiters : waiters[i] = p
  BY DEF AdmissionInv, AdmissionTypeOK, WaitingIsQueued
<1>2. ASSUME NEW q \in Requests, Enter(q) PROVE AdmissionInv'
  BY <1>2, EnterStep
<1>3. ASSUME NEW q \in Requests, Resume(q) PROVE AdmissionInv'
  <2>1. /\ pc[q] = "granted" /\ Move(q, "active", Dequeued(q), value, value)
        /\ waiting' = waiting
    BY <1>3 DEF Resume
  <2>2. q \in Holders /\ pc[q] \in Queued /\ pc[q] \notin {"pending", "out"}
    BY <2>1 DEF Holders, Queued
  <2>3. /\ Dequeued(q) \in Seq(Requests)
        /\ \A p \in Requests \ {q} :
             pc[p] \in Queued => \E i \in DOMAIN Dequeued(q) : Dequeued(q)[i] = p
    BY <2>2, DequeuedQueue DEF AdmissionInv
  <2>4. QED
    BY <1>1, <2>1, <2>2, <2>3, MoveStep
<1>4. ASSUME NEW q \in Requests, Cancel(q) PROVE AdmissionInv'
  BY <1>4, CancelStep
<1>5. ASSUME NEW q \in Requests, Reject(q) PROVE AdmissionInv'
  <2>1. /\ pc[q] \in {"cancelled", "revoked"}
        /\ Move(q, "out", Dequeued(q), Returned(q), Returned(q))
        /\ waiting' = waiting - 1
    BY <1>5 DEF Reject
  <2>2. /\ pc[q] \in Queued /\ pc[q] \notin {"pending", "out"}
        /\ Returned(q) = value + (IF q \in Holders THEN 1 ELSE 0)
        /\ Returned(q) \in Nat
    BY <1>1, <2>1 DEF Holders, Queued, Returned
  <2>3. /\ Dequeued(q) \in Seq(Requests)
        /\ \A p \in Requests \ {q} :
             pc[p] \in Queued => \E i \in DOMAIN Dequeued(q) : Dequeued(q)[i] = p
    BY <2>2, DequeuedQueue DEF AdmissionInv
  <2>4. QED
    BY <1>1, <2>1, <2>2, <2>3, MoveStep
<1>6. ASSUME NEW q \in Requests, Leave(q) PROVE AdmissionInv'
  <2>1. /\ pc[q] = "active" /\ Move(q, "out", waiters, value + 1, 1)
        /\ waiting' = waiting - 1
    BY <1>6 DEF Leave
  <2>2. /\ pc[q] \notin {"pending", "out"} /\ q \in Holders
        /\ value + 1 \in Nat /\ 1 <= value + 1
    BY <1>1, <2>1 DEF Holders
  <2>3. QED
    BY <1>1, <2>1, <2>2, MoveStep
<1>7. ASSUME UNCHANGED admissionVars PROVE AdmissionInv'
  BY <1>7 DEF admissionVars, AdmissionInv, AdmissionTypeOK, WaitingIsQueued,
              PermitsConserved, QueueBounded
<1>8. QED
  BY <1>2, <1>3, <1>4, <1>5, <1>6, <1>7 DEF AdmissionNext

\* acquire keeps its queue, its permits and its count together.
THEOREM AdmissionInvariant == AdmissionSpec => []AdmissionInv
BY InitAdmissionInv, NextAdmissionInv, PTL DEF AdmissionSpec

\* No cancellation, at whatever moment, loses a permit or makes one:
\* BoundedAdmission.acquire and the semaphore below it, for any limits.
THEOREM PermitsAreConserved == AdmissionSpec => []PermitsConserved
BY AdmissionInvariant, PTL DEF AdmissionInv

\* The bound that acquire checks before its first await holds at all times.
THEOREM QueueIsBounded == AdmissionSpec => []QueueBounded
BY AdmissionInvariant, PTL DEF AdmissionInv

\* No more than RESEARCH_CONCURRENCY requests are in the body of acquire.
THEOREM ActiveIsBounded == AdmissionSpec => []ActiveBounded
<1>1. AdmissionInv => ActiveBounded
  <2> SUFFICES ASSUME AdmissionInv PROVE ActiveBounded
    OBVIOUS
  <2> DEFINE Active == {q \in Requests : pc[q] = "active"}
  <2>1. Active \in SUBSET Holders
    BY DEF Holders
  <2>2. IsFiniteSet(Holders) /\ Cardinality(Holders) \in Nat
    BY FiniteCounts
  <2> HIDE DEF Active
  <2>3. Cardinality(Active) <= Cardinality(Holders) /\ Cardinality(Active) \in Nat
    BY <2>1, <2>2, FS_Subset, FS_CardinalityType
  <2>4. value \in Nat /\ value + Cardinality(Holders) = Concurrency
    BY DEF AdmissionInv, AdmissionTypeOK, PermitsConserved, Holders
  <2>5. Cardinality(Active) <= Concurrency
    BY <2>2, <2>3, <2>4
  <2>6. QED
    BY <2>5 DEF ActiveBounded, Active
<1>2. QED
  BY <1>1, AdmissionInvariant, PTL

-----------------------------------------------------------------------------
(***************************************************************************)
(* Wakeups.  A queue holds one future of each request that waits, and      *)
(* nothing else: a queue that is not empty of open futures is one that a   *)
(* wakeup finds somebody in.                                               *)
(***************************************************************************)
QueueInOrder ==
  /\ \A i \in DOMAIN waiters : pc[waiters[i]] \in Queued
  /\ \A i, k \in DOMAIN waiters : waiters[i] = waiters[k] => i = k

\* A set of places has a first one.
LEMMA FirstPlace ==
  ASSUME NEW S \in SUBSET Nat, S # {}
  PROVE  \E i \in S : \A k \in S : ~ (k < i)
<1> DEFINE T == {0..i : i \in S}
           R == StrictSubsetOrdering(Nat)
<1>1. IsWellFoundedOn(R, FiniteSubsetsOf(Nat))
  BY FS_StrictSubsetOrderingWellFounded
<1>2. ASSUME NEW i \in S PROVE 0..i \in FiniteSubsetsOf(Nat)
  BY FS_Interval DEF FiniteSubsetsOf
<1>3. T \subseteq FiniteSubsetsOf(Nat) /\ T # {}
  BY <1>2
<1>4. ASSUME NEW i \in S, NEW k \in S, k < i PROVE <<0..k, 0..i>> \in R
  <2>1. 0..k \subseteq 0..i /\ i \in 0..i /\ i \notin 0..k /\ 0..k \subseteq Nat /\ 0..i \subseteq Nat
    BY <1>4
  <2> QED
    BY <2>1 DEF StrictSubsetOrdering
<1> HIDE DEF R
<1>5. PICK x \in T : \A y \in T : ~ (<<y, x>> \in R)
  <2> HIDE DEF T
  <2> QED
    BY <1>1, <1>3, WFMin
<1>6. PICK i \in S : x = 0..i
  OBVIOUS
<1> QED
  BY <1>4, <1>5, <1>6

\* Whoever has a permit to give finds the first open future.
LEMMA SomebodyIsWoken ==
  ASSUME NEW q, NEW ws \in Seq(Requests), NEW n \in Nat \ {0},
         NEW i \in DOMAIN ws, ws[i] # q, pc[ws[i]] = "pending"
  PROVE  FirstPending(q, ws, n) # {}
<1> DEFINE Open == {k \in DOMAIN ws : ws[k] # q /\ pc[ws[k]] = "pending"}
<1>0. Open \in SUBSET Nat /\ i \in Open
  OBVIOUS
<1>1. PICK f \in Open : \A k \in Open : ~ (k < f)
  <2> HIDE DEF Open
  <2> QED
    BY <1>0, FirstPlace
<1> DEFINE Before == {k \in DOMAIN ws : k < f /\ ws[k] # q /\ pc[ws[k]] = "pending"}
<1>2. Before = {}
  BY <1>1
<1>3. Cardinality(Before) < n
  <2> HIDE DEF Before
  <2>1. Cardinality(Before) = 0
    BY <1>2, FS_EmptySet
  <2> QED
    BY <2>1
<1> QED
  BY <1>1, <1>3 DEF FirstPending

\* Where the futures stand once that of q is gone.
LEMMA DequeuedPlaces ==
  ASSUME NEW q \in Requests, AdmissionTypeOK, WaitingIsQueued, pc[q] \in Queued
  PROVE  /\ Place(q) \in 1..Len(waiters) /\ waiters[Place(q)] = q
         /\ DOMAIN Dequeued(q) = 1..(Len(waiters) - 1)
         /\ \A k \in 1..(Len(waiters) - 1) :
              Dequeued(q)[k] = waiters[IF k < Place(q) THEN k ELSE k + 1]
<1> DEFINE at == Place(q)
<1>1. waiters \in Seq(Requests) /\ at \in 1..Len(waiters) /\ waiters[at] = q
  BY DEF AdmissionTypeOK, WaitingIsQueued, Place
<1> HIDE DEF at
<1> DEFINE front == SubSeq(waiters, 1, at - 1)
           back == SubSeq(waiters, at + 1, Len(waiters))
<1>2. Dequeued(q) = front \o back
  BY DEF Dequeued, RemoveAt, at
<1>3. /\ front \in Seq(Requests) /\ Len(front) = at - 1
      /\ \A i \in 1..(at - 1) : front[i] = waiters[i]
  BY <1>1
<1>4. /\ back \in Seq(Requests) /\ Len(back) = Len(waiters) - at
      /\ \A i \in 1..(Len(waiters) - at) : back[i] = waiters[at + i]
  BY <1>1
<1> HIDE DEF front, back
<1>5. /\ DOMAIN (front \o back) = 1..(Len(waiters) - 1)
      /\ \A k \in 1..(Len(waiters) - 1) :
           (front \o back)[k] = IF k <= Len(front) THEN front[k] ELSE back[k - Len(front)]
  <2>1. Len(front) + Len(back) = Len(waiters) - 1
    BY <1>1, <1>3, <1>4
  <2>2. \A k \in 1..(Len(front) + Len(back)) :
          (front \o back)[k] = IF k <= Len(front) THEN front[k] ELSE back[k - Len(front)]
    BY <1>3, <1>4
  <2>3. /\ front \o back \in Seq(Requests)
        /\ Len(front \o back) = Len(front) + Len(back)
    BY <1>3, <1>4
  <2> QED
    BY <2>1, <2>2, <2>3
<1>6. ASSUME NEW k \in 1..(Len(waiters) - 1)
      PROVE  (front \o back)[k] = waiters[IF k < at THEN k ELSE k + 1]
  <2>1. CASE k < at
    BY <1>1, <1>3, <1>5, <2>1
  <2>2. CASE ~(k < at)
    <3>1. k - (at - 1) \in 1..(Len(waiters) - at) /\ at + (k - (at - 1)) = k + 1
      BY <1>1, <2>2
    <3> QED
      BY <1>1, <1>3, <1>4, <1>5, <2>2, <3>1
  <2> QED
    BY <2>1, <2>2
<1> QED
  BY <1>1, <1>2, <1>5, <1>6 DEF at

\* Who leaves the queue leaves the others in their order.
LEMMA DequeuedInOrder ==
  ASSUME NEW q \in Requests, AdmissionTypeOK, WaitingIsQueued, QueueInOrder,
         pc[q] \in Queued
  PROVE  LET ws == Dequeued(q)
         IN  /\ \A i \in DOMAIN ws : ws[i] # q /\ pc[ws[i]] \in Queued
             /\ \A i, k \in DOMAIN ws : ws[i] = ws[k] => i = k
<1> DEFINE at == Place(q)
           old(k) == IF k < at THEN k ELSE k + 1
           ws == Dequeued(q)
<1>1. /\ Len(waiters) \in Nat /\ DOMAIN waiters = 1..Len(waiters)
      /\ at \in 1..Len(waiters) /\ waiters[at] = q
      /\ DOMAIN ws = 1..(Len(waiters) - 1)
      /\ \A k \in DOMAIN ws : ws[k] = waiters[old(k)]
  BY DequeuedPlaces DEF AdmissionTypeOK
<1> HIDE DEF at, ws
<1>2. \A k \in DOMAIN ws : old(k) \in DOMAIN waiters /\ old(k) # at
  BY <1>1
<1>3. \A i, k \in DOMAIN ws : old(i) = old(k) => i = k
  BY <1>1
<1> HIDE DEF old
<1>4. \A i \in DOMAIN ws : ws[i] # q /\ pc[ws[i]] \in Queued
  BY <1>1, <1>2 DEF QueueInOrder
<1>5. \A i, k \in DOMAIN ws : ws[i] = ws[k] => i = k
  BY <1>1, <1>2, <1>3 DEF QueueInOrder
<1> QED
  BY <1>4, <1>5 DEF ws

\* Resume, Reject and Leave: who is left with an open future sees another one
\* woken, if there was anything to give.
LEMMA MoveWakes ==
  ASSUME NEW q \in Requests, NEW to \in {"out", "active"}, NEW ws \in Seq(Requests),
         NEW free \in Nat, NEW n \in Nat, n <= free, free > 0 => n > 0,
         AdmissionTypeOK, Move(q, to, ws, free, n),
         \A p \in Requests \ {q} : pc[p] \in Queued => \E i \in DOMAIN ws : ws[i] = p,
         \A i \in DOMAIN ws : ws[i] # q /\ pc[ws[i]] \in Queued,
         \A i, k \in DOMAIN ws : ws[i] = ws[k] => i = k
  PROVE  QueueInOrder' /\ NoLostWakeup'
<1> DEFINE W == FirstPending(q, ws, n)
<1>1. /\ W \subseteq {p \in Requests \ {q} : pc[p] = "pending"}
      /\ Cardinality(W) \in Nat
  BY FirstPendingBound
<1>2. /\ pc' = [p \in Requests |->
                 CASE p = q -> to [] p \in W -> "granted" [] OTHER -> pc[p]]
      /\ value' = free - Cardinality(W) /\ waiters' = ws
  BY DEF Move
<1> HIDE DEF W
<1>3. \A i \in DOMAIN ws : ws[i] \in Requests
  OBVIOUS
<1>4. QueueInOrder'
  BY <1>1, <1>2, <1>3 DEF QueueInOrder, Queued
<1>5. ASSUME value' > 0, NEW p \in Requests, pc'[p] = "pending"
      PROVE  \E r \in Requests : pc'[r] = "granted"
  <2>1. p # q /\ pc[p] = "pending"
    BY <1>2, <1>5
  <2>2. n \in Nat \ {0}
    BY <1>1, <1>2, <1>5
  <2>3. PICK i \in DOMAIN ws : ws[i] # q /\ pc[ws[i]] = "pending"
    BY <2>1 DEF Queued
  <2>4. W # {}
    BY <2>2, <2>3, SomebodyIsWoken DEF W
  <2> QED
    BY <1>1, <1>2, <2>4
<1> QED
  BY <1>4, <1>5 DEF NoLostWakeup

WakeInv == AdmissionInv /\ QueueInOrder /\ NoLostWakeup

\* Every step of acquire keeps the queue in order and loses no wakeup.
LEMMA NextWakeInv == WakeInv /\ [AdmissionNext]_admissionVars => (QueueInOrder /\ NoLostWakeup)'
<1> SUFFICES ASSUME WakeInv, [AdmissionNext]_admissionVars
             PROVE  (QueueInOrder /\ NoLostWakeup)'
  OBVIOUS
<1>1. /\ AdmissionInv /\ AdmissionTypeOK /\ WaitingIsQueued /\ QueueInOrder /\ NoLostWakeup
      /\ value \in Nat /\ waiters \in Seq(Requests)
      /\ pc \in [Requests -> Queued \cup {"out", "active"}]
      /\ \A p \in Requests : pc[p] \in Queued => \E i \in DOMAIN waiters : waiters[i] = p
  BY DEF WakeInv, AdmissionInv, AdmissionTypeOK, WaitingIsQueued
<1>2. ASSUME NEW q \in Requests, Enter(q) PROVE (QueueInOrder /\ NoLostWakeup)'
  <2>1. CASE Locked
    <3>1. /\ pc' = [pc EXCEPT ![q] = "pending"] /\ pc[q] = "out"
          /\ waiters' = Append(waiters, q) /\ value' = value
      BY <1>2, <2>1 DEF Enter
    <3>2. /\ DOMAIN waiters = 1..Len(waiters) /\ Len(waiters) \in Nat
          /\ DOMAIN waiters' = 1..(Len(waiters) + 1)
          /\ \A i \in DOMAIN waiters : waiters'[i] = waiters[i]
          /\ waiters'[Len(waiters) + 1] = q
      BY <1>1, <3>1
    <3>3. \A i \in DOMAIN waiters : waiters[i] # q /\ waiters[i] \in Requests
      BY <1>1, <3>1 DEF QueueInOrder, Queued
    <3>4. QueueInOrder'
      BY <1>1, <3>1, <3>2, <3>3 DEF QueueInOrder, Queued
    <3>5. ASSUME value' > 0 PROVE \E r \in Requests : pc'[r] \in {"granted", "revoked"}
      <4>1. PICK i \in DOMAIN waiters : pc[waiters[i]] # "cancelled"
        BY <1>1, <2>1, <3>1, <3>5 DEF Locked
      <4>2. waiters[i] \in Requests /\ pc[waiters[i]] \in {"pending", "granted", "revoked"}
        BY <1>1, <4>1 DEF QueueInOrder, Queued
      <4>3. PICK r \in Requests : pc[r] \in {"granted", "revoked"}
        BY <1>1, <3>1, <3>5, <4>2 DEF NoLostWakeup
      <4> QED
        BY <1>1, <3>1, <4>3
    <3> QED
      BY <3>4, <3>5 DEF NoLostWakeup
  <2>2. CASE ~Locked
    <3>1. /\ pc' = [pc EXCEPT ![q] = "active"] /\ pc[q] = "out"
          /\ waiters' = waiters /\ value' = value - 1 /\ value \in Nat \ {0}
      BY <1>1, <1>2, <2>2 DEF Enter, Locked
    <3>2. QueueInOrder'
      BY <1>1, <3>1 DEF QueueInOrder, Queued
    <3>3. NoLostWakeup'
      BY <1>1, <3>1 DEF NoLostWakeup
    <3> QED
      BY <3>2, <3>3
  <2> QED
    BY <2>1, <2>2
<1>3. ASSUME NEW q \in Requests, Resume(q) PROVE (QueueInOrder /\ NoLostWakeup)'
  <2>1. /\ pc[q] \in Queued /\ Move(q, "active", Dequeued(q), value, value)
    BY <1>3 DEF Resume, Queued
  <2> QED
    BY <1>1, <2>1, DequeuedQueue, DequeuedInOrder, MoveWakes
<1>4. ASSUME NEW q \in Requests, Cancel(q) PROVE (QueueInOrder /\ NoLostWakeup)'
  <2>1. /\ value' = value /\ waiters' = waiters /\ pc[q] \in {"pending", "granted"}
        /\ pc' = [pc EXCEPT ![q] = IF pc[q] = "pending" THEN "cancelled" ELSE "revoked"]
    BY <1>4 DEF Cancel
  <2>2. QueueInOrder'
    BY <1>1, <2>1 DEF QueueInOrder, Queued
  <2>3. NoLostWakeup'
    BY <1>1, <2>1 DEF NoLostWakeup
  <2> QED
    BY <2>2, <2>3
<1>5. ASSUME NEW q \in Requests, Reject(q) PROVE (QueueInOrder /\ NoLostWakeup)'
  <2>1. /\ pc[q] \in Queued /\ Move(q, "out", Dequeued(q), Returned(q), Returned(q))
        /\ Returned(q) \in Nat
    BY <1>1, <1>5 DEF Reject, Queued, Returned
  <2> QED
    BY <1>1, <2>1, DequeuedQueue, DequeuedInOrder, MoveWakes
<1>6. ASSUME NEW q \in Requests, Leave(q) PROVE (QueueInOrder /\ NoLostWakeup)'
  <2>1. pc[q] = "active" /\ Move(q, "out", waiters, value + 1, 1)
    BY <1>6 DEF Leave
  <2>2. /\ \A i \in DOMAIN waiters : waiters[i] # q /\ pc[waiters[i]] \in Queued
        /\ \A i, k \in DOMAIN waiters : waiters[i] = waiters[k] => i = k
    BY <1>1, <2>1 DEF QueueInOrder, Queued
  <2>3. value + 1 \in Nat /\ 1 <= value + 1
    BY <1>1
  <2> QED
    BY <1>1, <2>1, <2>2, <2>3, MoveWakes
<1>7. CASE UNCHANGED admissionVars
  BY <1>1, <1>7 DEF admissionVars, QueueInOrder, NoLostWakeup
<1> QED
  BY <1>2, <1>3, <1>4, <1>5, <1>6, <1>7 DEF AdmissionNext

\* No wakeup is lost: beside a free permit a request waits only while another one
\* that will pass permits on is about to run, whichever grant was cancelled when.
THEOREM WakeupsAreNotLost == AdmissionSpec => []NoLostWakeup
<1>1. AdmissionInit => WakeInv
  BY InitAdmissionInv DEF AdmissionInit, WakeInv, QueueInOrder, NoLostWakeup
<1>2. WakeInv /\ [AdmissionNext]_admissionVars => WakeInv'
  BY NextAdmissionInv, NextWakeInv DEF WakeInv
<1>3. WakeInv => NoLostWakeup
  BY DEF WakeInv
<1> QED
  BY <1>1, <1>2, <1>3, PTL DEF AdmissionSpec

(***************************************************************************)
(* The research routes on top of the admission.                            *)
(***************************************************************************)

\* The routes drive the admission by its own operations only, whatever a
\* request comes to: its steps are steps of the admission or none.
LEMMA StepIsAdmissionStep == [Next]_vars => [AdmissionNext]_admissionVars
<1> SUFFICES ASSUME [Next]_vars PROVE [AdmissionNext]_admissionVars
  OBVIOUS
<1>1. ASSUME NEW q \in Requests,
             Admit(q) \/ Wait(q) \/ TurnAway(q) \/ Finish(q)
      PROVE  [AdmissionNext]_admissionVars
  BY <1>1 DEF Admit, Wait, TurnAway, Finish, AdmissionNext
<1>2. ASSUME NEW q \in Requests, Answer(q)
      PROVE  UNCHANGED admissionVars
  BY <1>2 DEF Answer, Load, Generate, Fail, SaveLoad, SaveCommit
<1>3. ASSUME NEW q \in Requests, NEW route \in RouteKinds, NEW p \in Projects,
             Ask(q, route, p)
      PROVE  UNCHANGED admissionVars
  BY <1>3 DEF Ask
<1>4. Delete \/ UNCHANGED vars => UNCHANGED admissionVars
  BY DEF Delete, vars
<1>5. QED
  BY <1>1, <1>2, <1>3, <1>4 DEF Next

\* The research routes implement the protocol of BoundedAdmission.
THEOREM RoutesUseAdmission == Spec => AdmissionSpec
BY StepIsAdmissionStep, PTL DEF Spec, AdmissionSpec, Init

(***************************************************************************)
(* GraphInside is the inductive core: a query in the graph holds its       *)
(* place, because it leaves only when it has ended.                        *)
(***************************************************************************)
AskTypeOK == ask \in [Requests -> AskType] /\ stored \in RowType

GraphInside ==
  \A q \in Requests :
    (ask[q].route # "workflow" /\ ask[q].step \in InGraph) => pc[q] = "active"

GraphInv == AdmissionInv /\ AskTypeOK /\ GraphInside

\* No step but Leave of its own takes a place away.
LEMMA ActiveStays ==
  ASSUME AdmissionInv, [AdmissionNext]_admissionVars,
         NEW q \in Requests, pc[q] = "active", ~Leave(q)
  PROVE  pc'[q] = "active"
<1> USE DEF AdmissionInv, AdmissionTypeOK
<1>1. ASSUME NEW p \in Requests, p # q, NEW to, NEW ws, NEW free, NEW n,
             Move(p, to, ws, free, n)
      PROVE  pc'[q] = "active"
  BY <1>1 DEF Move, FirstPending
<1>2. ASSUME NEW p \in Requests,
             Enter(p) \/ Resume(p) \/ Cancel(p) \/ Reject(p) \/ Leave(p)
      PROVE  pc'[q] = "active"
  <2>1. p # q
    BY <1>2 DEF Enter, Resume, Cancel, Reject
  <2>2. CASE Enter(p) \/ Cancel(p)
    BY <2>1, <2>2 DEF Enter, Cancel
  <2>3. CASE Resume(p) \/ Reject(p) \/ Leave(p)
    BY <1>1, <2>1, <2>3 DEF Resume, Reject, Leave
  <2>4. QED
    BY <1>2, <2>2, <2>3
<1>3. QED
  BY <1>2 DEF AdmissionNext, admissionVars

\* No graph runs at first.
LEMMA InitGraphInv == Init => GraphInv
<1> SUFFICES ASSUME Init PROVE GraphInv
  OBVIOUS
<1>1. AdmissionInv
  BY InitAdmissionInv DEF Init
<1>2. NoRow \in RowType /\ NewAsk \in AskType
  BY DEF NoRow, RowType, NewAsk, AskType, Steps
<1>3. /\ ask = [q \in Requests |-> NewAsk] /\ stored = NoRow
      /\ NewAsk.route = "none" /\ NewAsk.step = "new"
  BY DEF Init, NewAsk
<1>4. QED
  BY <1>1, <1>2, <1>3 DEF GraphInv, AskTypeOK, GraphInside, InGraph

\* The requests and the row keep their types: one step per action.
LEMMA AskTypeStep ==
  ASSUME AskTypeOK, [Next]_vars
  PROVE  AskTypeOK'
<1> USE DEF AskTypeOK
<1>1. ASSUME NEW q \in Requests, NEW a \in AskType,
             ask' = [ask EXCEPT ![q] = a]
      PROVE  ask' \in [Requests -> AskType]
  BY <1>1
<1>2. NoRow \in RowType
  BY DEF NoRow, RowType
<1>3. ASSUME NEW q \in Requests, NEW step \in Steps, Goto(q, step)
      PROVE  ask' \in [Requests -> AskType]
  <2>1. [ask[q] EXCEPT !.step = step] \in AskType
    BY DEF AskType
  <2>2. ask' = [ask EXCEPT ![q] = [ask[q] EXCEPT !.step = step]]
    BY <1>3 DEF Goto
  <2>3. QED
    BY <1>1, <2>1, <2>2
<1>4. ASSUME NEW q \in Requests, NEW route \in RouteKinds, NEW p \in Projects,
             Ask(q, route, p)
      PROVE  AskTypeOK'
  <2> DEFINE step == IF route = "project" /\ OtherProject(p) THEN "refused" ELSE "checked"
             a == [NewAsk EXCEPT !.step = step, !.route = route, !.project = p]
  <2>1. step \in Steps
    BY <1>4 DEF Ask, Steps, Ended
  <2>2. ask' = [ask EXCEPT ![q] = a] /\ stored' = stored
    BY <1>4 DEF Ask
  <2>3. NewAsk \in AskType
    BY <1>2 DEF NewAsk, AskType, Steps
  <2> HIDE DEF step
  <2>4. a \in AskType
    BY <2>1, <2>3 DEF AskType
  <2> HIDE DEF a
  <2>5. QED
    BY <1>1, <2>1, <2>2, <2>4
<1>5. ASSUME NEW q \in Requests, Admit(q) PROVE AskTypeOK'
  BY <1>3, <1>5 DEF Admit, Steps, Ended
<1>6. ASSUME NEW q \in Requests, TurnAway(q) PROVE AskTypeOK'
  BY <1>3, <1>6 DEF TurnAway, Steps, Ended
<1>7. ASSUME NEW q \in Requests, NEW step \in Steps, NEW turns \in Seq(Requests),
             ask' = [ask EXCEPT ![q].step = step, ![q].turns = turns]
      PROVE  ask' \in [Requests -> AskType]
  <2> DEFINE a == [ask[q] EXCEPT !.step = step, !.turns = turns]
  <2>1. a \in AskType
    BY DEF AskType
  <2>2. ask' = [ask EXCEPT ![q] = a]
    BY <1>7
  <2> HIDE DEF a
  <2>3. QED
    BY <1>1, <2>1, <2>2
<1>8. ASSUME NEW q \in Requests, Load(q) PROVE AskTypeOK'
  <2>1. StoredTurns(q) \in Seq(Requests)
    BY DEF StoredTurns, RowType
  <2>2. QED
    BY <1>7, <1>8, <2>1 DEF Load, Steps, InGraph
<1>9. ASSUME NEW q \in Requests, Generate(q) PROVE AskTypeOK'
  <2>1. ask[q].turns \in Seq(Requests) /\ Answered(q) \in Seq(Requests)
    BY DEF Answered, AskType
  <2>2. QED
    BY <1>7, <1>9, <2>1 DEF Generate, Steps, InGraph
<1>10. ASSUME NEW q \in Requests, Fail(q) PROVE AskTypeOK'
  BY <1>3, <1>10 DEF Fail, Steps, Ended
<1>11. ASSUME NEW q \in Requests, SaveLoad(q) PROVE AskTypeOK'
  <2> DEFINE step == IF Foreign(q) THEN "failed" ELSE "saving"
             a == [ask[q] EXCEPT !.step = step, !.base = stored]
  <2>1. step \in Steps
    BY DEF Steps, Ended, InGraph
  <2>2. ask' = [ask EXCEPT ![q] = a] /\ stored' = stored
    BY <1>11 DEF SaveLoad
  <2> HIDE DEF step
  <2>3. a \in AskType
    BY <2>1 DEF AskType
  <2> HIDE DEF a
  <2>4. QED
    BY <1>1, <2>2, <2>3
<1>12. ASSUME NEW q \in Requests, SaveCommit(q) PROVE AskTypeOK'
  <2>1. ask[q].project \in Projects \cup {"none"} /\ ask[q].turns \in Seq(Requests)
    BY DEF AskType
  <2>2. [project |-> ask[q].project, turns |-> ask[q].turns] \in RowType
    BY <2>1 DEF RowType
  <2>3. [stored EXCEPT !.turns = ask[q].turns] \in RowType
    BY <2>1 DEF RowType
  <2>4. stored' \in RowType
    BY <1>12, <2>2, <2>3 DEF SaveCommit
  <2>5. Goto(q, "failed") \/ Goto(q, "recorded")
    BY <1>12 DEF SaveCommit
  <2>6. QED
    BY <1>3, <2>4, <2>5 DEF Steps, Ended
<1>13. CASE Delete
  BY <1>2, <1>13 DEF Delete
<1>14. ASSUME NEW q \in Requests, Wait(q) \/ Finish(q) PROVE AskTypeOK'
  BY <1>14 DEF Wait, Finish, sessionVars
<1>15. CASE UNCHANGED vars
  BY <1>15 DEF vars, sessionVars
<1>16. QED
  BY <1>4, <1>5, <1>6, <1>8, <1>9, <1>10, <1>11, <1>12, <1>13, <1>14, <1>15
     DEF Next, Answer

\* A query that runs a graph keeps its place.
LEMMA GraphInsideStep ==
  ASSUME GraphInv, [Next]_vars, [AdmissionNext]_admissionVars
  PROVE  GraphInside'
<1> SUFFICES ASSUME NEW q \in Requests,
                    ask'[q].route # "workflow", ask'[q].step \in InGraph
             PROVE  pc'[q] = "active"
  BY DEF GraphInside
<1> USE DEF GraphInv, AskTypeOK
<1> DEFINE Was == ask[q].route # "workflow" /\ (ask[q].step \in InGraph \/ Load(q))
<1>1. Was
  <2>1. ASSUME NEW p \in Requests, NEW step \in Ended \cup {"admitted"}, Goto(p, step)
        PROVE  Was
    BY <2>1 DEF Goto, AskType, InGraph, Ended
  <2>2. ASSUME NEW p \in Requests, NEW route \in RouteKinds, NEW k \in Projects,
               Ask(p, route, k)
        PROVE  Was
    <3>1. ask'[p].step \in {"refused", "checked"} /\ (p # q => ask'[q] = ask[q])
      BY <2>2 DEF Ask, NewAsk
    <3>2. QED
      BY <3>1 DEF InGraph
  <2>3. ASSUME NEW p \in Requests, Admit(p) \/ TurnAway(p) \/ Fail(p) \/ SaveCommit(p)
        PROVE  Was
    BY <2>1, <2>3 DEF Admit, TurnAway, Fail, SaveCommit, Ended
  <2>4. ASSUME NEW p \in Requests, Generate(p) \/ SaveLoad(p)
        PROVE  Was
    <3>1. CASE p = q
      <4>1. ask[q].step \in InGraph
        BY <2>4, <3>1 DEF Generate, SaveLoad, At, InGraph
      <4>2. ask'[q].route = ask[q].route
        BY <2>4, <3>1 DEF Generate, SaveLoad, AskType
      <4>3. QED
        BY <4>1, <4>2
    <3>2. CASE p # q
      BY <2>4, <3>2 DEF Generate, SaveLoad
    <3>3. QED
      BY <3>1, <3>2
  <2>5. ASSUME NEW p \in Requests, Load(p)
        PROVE  Was
    <3>1. ask'[q].route = ask[q].route /\ (p # q => ask'[q] = ask[q])
      BY <2>5 DEF Load, AskType
    <3>2. QED
      BY <2>5, <3>1
  <2>6. ASSUME UNCHANGED ask PROVE Was
    BY <2>6
  <2>7. ASSUME NEW p \in Requests, Wait(p) \/ Finish(p)
        PROVE  UNCHANGED ask
    BY <2>7 DEF Wait, Finish, sessionVars
  <2>8. Delete \/ UNCHANGED vars => UNCHANGED ask
    BY DEF Delete, vars, sessionVars
  <2> HIDE DEF Was
  <2>9. QED
    BY <2>2, <2>3, <2>4, <2>5, <2>6, <2>7, <2>8 DEF Next, Answer
<1>2. pc[q] = "active"
  BY <1>1 DEF GraphInside, Load, Inside
<1>3. Leave(q) => FALSE
  <2> SUFFICES ASSUME Leave(q) PROVE FALSE
    OBVIOUS
  <2>1. pc'[q] = "out"
    BY DEF Leave, Move, FirstPending
  <2>2. pc' # pc
    BY <1>2, <2>1
  <2>3. PICK p \in Requests : Admit(p) \/ Wait(p) \/ TurnAway(p) \/ Finish(p)
    BY <2>2 DEF Next, Answer, Ask, Load, Generate, Fail, SaveLoad, SaveCommit, Delete,
               vars, admissionVars
  <2>4. CASE Admit(p)
    <3>1. p # q /\ Enter(p)
      BY <1>2, <2>2, <2>4 DEF Admit, Enter, admissionVars
    <3>2. QED
      BY <1>2, <2>1, <3>1 DEF Enter, AdmissionInv, AdmissionTypeOK
  <2>5. CASE Wait(p) \/ TurnAway(p) \/ (Finish(p) /\ p # q)
    BY <1>2, <2>1, <2>5 DEF Wait, TurnAway, Finish, Resume, Cancel, Reject, Leave, Move,
       FirstPending, AdmissionInv, AdmissionTypeOK
  <2>6. CASE Finish(p) /\ p = q
    BY <1>1, <2>6 DEF Finish, Load, sessionVars, admissionVars, InGraph, Ended
  <2>7. QED
    BY <2>3, <2>4, <2>5, <2>6
<1>4. QED
  BY <1>2, <1>3, ActiveStays

\* A query that runs a graph holds a place in the admission all the while.
THEOREM GraphInvariant == Spec => []GraphInv
<1>1. GraphInv /\ [Next]_vars => GraphInv'
  <2> SUFFICES ASSUME GraphInv, [Next]_vars PROVE GraphInv'
    OBVIOUS
  <2>1. [AdmissionNext]_admissionVars
    BY StepIsAdmissionStep
  <2>2. AdmissionInv'
    BY <2>1, NextAdmissionInv DEF GraphInv
  <2>3. AskTypeOK'
    BY AskTypeStep DEF GraphInv
  <2>4. GraphInside'
    BY <2>1, GraphInsideStep
  <2>5. QED
    BY <2>2, <2>3, <2>4 DEF GraphInv
<1>2. QED
  BY <1>1, InitGraphInv, PTL DEF Spec

\* No more research graphs run for queries than RESEARCH_CONCURRENCY, whatever
\* fails or is cancelled, and whatever runs beside them.
THEOREM GraphsAreBounded == Spec => []GraphsBounded
<1>1. GraphInv => GraphsBounded
  <2> SUFFICES ASSUME GraphInv PROVE GraphsBounded
    OBVIOUS
  <2> DEFINE Graphs ==
        {q \in Requests : ask[q].route # "workflow" /\ ask[q].step \in InGraph}
  <2>1. Graphs \in SUBSET Holders
    BY DEF GraphInv, GraphInside, Holders
  <2>2. IsFiniteSet(Holders) /\ Cardinality(Holders) \in Nat
    BY FiniteCounts
  <2> HIDE DEF Graphs
  <2>3. Cardinality(Graphs) <= Cardinality(Holders) /\ Cardinality(Graphs) \in Nat
    BY <2>1, <2>2, FS_Subset, FS_CardinalityType
  <2>4. value \in Nat /\ value + Cardinality(Holders) = Concurrency
    BY DEF GraphInv, AdmissionInv, AdmissionTypeOK, PermitsConserved, Holders
  <2>5. Cardinality(Graphs) <= Concurrency
    BY <2>2, <2>3, <2>4
  <2>6. QED
    BY <2>5 DEF GraphsBounded, Graphs
<1>2. QED
  BY <1>1, GraphInvariant, PTL

-----------------------------------------------------------------------------
(***************************************************************************)
(* Conversations, with one place in the admission (the default of          *)
(* RESEARCH_CONCURRENCY).  Then one query at a time is between its load    *)
(* and its commit, and short of a deletion the row is what it has loaded.  *)
(***************************************************************************)
Extends(s, t) == Len(s) <= Len(t) /\ \A i \in 1..Len(s) : s[i] = t[i]

OneGraph ==
  \A q, r \in Requests :
    /\ ask[q].route # "workflow" /\ ask[q].step \in InGraph
    /\ ask[r].route # "workflow" /\ ask[r].step \in InGraph
    => q = r

\* What is true of a request in the graph, and of the turns it carries.
Fits(a) ==
  /\ \A t \in ToSet(a.turns) : ask[t].step # "new" /\ ask[t].project = a.project
  /\ stored # NoRow /\ stored.project = a.project => Extends(stored.turns, a.turns)
  /\ a.step = "saving" => /\ stored \in {a.base, NoRow}
                          /\ a.base # NoRow => a.base.project = a.project

SessionInv ==
  /\ \A t \in ToSet(stored.turns) : ask[t].step # "new" /\ ask[t].project = stored.project
  /\ \A q \in Requests : ask[q].step \in InGraph => Fits(ask[q])

NewUnrouted == \A q \in Requests : ask[q].step = "new" => ask[q].route = "none"

\* Two requests that hold a place are more than one.
LEMMA OneGraphAtATime ==
  ASSUME Concurrency = 1, GraphInv
  PROVE  OneGraph
<1> SUFFICES ASSUME NEW q \in Requests, NEW r \in Requests, q # r,
                    ask[q].route # "workflow", ask[q].step \in InGraph,
                    ask[r].route # "workflow", ask[r].step \in InGraph
             PROVE  FALSE
  BY DEF OneGraph
<1>1. {q, r} \subseteq Holders
  BY DEF GraphInv, GraphInside, Holders
<1>2. IsFiniteSet(Holders) /\ Cardinality(Holders) \in Nat
  BY FiniteCounts
<1>3. Cardinality({q, r}) = 2
  <2>1. Cardinality({q}) = 1 /\ IsFiniteSet({q})
    BY FS_Singleton
  <2>2. r \notin {q}
    OBVIOUS
  <2>3. Cardinality({q} \cup {r}) = Cardinality({q}) + 1
    BY <2>1, <2>2, CardAdd, Zenon
  <2>4. {q} \cup {r} = {q, r}
    OBVIOUS
  <2>5. QED
    BY <2>1, <2>3, <2>4
<1>4. Cardinality(Holders) >= 2
  BY <1>1, <1>2, <1>3, FS_Subset
<1>5. value \in Nat /\ value + Cardinality(Holders) = 1
  BY DEF GraphInv, AdmissionInv, AdmissionTypeOK, PermitsConserved, Holders
<1>6. QED
  BY <1>2, <1>4, <1>5

\* A request moves on, and the row stays.
LEMMA AskMoves ==
  ASSUME AskTypeOK, SessionInv, NEW q \in Requests, NEW a \in AskType,
         ask' = [ask EXCEPT ![q] = a], stored' = stored,
         a.step # "new", ask[q].step = "new" \/ a.project = ask[q].project,
         a.step \in InGraph =>
           /\ \A t \in ToSet(a.turns) :
                t = q \/ (ask[t].step # "new" /\ ask[t].project = a.project)
           /\ stored # NoRow /\ stored.project = a.project => Extends(stored.turns, a.turns)
           /\ a.step = "saving" => /\ stored \in {a.base, NoRow}
                                   /\ a.base # NoRow => a.base.project = a.project
  PROVE  SessionInv'
<1>1. /\ ask'[q] = a
      /\ \A t \in Requests \ {q} : ask'[t] = ask[t]
      /\ stored.turns \in Seq(Requests) /\ a.turns \in Seq(Requests)
      /\ \A r \in Requests : ask[r].turns \in Seq(Requests)
  BY DEF AskTypeOK, AskType, RowType
<1>2. ASSUME NEW t \in Requests, ask[t].step # "new"
      PROVE  ask'[t].step # "new" /\ ask'[t].project = ask[t].project
  BY <1>1, <1>2
<1>3. \A t \in ToSet(stored.turns) :
        t \in Requests /\ ask'[t].step # "new" /\ ask'[t].project = stored.project
  BY <1>1, <1>2 DEF SessionInv, ToSet
<1>4. ASSUME NEW r \in Requests, ask'[r].step \in InGraph
      PROVE  /\ \A t \in ToSet(ask'[r].turns) :
                  ask'[t].step # "new" /\ ask'[t].project = ask'[r].project
             /\ stored # NoRow /\ stored.project = ask'[r].project =>
                  Extends(stored.turns, ask'[r].turns)
             /\ ask'[r].step = "saving" =>
                  /\ stored \in {ask'[r].base, NoRow}
                  /\ ask'[r].base # NoRow => ask'[r].base.project = ask'[r].project
  <2>1. CASE r = q
    <3>1. \A t \in ToSet(a.turns) : t \in Requests
      BY <1>1 DEF ToSet
    <3>2. QED
      BY <1>1, <1>2, <1>4, <2>1, <3>1
  <2>2. CASE r # q
    <3>1. ask'[r] = ask[r] /\ Fits(ask[r])
      BY <1>1, <1>4, <2>2 DEF SessionInv
    <3>2. \A t \in ToSet(ask[r].turns) : t \in Requests
      BY <1>1 DEF ToSet
    <3>3. QED
      BY <1>2, <3>1, <3>2 DEF Fits
  <2>3. QED
    BY <2>1, <2>2
<1>5. QED
  BY <1>3, <1>4 DEF SessionInv, Fits, Extends

\* What a commit writes: the turns of its own project, more than there were.
LEMMA CommitFits ==
  ASSUME AskTypeOK, SessionInv, NEW q \in Requests, SaveCommit(q)
  PROVE  /\ \/ stored' = stored
            \/ stored'.project = ask[q].project /\ stored'.turns = ask[q].turns
         /\ stored # NoRow /\ stored' # NoRow =>
              stored'.project = stored.project /\ Extends(stored.turns, stored'.turns)
<1>1. /\ ask[q] \in AskType /\ stored \in RowType /\ ask[q].base \in RowType
      /\ ask[q].turns \in Seq(Requests) /\ stored.turns \in Seq(Requests)
  BY DEF AskTypeOK, AskType, RowType
<1>2. /\ Fits(ask[q]) /\ ask[q].step = "saving"
  BY DEF SaveCommit, At, InGraph, SessionInv
<1>3. /\ stored \in {ask[q].base, NoRow}
      /\ ask[q].base # NoRow => ask[q].base.project = ask[q].project
      /\ stored # NoRow /\ stored.project = ask[q].project =>
           Extends(stored.turns, ask[q].turns)
  BY <1>2 DEF Fits
<1>4. Extends(stored.turns, stored.turns)
  BY <1>1 DEF Extends
<1>5. CASE stored' = stored
  BY <1>4, <1>5
<1>6. CASE stored' = [project |-> ask[q].project, turns |-> ask[q].turns] /\ stored = NoRow
  BY <1>6
<1>7. CASE stored' = [stored EXCEPT !.turns = ask[q].turns] /\ stored # NoRow
  BY <1>1, <1>3, <1>7 DEF RowType
<1>8. QED
  BY <1>5, <1>6, <1>7 DEF SaveCommit

\* What a save writes when it has the conversation to itself.
LEMMA CommitStep ==
  ASSUME AskTypeOK, SessionInv, OneGraph, OnlyQueries, NEW q \in Requests, SaveCommit(q)
  PROVE  SessionInv'
<1>1. PICK step \in {"failed", "recorded"} : ask' = [ask EXCEPT ![q].step = step]
  BY DEF SaveCommit, Goto
<1>2. ask[q] \in AskType /\ stored.turns \in Seq(Requests) /\ ask[q].turns \in Seq(Requests)
  BY DEF AskTypeOK, AskType, RowType
<1>3. /\ ask[q].step = "saving" /\ Fits(ask[q])
  BY DEF SaveCommit, At, InGraph, SessionInv
<1>4. \A t \in Requests : /\ ask'[t].project = ask[t].project
                          /\ ask[t].step # "new" => ask'[t].step # "new"
                          /\ t # q => ask'[t] = ask[t]
  BY <1>1, <1>2 DEF AskTypeOK, AskType
<1>5. \A r \in Requests : ask'[r].step \notin InGraph
  <2>1. ask'[q].step = step
    BY <1>1, <1>2 DEF AskTypeOK, AskType
  <2>2. \A r \in Requests : r # q => ask[r].step \notin InGraph
    BY <1>3 DEF OneGraph, OnlyQueries, InGraph
  <2>3. QED
    BY <1>4, <2>1, <2>2 DEF InGraph
<1>6. \A t \in ToSet(stored'.turns) :
        t \in Requests /\ ask[t].step # "new" /\ ask[t].project = stored'.project
  <2>1. CASE stored' = stored
    BY <1>2, <2>1 DEF SessionInv, ToSet
  <2>2. CASE stored'.project = ask[q].project /\ stored'.turns = ask[q].turns
    BY <1>2, <1>3, <2>2 DEF Fits, ToSet
  <2>3. QED
    BY <2>1, <2>2, CommitFits
<1>7. QED
  BY <1>4, <1>5, <1>6 DEF SessionInv

\* Every step of queries keeps the turns of one project together.
LEMMA SessionStep ==
  ASSUME AskTypeOK, AskTypeOK', NewUnrouted, OneGraph, OnlyQueries, SessionInv, [Next]_vars
  PROVE  SessionInv'
<1>0. /\ ask \in [Requests -> AskType] /\ stored \in RowType
      /\ \A q \in Requests : ask'[q] \in AskType
  BY DEF AskTypeOK
<1>1. ASSUME NEW q \in Requests, NEW step \in {"admitted", "refused", "failed"}, Goto(q, step),
             stored' = stored
      PROVE  SessionInv'
  <2> DEFINE a == [ask[q] EXCEPT !.step = step]
  <2>1. ask' = [ask EXCEPT ![q] = a]
    BY <1>1 DEF Goto
  <2>2. a \in AskType /\ a.step = step /\ a.project = ask[q].project
    BY <1>0 DEF AskType, Steps, Ended
  <2> HIDE DEF a
  <2>3. a.step \notin InGraph /\ a.step # "new"
    BY <2>2 DEF InGraph
  <2>4. QED
    BY <1>1, <2>1, <2>2, <2>3, AskMoves
<1>2. ASSUME NEW q \in Requests, NEW route \in RouteKinds, NEW p \in Projects,
             Ask(q, route, p)
      PROVE  SessionInv'
  <2> DEFINE step == IF route = "project" /\ OtherProject(p) THEN "refused" ELSE "checked"
             a == [NewAsk EXCEPT !.step = step, !.route = route, !.project = p]
  <2>1. ask' = [ask EXCEPT ![q] = a] /\ stored' = stored /\ ask[q].step = "new"
    BY <1>2 DEF Ask, At
  <2>2. a.step \in {"refused", "checked"}
    BY DEF NewAsk
  <2>3. a \in AskType
    <3>1. ask'[q] = a
      BY <1>0, <2>1
    <3>2. QED
      BY <1>0, <3>1
  <2> HIDE DEF a
  <2>4. QED
    BY <2>1, <2>2, <2>3, AskMoves DEF InGraph
<1>3. ASSUME NEW q \in Requests, Load(q) PROVE SessionInv'
  <2> DEFINE a == [ask[q] EXCEPT !.step = "running", !.turns = StoredTurns(q)]
  <2>1. ask' = [ask EXCEPT ![q] = a] /\ stored' = stored
    BY <1>3 DEF Load
  <2>2. /\ ask'[q] = a /\ a \in AskType /\ a.step = "running"
        /\ a.project = ask[q].project /\ a.turns = StoredTurns(q)
    BY <1>0, <2>1 DEF AskType
  <2> HIDE DEF a
  <2>3. \A t \in ToSet(a.turns) : ask[t].step # "new" /\ ask[t].project = a.project
    BY <2>2 DEF StoredTurns, SessionInv, ToSet
  <2>4. stored.project = a.project => Extends(stored.turns, a.turns)
    BY <1>0, <2>2 DEF StoredTurns, Extends, RowType
  <2>5. QED
    BY <2>1, <2>2, <2>3, <2>4, AskMoves
<1>4. ASSUME NEW q \in Requests, Generate(q) PROVE SessionInv'
  <2>1. PICK turns \in {Answered(q), ask[q].turns} :
          ask' = [ask EXCEPT ![q].step = "answered", ![q].turns = turns]
    BY <1>4 DEF Generate
  <2> DEFINE a == [ask[q] EXCEPT !.step = "answered", !.turns = turns]
  <2>2. ask' = [ask EXCEPT ![q] = a] /\ stored' = stored /\ ask[q].step = "running"
    BY <1>4, <2>1 DEF Generate, At
  <2>3. /\ ask'[q] = a /\ a \in AskType /\ a.step = "answered"
        /\ a.project = ask[q].project /\ a.turns = turns
    BY <1>0, <2>2 DEF AskType
  <2> HIDE DEF a
  <2>4. Fits(ask[q]) /\ ask[q].turns \in Seq(Requests)
    BY <1>0, <2>2 DEF SessionInv, InGraph, AskType
  <2>5. /\ DOMAIN turns = 1..Len(turns) /\ Len(turns) \in Nat /\ Len(ask[q].turns) \in Nat
        /\ DOMAIN ask[q].turns = 1..Len(ask[q].turns) /\ Len(ask[q].turns) <= Len(turns)
        /\ \A i \in 1..Len(ask[q].turns) : turns[i] = ask[q].turns[i]
        /\ \A i \in 1..Len(turns) : i > Len(ask[q].turns) => turns[i] = q
    BY <2>4 DEF Answered
  <2>6. \A t \in ToSet(a.turns) : t = q \/ t \in ToSet(ask[q].turns)
    BY <2>3, <2>5 DEF ToSet
  <2>7. stored # NoRow /\ stored.project = a.project => Extends(stored.turns, a.turns)
    <3>1. stored.turns \in Seq(Requests)
      BY <1>0 DEF RowType
    <3>2. QED
      BY <2>3, <2>4, <2>5, <3>1 DEF Fits, Extends
  <2>8. \A t \in ToSet(a.turns) :
          t = q \/ (ask[t].step # "new" /\ ask[t].project = a.project)
    BY <2>3, <2>4, <2>6 DEF Fits
  <2>9. QED
    BY <2>2, <2>3, <2>7, <2>8, AskMoves
<1>5. ASSUME NEW q \in Requests, SaveLoad(q) PROVE SessionInv'
  <2> DEFINE step == IF Foreign(q) THEN "failed" ELSE "saving"
             a == [ask[q] EXCEPT !.step = step, !.base = stored]
  <2>1. ask' = [ask EXCEPT ![q] = a] /\ stored' = stored /\ ask[q].step = "answered"
    BY <1>5 DEF SaveLoad, At
  <2>2. /\ ask'[q] = a /\ a \in AskType /\ a.step = step /\ a.base = stored
        /\ a.project = ask[q].project /\ a.turns = ask[q].turns
    BY <1>0, <2>1 DEF AskType
  <2> HIDE DEF a
  <2>3. Fits(ask[q])
    BY <2>1 DEF SessionInv, InGraph
  <2>4. a.step = "saving" => (stored # NoRow => stored.project = a.project)
    BY <2>2 DEF Foreign, OtherProject
  <2>5. a.step # "new"
    BY <2>2
  <2>6. QED
    BY <2>1, <2>2, <2>3, <2>4, <2>5, AskMoves DEF Fits
<1>6. ASSUME NEW q \in Requests, SaveCommit(q) PROVE SessionInv'
  BY <1>6, CommitStep
<1>7. CASE Delete
  <2>1. ask' = ask /\ stored' = NoRow
    BY <1>7 DEF Delete
  <2>2. ToSet(NoRow.turns) = {}
    BY DEF NoRow, ToSet
  <2>3. QED
    BY <2>1, <2>2 DEF SessionInv, Fits
<1>8. ASSUME UNCHANGED <<ask, stored>> PROVE SessionInv'
  BY <1>8 DEF SessionInv, Fits, Extends
<1>9. ASSUME NEW q \in Requests, Admit(q) PROVE SessionInv'
  BY <1>1, <1>9 DEF Admit
<1>10. ASSUME NEW q \in Requests, TurnAway(q) PROVE SessionInv'
  BY <1>1, <1>10 DEF TurnAway
<1>11. ASSUME NEW q \in Requests, Fail(q) PROVE SessionInv'
  BY <1>1, <1>11 DEF Fail
<1>12. QED
  BY <1>2, <1>3, <1>4, <1>5, <1>6, <1>7, <1>8, <1>9, <1>10, <1>11
     DEF Next, Answer, Wait, Finish, sessionVars, vars

\* A request keeps the route it came by.
LEMMA RoutesStay ==
  ASSUME AskTypeOK, NewUnrouted, [Next]_vars
  PROVE  NewUnrouted' /\ (OnlyQueries' => OnlyQueries)
<1>1. ASSUME NEW r \in Requests
      PROVE  \/ ask'[r] = ask[r]
             \/ ask'[r].step # "new" /\ ask'[r].route = ask[r].route
             \/ ask'[r].step # "new" /\ ask[r].step = "new"
  <2>0. ask \in [Requests -> AskType]
    BY DEF AskTypeOK
  <2>1. ASSUME NEW q \in Requests, NEW step \in {"admitted", "refused", "failed", "recorded"},
               Goto(q, step)
        PROVE  ask'[r] = ask[r] \/ (ask'[r].step # "new" /\ ask'[r].route = ask[r].route)
    BY <2>0, <2>1 DEF Goto, AskType
  <2>2. ASSUME NEW q \in Requests, NEW route \in RouteKinds, NEW p \in Projects,
               Ask(q, route, p)
        PROVE  ask'[r] = ask[r] \/ (ask'[r].step # "new" /\ ask[r].step = "new")
    BY <2>0, <2>2 DEF Ask, At, NewAsk
  <2>3. ASSUME NEW q \in Requests, Admit(q) \/ TurnAway(q) \/ Fail(q) \/ SaveCommit(q)
        PROVE  ask'[r] = ask[r] \/ (ask'[r].step # "new" /\ ask'[r].route = ask[r].route)
    BY <2>1, <2>3 DEF Admit, TurnAway, Fail, SaveCommit
  <2>4. ASSUME NEW q \in Requests, Load(q) \/ Generate(q) \/ SaveLoad(q)
        PROVE  ask'[r] = ask[r] \/ (ask'[r].step # "new" /\ ask'[r].route = ask[r].route)
    BY <2>0, <2>4 DEF Load, Generate, SaveLoad, AskType
  <2>5. ASSUME ask' = ask PROVE ask'[r] = ask[r]
    BY <2>5
  <2>6. QED
    BY <2>2, <2>3, <2>4, <2>5
       DEF Next, Answer, Wait, Finish, Delete, sessionVars, vars
<1>2. NewUnrouted'
  BY <1>1 DEF NewUnrouted
<1>3. OnlyQueries' => OnlyQueries
  BY <1>1 DEF OnlyQueries, NewUnrouted
<1>4. QED
  BY <1>2, <1>3

ConversationInv == GraphInv /\ NewUnrouted /\ (OnlyQueries => SessionInv)

\* The invariant of conversations with one graph at a time.
LEMMA ConversationInvariant ==
  ASSUME Concurrency = 1
  PROVE  Spec => []ConversationInv
<1>1. Init => NewUnrouted /\ SessionInv
  BY DEF Init, NewAsk, NoRow, NewUnrouted, SessionInv, ToSet, InGraph
<1>2. /\ GraphInv /\ NewUnrouted /\ (OnlyQueries => SessionInv)
      /\ GraphInv' /\ [Next]_vars
      => NewUnrouted' /\ (OnlyQueries' => SessionInv')
  BY RoutesStay, SessionStep, OneGraphAtATime DEF GraphInv
<1>3. QED
  BY <1>1, <1>2, GraphInvariant, PTL DEF Spec, ConversationInv

\* With one place in the admission, and for any number of queries and projects,
\* a conversation holds the turns of its own project only.
THEOREM ConversationsAreIsolated ==
  ASSUME Concurrency = 1
  PROVE  Spec => []ProjectIsolated
<1>1. ConversationInv => ProjectIsolated
  BY DEF ConversationInv, SessionInv, ProjectIsolated
<1>2. QED
  BY <1>1, ConversationInvariant, PTL

\* With one place in the admission, a query adds its turns behind everything that
\* was recorded before it.
THEOREM TurnsAreOnlyAdded ==
  ASSUME Concurrency = 1
  PROVE  Spec => TurnsOnlyGrow
<1> DEFINE Grown == OnlyQueries /\ stored # NoRow /\ stored' # NoRow =>
                      /\ stored'.project = stored.project
                      /\ IsPrefix(stored.turns, stored'.turns)
<1>1. ASSUME ConversationInv, AskTypeOK', [Next]_vars PROVE [Grown]_vars
  <2> SUFFICES ASSUME OnlyQueries, stored # NoRow, stored' # NoRow
               PROVE  /\ stored'.project = stored.project
                      /\ IsPrefix(stored.turns, stored'.turns)
    OBVIOUS
  <2>1. stored.turns \in Seq(Requests) /\ stored'.turns \in Seq(Requests) /\ AskTypeOK
    BY <1>1 DEF ConversationInv, GraphInv, AskTypeOK, RowType
  <2>2. stored' = stored \/ \E q \in Requests : SaveCommit(q)
    BY <1>1 DEF Next, Answer, Ask, Admit, Wait, TurnAway, Finish, Load, Generate, Fail,
                SaveLoad, Delete, sessionVars, vars
  <2>3. stored'.project = stored.project /\ Extends(stored.turns, stored'.turns)
    <3>1. CASE stored' = stored
      BY <2>1, <3>1 DEF Extends
    <3>2. CASE \E q \in Requests : SaveCommit(q)
      BY <1>1, <2>1, <3>2, CommitFits DEF ConversationInv
    <3>3. QED
      BY <2>2, <3>1, <3>2
  <2>4. IsPrefix(stored.turns, stored'.turns)
    BY <2>1, <2>3 DEF Extends, IsPrefix
  <2>5. QED
    BY <2>3, <2>4
<1>2. ConversationInv => AskTypeOK
  BY DEF ConversationInv, GraphInv
<1>3. QED
  BY <1>1, <1>2, ConversationInvariant, PTL DEF Spec, TurnsOnlyGrow
=============================================================================
