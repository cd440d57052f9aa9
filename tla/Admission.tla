------------------------------ MODULE Admission ------------------------------
(***************************************************************************)
(* BoundedAdmission (app/core/admission.py): a bounded number of requests  *)
(* inside, a bounded number of them active.  It stands on asyncio's        *)
(* Semaphore and wait_for (Python 3.13, the version of the Dockerfile).    *)
(*                                                                         *)
(* One event loop runs everything: what lies between two awaits is one     *)
(* step.  A request that must wait owns a future in the semaphore's queue. *)
(* A release resolves a future, and the request goes on in a later turn of *)
(* the loop; in between, its timeout or its client can still cancel it.    *)
(***************************************************************************)
EXTENDS Integers, FiniteSets, SequencesExt

CONSTANTS
  Requests,     \* tasks that may call acquire, each many times
  Concurrency,  \* RESEARCH_CONCURRENCY
  QueueSize     \* RESEARCH_QUEUE_SIZE

ASSUME AdmissionAssumption ==
  /\ IsFiniteSet(Requests)
  /\ Concurrency \in Nat \ {0}
  /\ QueueSize \in Nat

VARIABLES
  pc,       \* where each request is
  value,    \* Semaphore._value
  waiters,  \* Semaphore._waiters, the requests whose futures are queued
  waiting   \* BoundedAdmission._waiting: the requests inside, active or not

admissionVars == <<pc, value, waiters, waiting>>

\* "pending": its future is open.  "granted": resolved, not resumed yet.
\* "cancelled": cancelled while open.  "revoked": cancelled after it was
\* resolved.
Queued == {"pending", "granted", "cancelled", "revoked"}

AdmissionTypeOK ==
  /\ pc \in [Requests -> Queued \cup {"out", "active"}]
  /\ value \in Nat
  /\ waiters \in Seq(Requests)
  /\ waiting \in Nat

AdmissionInit ==
  /\ pc = [q \in Requests |-> "out"]
  /\ value = Concurrency
  /\ waiters = <<>>
  /\ waiting = 0

-----------------------------------------------------------------------------
(* asyncio.Semaphore *)

Locked ==
  value = 0 \/ \E i \in DOMAIN waiters : pc[waiters[i]] # "cancelled"

\* The first n open futures of a queue, but for that of q: _wake_up_next n
\* times.
FirstPending(q, ws, n) ==
  {p \in {ws[i] : i \in DOMAIN ws} \ {q} :
     pc[p] = "pending" /\
     \E i \in DOMAIN ws : ws[i] = p /\
       Cardinality({k \in DOMAIN ws : k < i /\ ws[k] # q /\ pc[ws[k]] = "pending"}) < n}

\* q moves to "to", the queue to ws, and up to n of "free" permits go to the
\* futures at its head.
Move(q, to, ws, free, n) ==
  LET woken == FirstPending(q, ws, n)
  IN  /\ pc' = [p \in Requests |->
                  CASE p = q -> to
                    [] p \in woken -> "granted"
                    [] OTHER -> pc[p]]
      /\ waiters' = ws
      /\ value' = free - Cardinality(woken)

Place(q) == CHOOSE i \in DOMAIN waiters : waiters[i] = q

Dequeued(q) == RemoveAt(waiters, Place(q))

-----------------------------------------------------------------------------
(* BoundedAdmission.acquire *)

Room == waiting < Concurrency + QueueSize

\* Up to the first await: at once inside, or in the queue.
Enter(q) ==
  /\ pc[q] = "out"
  /\ Room
  /\ waiting' = waiting + 1
  /\ IF Locked
       THEN /\ pc' = [pc EXCEPT ![q] = "pending"]
            /\ waiters' = Append(waiters, q)
            /\ UNCHANGED value
       ELSE /\ pc' = [pc EXCEPT ![q] = "active"]
            /\ value' = value - 1
            /\ UNCHANGED waiters

\* The granted request takes its future out of the queue and, in the finally
\* of Semaphore.acquire, passes on whatever else is free.
Resume(q) ==
  /\ pc[q] = "granted"
  /\ Move(q, "active", Dequeued(q), value, value)
  /\ UNCHANGED waiting

\* wait_for runs out, or the client goes away: the task is cancelled.
Cancel(q) ==
  /\ pc[q] \in {"pending", "granted"}
  /\ pc' = [pc EXCEPT ![q] = IF pc[q] = "pending" THEN "cancelled" ELSE "revoked"]
  /\ UNCHANGED <<value, waiters, waiting>>

\* The permits there are after q has been cancelled: one that was granted
\* returns.
Returned(q) == IF pc[q] = "revoked" THEN value + 1 ELSE value

\* Mutant: a returned permit stays in the semaphore.
RejectSilently(q) ==
  /\ pc[q] \in {"cancelled", "revoked"}
  /\ Move(q, "out", Dequeued(q), Returned(q), 0)
  /\ waiting' = waiting - 1

\* The cancelled task runs: AdmissionRejected (or CancelledError) leaves
\* acquire through its finally.
Reject(q) ==
  /\ pc[q] \in {"cancelled", "revoked"}
  /\ Move(q, "out", Dequeued(q), Returned(q), Returned(q))
  /\ waiting' = waiting - 1

\* Mutant: the finally forgets the permit.
LeaveHolding(q) ==
  /\ pc[q] = "active"
  /\ pc' = [pc EXCEPT ![q] = "out"]
  /\ waiting' = waiting - 1
  /\ UNCHANGED <<value, waiters>>

\* The body ends or raises: the finally releases one permit.
Leave(q) ==
  /\ pc[q] = "active"
  /\ Move(q, "out", waiters, value + 1, 1)
  /\ waiting' = waiting - 1

AdmissionNext ==
  \E q \in Requests : Enter(q) \/ Resume(q) \/ Cancel(q) \/ Reject(q) \/ Leave(q)

AdmissionSpec == AdmissionInit /\ [][AdmissionNext]_admissionVars

(* The event loop runs every ready task, and a research graph ends (each of *)
(* its model calls has a timeout).  Nothing is assumed of the timeout of    *)
(* wait_for, nor that a request ever enters.                                *)
AdmissionFairness ==
  \A q \in Requests : /\ WF_admissionVars(Resume(q))
                      /\ WF_admissionVars(Reject(q))
                      /\ WF_admissionVars(Leave(q))

FairAdmissionSpec == AdmissionSpec /\ AdmissionFairness
-----------------------------------------------------------------------------
(* Properties *)

\* Every permit is free, on its way to a request, or held: none is lost or
\* doubled, whatever is cancelled between a grant and its resumption.
PermitsConserved ==
  value + Cardinality({q \in Requests : pc[q] \in {"granted", "revoked", "active"}})
    = Concurrency

\* _waiting counts the requests inside, and they are never more than the
\* active ones and the queue behind them may be.
QueueBounded ==
  /\ waiting = Cardinality({q \in Requests : pc[q] # "out"})
  /\ waiting <= Concurrency + QueueSize

\* No more requests are active than RESEARCH_CONCURRENCY.
ActiveBounded ==
  Cardinality({q \in Requests : pc[q] = "active"}) <= Concurrency

\* A request waits beside a free permit only while another one, which will pass
\* permits on, is about to run: no wakeup is lost when a grant is cancelled.
NoLostWakeup ==
  (value > 0 /\ \E q \in Requests : pc[q] = "pending")
    => \E q \in Requests : pc[q] \in {"granted", "revoked"}

\* A request in the queue does not wait for ever, even if its timeout never
\* fires.
WaiterServed ==
  \A q \in Requests : pc[q] = "pending" ~> pc[q] # "pending"
=============================================================================
