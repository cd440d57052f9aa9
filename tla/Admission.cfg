\* Four requests, which come back again and again: two are active, two wait.
SPECIFICATION FairAdmissionSpec
CONSTANTS
  q1 = q1
  q2 = q2
  q3 = q3
  q4 = q4
  Requests = {q1, q2, q3, q4}
  Concurrency = 2
  QueueSize = 1
INVARIANTS
  PermitsConserved
  NoLostWakeup
PROPERTY WaiterServed
