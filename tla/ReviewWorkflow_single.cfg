\* One request at a time, and any of them may be lost.
SPECIFICATION Spec
CONSTANTS
  p1 = p1
  q1 = q1
  q2 = q2
  alice = alice
  plain = plain
  edited = edited
  Products = {p1}
  Requests = {q1}
  Contents = {plain, edited}
  Actors = {alice}
  NoProduct = NoProduct
  NoContent = NoContent
  NoActor = NoActor
  NoHash = NoHash
  MaxEvents = 4
INVARIANTS
  StoresAgree
  EventChain
  InterruptAwaitsReview
PROPERTY ImplementsPolicy
\* The bounds end every run: a product takes at most MaxEvents decisions.
CHECK_DEADLOCK FALSE
