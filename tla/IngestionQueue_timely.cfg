\* Fair workers with timely heartbeats, all under the default worker id.
SPECIFICATION FairSpec
CONSTANTS
  j1 = j1
  j2 = j2
  w1 = w1
  w2 = w2
  w3 = w3
  c1 = c1
  Jobs = {j1, j2}
  Workers = {w1, w2}
  Callers = {c1}
  WorkerId <- SharedId
  Docs <- Sources
  NoJob = NoJob
  NoOwner = NoOwner
  MaxAttempts = 2
  LeaseTime = 2
  MaxTime = 5
  MaxCrashes = 1
  TimelyHeartbeats = TRUE
INVARIANTS
  OwnerWorks
PROPERTIES
  ImplementsLifecycle
  RestartRecovers
  QueuedIsTaken
\* A queue whose jobs are all terminal leaves idle workers polling.
CHECK_DEADLOCK FALSE
