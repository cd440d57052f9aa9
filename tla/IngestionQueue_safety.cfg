\* Workers that may outlive their leases, each with its own worker id: three, so
\* that three runs of one job overlap, which MaxAttempts and MaxTime leave room for.
SPECIFICATION Spec
CONSTANTS
  j1 = j1
  j2 = j2
  w1 = w1
  w2 = w2
  w3 = w3
  c1 = c1
  Jobs = {j1}
  Workers = {w1, w2, w3}
  Callers = {c1}
  WorkerId <- DistinctIds
  Docs <- OneSource
  NoJob = NoJob
  NoOwner = NoOwner
  MaxAttempts = 3
  LeaseTime = 1
  MaxTime = 6
  MaxCrashes = 2
  TimelyHeartbeats = FALSE
SYMMETRY SameWorkers
INVARIANTS
  LeaseExclusive
  CompletedSawAll
PROPERTIES
  TerminalAbsorbing
\* A queue whose jobs are all terminal leaves idle workers polling.
CHECK_DEADLOCK FALSE
