\* Three requests; of the queries, one is active and one waits. It stops when all have ended.
SPECIFICATION Spec
CONSTANTS
  q1 = q1
  q2 = q2
  q3 = q3
  sample = sample
  other = other
  Requests = {q1, q2, q3}
  Projects = {sample, other}
  SampleProject = sample
  Routes = {"project", "sample", "workflow"}
  Concurrency = 1
  QueueSize = 1
CHECK_DEADLOCK FALSE
INVARIANTS
  ProjectIsolated
  GraphsBounded
PROPERTY TurnsOnlyGrow
SYMMETRY RequestSymmetry
