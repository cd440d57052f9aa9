\* Two runs at a time, one index version, interruptions.
SPECIFICATION Spec
CONSTANTS
  d1 = d1
  d2 = d2
  a = a
  b = b
  r1 = r1
  r2 = r2
  Docs = {d1, d2}
  Contents = {a, b}
  IndexVersions = {"v1"}
  Runs = {r1, r2}
  Project = "sample-project"
  NoContent = NoContent
  NoDoc = NoDoc
  MaxRuns = 3
  MaxEdits = 2
  MaxInterrupts = 1
INVARIANTS
  OneGeneration
  GapsAreCut
SYMMETRY RunSymmetry
\* The bounds end every behaviour.
CHECK_DEADLOCK FALSE
