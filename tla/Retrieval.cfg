\* Searches beside one run at a time, none interrupted.
SPECIFICATION SearchSpec
CONSTANTS
  d1 = d1
  d2 = d2
  a = a
  b = b
  Docs = {d1, d2}
  Contents = {a, b}
  IndexVersions = {"v1"}
  Runs = {"r1"}
  Project = "sample-project"
  NoContent = NoContent
  NoDoc = NoDoc
  MaxRuns = 3
  MaxEdits = 1
  MaxInterrupts = 0
  Parts = {1, 2, 3}
  Level <- MCLevel
  Section <- MCSection
  NoSection = NoSection
  Queries = {"q1"}
  Dense <- MCDense
  Sparse <- MCSparse
  Rerank <- MCRerank
  Filters <- MCFilters
  Targets = {"auto"}
  TopK = 3
  Candidates = 4
  Window = 2
  DenseWeight = 60
  SparseWeight = 40
  BaseShare = 70
  LocalLimit = 5
  ReadLimit = 5
  DensePrimary = "pgvector"
  AllowFallback = TRUE
INVARIANTS
  ResultsCurrent
  Diversified
  DegradesToSparse
  ReadsOfOneVersion
\* The bounds end every behaviour.
CHECK_DEADLOCK FALSE
