\* Summaries beside submissions of every kind, with up to two jobs.
SPECIFICATION SummarySpec
CONSTANTS
  j1 = j1
  j2 = j2
  t1 = t1
  t2 = t2
  sample = sample
  other = other
  Jobs = {j1, j2}
  MaxAttempts = 2
  Callers = {t1, t2}
  Mode <- Modes
  Projects = {sample, other}
  SampleProject = sample
  CorpusSource = "corpus"
  AdminPaths <- MCAdminPaths
  NoCaller = NoCaller
  NoJob = NoJob
INVARIANTS OneLiveCorpus EmptyHidesNoFailure
SYMMETRY JobSymmetry
