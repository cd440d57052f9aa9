SPECIFICATION FairSpec
CONSTANTS
    Entry = {1, 2, 3, 4, 5}
    Usable <- MCUsable
    FirstResults <- MCResults
    Rankings <- MCRankings
    MaxPapers = 4
    PageSize = 2
    S2MaxOffset = 5
    Retries = 2
    MaxRuns = 2
    MaxCrashes = 2
INVARIANTS
    NeverBeyondMax
    FewAreMissed
PROPERTIES
    RunsEnd
CHECK_DEADLOCK FALSE
