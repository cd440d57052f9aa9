SPECIFICATION FairSpec
CONSTANTS
    Numbers <- MCNumbers
    Negations <- MCNegations
    MaxCitations = 2
    Passages <- MCPassages
    WebPages <- MCWebPages
    Sentences <- MCSentences
    MaxInternal = 2
    MaxWeb = 2
    MaxSentences = 2
    MaxRetries = 1
    MinScore = 20
    RequiredFields = {"term"}
    UseNli = TRUE
    ReusedTrace = FALSE
INVARIANTS
    SupportedIsVerified
    AnswerIsGrounded
    JoinedChecksBlock
    ToolsAllowed
    LedgerAgrees
    ProductSound
PROPERTY
    Ends
CHECK_DEADLOCK FALSE
