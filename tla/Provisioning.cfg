SPECIFICATION FairSpec
CONSTANTS
    Artifact = {"embedding", "llm", "ocr"}
    Specs <- MCSpecs
    Directory = {"embedding", "ocr"}
    Served = {"embedding", "llm"}
    File = {"config", "weights", "gguf"}
    Snapshot <- MCSnapshot
    MaxCommit = 2
    MaxFailures = 2
    MaxDamages = 2
    MaxByHand = 2
INVARIANTS
    VerifiedIsOneSnapshot
PROPERTIES
    VerifiedSurvives
    StackComesUp
