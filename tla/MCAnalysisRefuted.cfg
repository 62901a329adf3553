SPECIFICATION Spec
CONSTANTS
    File <- MCFile
    Finding <- MCFinding
    KeyV1 <- MCKeyV1
    KeyV2 <- MCKeyV2
    Request <- MCRequest
    FirstBaseline <- MCNoBaseline
    MaxRuns = 2
    SeveralCommands = TRUE
INVARIANTS
    CleanVerdictHasEvidence
    NewFindingSurfaces
    AnyOrderSeesAll
CHECK_DEADLOCK FALSE
