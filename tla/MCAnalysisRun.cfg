SPECIFICATION Spec
CONSTANTS
    File <- MCFile
    Finding <- MCFinding
    KeyV1 <- MCKeyV1
    KeyV2 <- MCKeyV2
    Request <- MCRequest
    FirstBaseline <- MCFirstBaseline
    MaxRuns = 2
    SeveralCommands = TRUE
INVARIANTS
    VerdictCovered
    NothingOverlooked
    FrozenStaysHidden
    BudgetRespected
    WholeProgramSeesAll
CHECK_DEADLOCK FALSE
