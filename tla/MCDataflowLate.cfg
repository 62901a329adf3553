SPECIFICATION WalkSpec
CONSTANTS
    Block <- MCBlock
    Entry = 1
    NoBlock = NoBlock
    Value <- NullState
    NoValue = NoValue
    InitialState = "Unknown"
    Merge <- mergeNullStates
    Widen <- MCWiden
    Job <- MCJob
    Concrete <- Pointer
    Gamma <- Meaning
    Run <- MCRun
    Takes <- MCTakes
    Late = TRUE
INVARIANTS
    ReportsReflectFixpoint
CHECK_DEADLOCK FALSE
