SPECIFICATION WalkSpec
CONSTANTS
    Block <- MCBlock
    Entry = 1
    NoBlock = NoBlock
    Value <- NullState
    NoValue = NoValue
    InitialState = "Unknown"
    Merge <- mergeNullStates
    Widen <- MCWiden
    Job <- MCJob
    Concrete <- Pointer
    Gamma <- Meaning
    Run <- MCRun
    Takes <- MCTakes
    Late = FALSE
INVARIANTS
    WalkTypeOK
    PendingOnce
    ReportsReflectFixpoint
    Covered
    NoFalseAlarm
PROPERTY
    WidenMemoryClimbs
CHECK_DEADLOCK FALSE
