SPECIFICATION Spec
CONSTANTS
    Block <- MCBlock
    Entry = 1
    NoBlock = NoBlock
    Value <- Bound
    NoValue = NoValue
    InitialState = Top
    Merge <- Join
    Widen <- WidenBound
    Job <- MCJob
    Diamonds = 5
    Top = Top
INVARIANT WideningConverges
CHECK_DEADLOCK FALSE
