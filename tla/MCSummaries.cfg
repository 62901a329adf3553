SPECIFICATION Spec
CONSTANTS
    Fn <- MCFn
    TU <- MCTU
    Key <- MCKey
    None = None
    kMinimumSccSweeps = 16
    Program <- MCProgram
    Overloads = FALSE
INVARIANTS
    TypeOK
    NeverNullIsTrue
    MaybeNullIsEarned
    SolvedIsFixpoint
CHECK_DEADLOCK FALSE
