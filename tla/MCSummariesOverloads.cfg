SPECIFICATION Spec
CONSTANTS
    Fn <- MCFn
    TU <- MCTU
    Key <- MCKey
    None = None
    kMinimumSccSweeps = 16
    Program <- MCProgram
    Overloads = TRUE
INVARIANT
    CollisionKeepsClaimsTrue
CHECK_DEADLOCK FALSE
