\* Zero and nonzero integers in divisors, over copies, tests and calls.
CONSTANTS
    Var = {"p", "x", "y", "z", "b", "w"}
    Global = {"w"}
    Narrow = {"b"}
    Val <- MCVal
    MaxSteps = 12
    kMaxZeronessPasses = 3
    Program <- MCProgram
SPECIFICATION Spec
CHECK_DEADLOCK FALSE
INVARIANTS
    ClaimsHold
    ErrorsAreReal
    ProvenZeroReported
    SeedsAreEarned
