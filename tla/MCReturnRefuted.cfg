\* What a summary says of the result, against an execution of the function.
CONSTANTS
    Var = {"p", "q", "r", "g", "x", "y", "i", "b"}
    Pointer = {"p", "q", "r", "g"}
    Global = {"g"}
    Narrow = {"b"}
    Val <- MCVal
    Block = {11, 12}
    Elsewhere = 20
    Modulus = 8
    MaxSteps = 12
    Program <- MCProgram
SPECIFICATION Spec
CHECK_DEADLOCK FALSE
INVARIANTS
    ChangedClaimsHold
    BoundCheckHolds
    LabelsHold
