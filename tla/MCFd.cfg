\* Lives, bindings and negative values of descriptors against an execution.
CONSTANTS
    Var = {"f", "g", "h", "n"}
    Narrow = {"n"}
    Origin = {"o", "p"}
    NoVar = "none"
    NoOrigin = "none"
    MaxFd = 1
    Function <- MCFunction
SPECIFICATION Spec
CHECK_DEADLOCK FALSE
INVARIANTS
    Covered
    LeakReported
    LeakIsReal
