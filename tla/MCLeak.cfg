\* Lifetimes, bindings and owners against an execution.
CONSTANTS
    NoField = "none"
    Place <- MCPlace
    PtrVar = {"p", "q", "r", "a"}
    RefVar = {"a"}
    OwnerVar = {"o", "s"}
    NoVar = "none"
    Local <- MCLocal
    Volatile = {}
    Unsigned = {}
    Bits = 2
    MaxDisjuncts = 2
    MaxBlock = 2
    Function <- MCFunction
SPECIFICATION Spec
CHECK_DEADLOCK FALSE
INVARIANTS
    Covered
    ErrorsAreReal
    OwnerDoubleFreeReported
    LeakReported
