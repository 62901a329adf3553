\* A pointer whose root is bound to another block.
CONSTANTS
    NoField = "none"
    Place <- MCPlace
    PtrVar = {"p", "q", "r", "a"}
    RefVar = {"a"}
    OwnerVar = {"o", "s"}
    NoVar = "none"
    Local <- MCLocal
    Volatile = {}
    Unsigned = {}
    Bits = 2
    MaxDisjuncts = 2
    MaxBlock = 2
    Function <- MCRebound
SPECIFICATION Spec
CHECK_DEADLOCK FALSE
INVARIANTS
    AliasErrorsAreReal
