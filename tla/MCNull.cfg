\* Disjuncts and guard implications against an execution; the bound of the disjuncts is 2.
CONSTANTS
    NoField = "none"
    Place <- MCPlace
    PtrVar = {"p", "q"}
    Local <- MCLocal
    Volatile = {}
    Unsigned <- MCUnsigned
    Bits = 2
    MaxDisjuncts = 2
    Mutable = {"m"}
    Function <- MCFunction
SPECIFICATION Spec
CHECK_DEADLOCK FALSE
INVARIANTS
    Covered
    NullUseReported
    CorrelationKept
PROPERTY
    RefinesMerged
