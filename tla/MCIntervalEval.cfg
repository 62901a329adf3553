SPECIFICATION Spec
CONSTANTS
    MinInt <- MCMinInt
    MaxInt = 31
    Var <- MCVar
    Type <- MCType
    typeOf <- MCtypeOf
    isSigned <- MCisSigned
    lowest <- MClowest
    highest <- MChighest
    commonType <- MCcommonType
    bitand <- MCbitand
    Path <- MCPath
INVARIANTS
    TypeOK
    Contained
    OverflowSeen
CHECK_DEADLOCK FALSE
