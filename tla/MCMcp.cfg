\* Requests, lines of other kinds and edits against the warm cache and the process-wide state.
CONSTANTS
    File = {"a", "b"}
    Text = {"plain", "hard", "broken"}
    Size <- MCSize
    Broken = {"broken"}
    Hard = {"hard"}
    Sources <- MCSources
    Option = {"functions"}
    Loadable = {"saved"}
    Nothing = Nothing
    kMaxCachedAsts = 2
    MaxEdits = 1
    Session <- MCSession
    MCLines = 2
SPECIFICATION Spec
CHECK_DEADLOCK FALSE
INVARIANTS
    OwnRequestOnly
    InputsWereCurrent
PROPERTY
    RefinesService
