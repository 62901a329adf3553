\* A header edited between two requests for a file that stays as it is.
CONSTANTS
    File = {"a", "b"}
    Text = {"plain", "hard", "broken"}
    Size <- MCSize
    Broken = {"broken"}
    Hard = {"hard"}
    Sources <- MCSources
    Option = {"functions"}
    Loadable = {"saved"}
    Nothing = Nothing
    kMaxCachedAsts = 2
    MaxEdits = 1
    Session <- MCSession
    MCLines = 2
SPECIFICATION Spec
CHECK_DEADLOCK FALSE
INVARIANT StaleNeverServed
