SPECIFICATION FairSpec
CONSTANTS
    MaxLoads = 3
    Ops = {o1}
    InProgress <- MCInProgress
    Nothing = Nothing
    MaxVersion = 1
    MaxFaults = 1
INVARIANTS
    HiddenIsQuiet
    NeverIdle
PROPERTIES
    NeverBackwards
    ItemsKeepUp
