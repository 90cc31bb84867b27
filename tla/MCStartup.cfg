SPECIFICATION StartupSpec
CONSTANTS
    Keys <- KeysByDepth
    Values <- ValuesByDepth
    KeyOrder <- Order
    IntegerOf <- Numbers
    WordSize = 64
    PortSize = 16
    MaxEvents = 9
    MaxOptions = 2
    Uris <- MCUris
    UriOf <- MCUriOf
    INT_MAX = 99999
    Attempts = 2
    TableSizes <- MCTableSizes
\* The daemon exits, or goes on to its main loop.
CHECK_DEADLOCK FALSE
INVARIANTS
    StartupTypeOK
    InStep
    LoadedIsComplete
    ReadyMeansApplied
    LevelIsLarger
    OnlyAsTheFileSays
    StartsWhole
PROPERTY NeverOverwritten
