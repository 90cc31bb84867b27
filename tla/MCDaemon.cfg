SPECIFICATION FairDaemonSpec
CONSTANTS
    NThreads = 2
    MaxRequests = 2
    MaxStarts = 1
    MaxSignals = 2
\* The process ends.
CHECK_DEADLOCK FALSE
INVARIANTS
    DaemonTypeOK
    ZeroOnlyForHelp
    ShutdownInVain
    NullOnlyIfInterrupted
PROPERTY
    TerminatesOnSignal
