SPECIFICATION FairSpec
CONSTANTS
    NThreads = 3
    MaxRequests = 4
    MaxStarts = 3
\* A destroyed or a crashed server stops.
CHECK_DEADLOCK FALSE
INVARIANTS
    TypeOK
    FrameOutlivesServices
    EarlyStop
PROPERTIES
    StopCompletes
    IsService
