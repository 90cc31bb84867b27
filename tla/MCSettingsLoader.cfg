SPECIFICATION FairSpec
CONSTANTS
    Attempts = 5
    TableSizes <- MCTableSizes
    Uris <- MCUris
    INT_MAX = 99999
\* The loader ends, and so does every behaviour.
CHECK_DEADLOCK FALSE
INVARIANTS
    TypeOK
    OneSession
    LoadedMeansAll
    QueriesHaveSession
    MisuseExplained
    LeakBound
PROPERTY
    LoaderEnds
