SPECIFICATION Spec
CONSTANTS
    MaxCalls = 3
    MaxResults = 2
    Uris <- MCUris
    INT_MAX = 99999
\* The behaviour ends after MaxCalls calls, or in a crash.
CHECK_DEADLOCK FALSE
INVARIANT
    HandleReleased
