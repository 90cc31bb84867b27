SPECIFICATION Spec
CONSTANTS
    Width = 6
    Any = Any
    Malformed = Malformed
\* The call returns.
CHECK_DEADLOCK FALSE
INVARIANT
    LengthExact
