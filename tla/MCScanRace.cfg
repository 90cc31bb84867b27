SPECIFICATION Spec
CONSTANTS
    Second = 2
    MaxLag = 0
    MaxCheck = 0
    Secs <- MCSecs
INVARIANT
    TestTwoSeconds
