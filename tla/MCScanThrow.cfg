SPECIFICATION Spec
CONSTANTS
    Second = 2
    MaxLag = 1
    MaxCheck = 3
    Secs <- MCSecs
INVARIANT
    TrueMeansHit
