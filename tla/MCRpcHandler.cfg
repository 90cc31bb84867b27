SPECIFICATION Spec
CONSTANTS
    Ids = {"1", "2"}
    BatchItems <- Samples
    MaxBatch = 3
INVARIANTS
    HandlerTypeOK
    CodeTracksReplies
PROPERTY KeepsContract
