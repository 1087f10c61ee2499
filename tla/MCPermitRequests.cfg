\* Two overlapping requests and the tick; a request may miss two writes.
CONSTANTS
    RequiresInspection = TRUE
    RequiresGasTest = TRUE
    RequiresApprover = TRUE
    Validity = 0
    MaxRenewals = 1
    MaxTotal = 1
    RetestInterval = 0
    Workers = {w1, w2}
    MaxNow = 1
    MaxOverlap = 2
SYMMETRY WorkerSymmetry
SPECIFICATION Spec
INVARIANTS
    OverlapIsSafe
PROPERTIES
    VoidChangedOnlyByStale
