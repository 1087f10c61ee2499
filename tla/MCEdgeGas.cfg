\* The gas agent: one thread that polls and delivers, one reading per batch,
\* and a service that takes a unique violation as a duplicate.
CONSTANTS
    w1 = w1
    w2 = w2
    Workers <- MCWorkers
    Events <- MCThree
    Receiver = "receiver"
    MainLoop = "main"
    Threads = {"receiver"}
    None = "none"
    SizeDue = 1
    MaxBatch = 2
    MaxRows = 2
    MaxLoops = 2
    Refusable = {1}
    UniqueCaught = TRUE
    MaxFaults = 2
    MaxEnds = 1
    MaxChanges = 2
    MaxRowId = 5
SPECIFICATION Spec
SYMMETRY Symmetry
PROPERTIES DropsOldestFirst
\* The readings are bounded, so a run may end with nothing left to do.
CHECK_DEADLOCK FALSE
