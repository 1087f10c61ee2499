\* The RFID agent: two threads on one buffer of one row, two readings,
\* requests served by two workers, references that the server may learn late,
\* one fault and one end of the process.
CONSTANTS
    w1 = w1
    w2 = w2
    Workers <- MCWorkers
    Events <- MCEvents
    Receiver = "receiver"
    MainLoop = "main"
    Threads = {"receiver", "main"}
    None = "none"
    SizeDue = 2
    MaxBatch = 2
    MaxRows = 1
    MaxLoops = 1
    Refusable = {1}
    UniqueCaught = FALSE
    MaxFaults = 1
    MaxEnds = 1
    MaxChanges = 1
    MaxRowId = 9
SPECIFICATION FairSpec
INVARIANTS NothingVanishes AppliedAtMostOnce LiveEffectOnlyCut BufferWithinCap
PROPERTIES LeavesOnlyRecorded StopLosesOnlyLate EventuallyRecorded
\* The readings are bounded, so a run may end with nothing left to do.
CHECK_DEADLOCK FALSE
