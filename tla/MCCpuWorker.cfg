CONSTANTS
    a = a
    b = b
    Callers <- MCCallers
    Settings <- MCSettings
    Values = {1, 2}
    MaxBatch = 2
    MaxSent = 3
SPECIFICATION FairSpec
INVARIANTS
    UnderwayIsOutstanding
PROPERTIES
    ImplementsWorker
    DrainWaitsForAll
    WorkerAdvances
CHECK_DEADLOCK FALSE
