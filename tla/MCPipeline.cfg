CONSTANTS
    Values = {1, 2}
    MaxBatch = 2
    MaxSent = 4
SPECIFICATION FairSpec
INVARIANTS
    UnderwayIsOutstanding
PROPERTIES
    ImplementsWorker
    CopyAdvances
CHECK_DEADLOCK FALSE
