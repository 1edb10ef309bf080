SPECIFICATION FairSpec
CONSTANTS
    c1 = c1
    Jobs <- TwoJobs
    Batch = 1
    Poll = 2
    Windows <- ShortAndLong
    Backoffs <- ShortBackoffs
    Early = 1
    Callers <- OneCaller
    Faults = 2
CHECK_DEADLOCK FALSE
INVARIANTS
    Awaited
PROPERTIES
    DrainDoes
    StoppedStays
    EveryJobEnds
