SPECIFICATION FairSpec
CONSTANTS
    p1 = p1
    p2 = p2
    Processes <- TwoProcesses
    Authors <- OneAuthor
    Operations <- TwoOperations
    Regretted <- TheSecond
    Carrying <- TheFirst
    Faults = 1
    Nothing = Nothing
CHECK_DEADLOCK FALSE
INVARIANTS
    NothingLost
    OneSender
    LandedStaysOut
PROPERTIES
    RetractedStaysOut
    OrderKept
    EveryOperationEnds
