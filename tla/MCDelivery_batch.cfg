SPECIFICATION FairSpec
CONSTANTS
    i1 = i1
    i2 = i2
    w1 = w1
    w2 = w2
    r1 = r1
    r2 = r2
    k1 = k1
    k2 = k2
    Items <- OneItem
    Words <- OneWord
    Records <- TwoRecords
    Repeatable <- OneRecord
    Confirmed <- NoRecord
    Workers <- OneWorker
    Batch = 2
    MaxAttempts = 2
    MaxFaults = 1
    NoWords = NoWords
    Nowhere = Nowhere
INVARIANTS
    FreeJobLeftNothing
    PendingIsOwed
    OneAttemptPerPass
PROPERTIES
    EveryDeliveryEnds
    EveryLeaseEnds
