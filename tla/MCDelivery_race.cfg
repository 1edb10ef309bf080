SPECIFICATION Spec
CONSTANTS
    i1 = i1
    i2 = i2
    w1 = w1
    w2 = w2
    r1 = r1
    r2 = r2
    k1 = k1
    k2 = k2
    Items <- TwoItems
    Words <- TwoWords
    Records <- OneRecord
    Repeatable <- OneRecord
    Confirmed <- OneRecord
    Workers <- TwoWorkers
    Batch = 1
    MaxAttempts = 2
    MaxFaults = 2
    NoWords = NoWords
    Nowhere = Nowhere
SYMMETRY Interchangeable
INVARIANTS
    AtMostOneCopy
    CancelledLeftNothing
    SentStillReads
PROPERTIES
    DeliveredStays
    KeepsItsPromises
