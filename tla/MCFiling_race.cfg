SPECIFICATION Spec
CONSTANTS
    i1 = i1
    t1 = t1
    t2 = t2
    g1 = g1
    g2 = g2
    r1 = r1
    r2 = r2
    c1 = c1
    c2 = c2
    c3 = c3
    n1 = n1
    p1 = p1
    p2 = p2
    Items <- OneItem
    Templates <- TwoTemplates
    Tags <- TwoTags
    Records <- TwoRecords
    Calls <- ThreeCalls
    Changes <- OneChange
    Places <- OnePlace
    Nothing = Nothing
SYMMETRY Interchangeable
CHECK_DEADLOCK FALSE
INVARIANTS
    OneClaimant
    TagStaysWithRecord
PROPERTIES
    NoSecondFiling
    NeverSpent
