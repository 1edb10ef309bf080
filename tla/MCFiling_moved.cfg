SPECIFICATION Spec
CONSTANTS
    i1 = i1
    t1 = t1
    t2 = t2
    g1 = g1
    g2 = g2
    r1 = r1
    r2 = r2
    c1 = c1
    c2 = c2
    c3 = c3
    n1 = n1
    p1 = p1
    p2 = p2
    Items <- OneItem
    Templates <- OneTemplate
    Tags <- OneTag
    Records <- TwoRecords
    Calls <- TwoCalls
    Changes <- OneChange
    Places <- TwoPlaces
    Nothing = Nothing
CHECK_DEADLOCK FALSE
INVARIANTS
    FoundedWhereItFiles
