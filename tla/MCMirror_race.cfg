SPECIFICATION FairSpec
CONSTANTS
    item = item
    other = other
    c1 = c1
    c2 = c2
    j1 = j1
    j2 = j2
    j3 = j3
    Items <- OneItem
    Others <- OneOther
    Contents <- TwoContents
    Jobs <- ThreeJobs
    Batch = 2
    MaxChanges = 2
    MaxFaults = 1
    Nothing = Nothing
INVARIANTS
    OwedWhileStale
    OnePendingRow
    OneWritePerSubject
PROPERTIES
    MirrorCatchesUp
