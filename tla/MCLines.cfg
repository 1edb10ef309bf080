SPECIFICATION FairSpec
CONSTANTS
    a = a
    b = b
    c = c
    Items <- SixItems
    Upstream <- UpstreamWords
    First = a
    Ours <- PeoplesWords
    Edits <- TwoEdits
    Versions = 3
    Faults = 1
    Nothing = Nothing
CHECK_DEADLOCK FALSE
INVARIANTS
    LineNeverForks
PROPERTIES
    ReadWordsSurvive
    RereadIsNoEdit
    FollowsUpstream
