SPECIFICATION Spec
CONSTANTS
    b1 = b1
    b2 = b2
    a1 = a1
    r1 = r1
    i1 = i1
    t1 = t1
    Blobs <- OneBlob
    Assets <- OneAsset
    Records <- OneRecord
    Items <- OneItem
    Namers <- OneNamer
    MaxTimeouts = 1
    MaxCrashes = 0
    NoBlob = NoBlob
    Nobody = Nobody
INVARIANTS
    NamedBlobsHeld
