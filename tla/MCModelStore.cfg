CONSTANTS
    v1 = v1
    v2 = v2
    b1 = b1
    b2 = b2
    t1 = t1
    t2 = t2
    own = own
    other = other
    None = None
    Versions <- MCVersions
    Blobs <- MCBlobs
    Threads <- MCThreads
    Names <- MCNames
    OwnName = own
    Categories = {"pricing"}
    MaxPuts = 1
    MaxFaults = 1
SPECIFICATION StoreSpec
SYMMETRY MCSymmetry
INVARIANTS StoreTypeOK ServedGenuine ReloadAnswersPointer
PROPERTIES RefinesServedModel SettledReloadsServe
