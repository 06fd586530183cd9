CONSTANTS
    v1 = v1
    v2 = v2
    b1 = b1
    b2 = b2
    t1 = t1
    t2 = t2
    own = own
    other = other
    None = None
    Versions = {v1}
    Blobs <- MCBlobs
    Threads = {t1}
    Names <- MCNames
    OwnName = own
    Categories = {"pricing", "demand"}
    MaxPuts = 0
    MaxFaults = 0
SPECIFICATION StoreSpec
INVARIANT ServedOneCategory
