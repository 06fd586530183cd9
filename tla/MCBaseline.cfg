CONSTANTS
    Ids = {a}
    Slots = 1
    None = None
    MaxVersions = 2
SPECIFICATION FairSpec
PROPERTY BaselineIsExact
