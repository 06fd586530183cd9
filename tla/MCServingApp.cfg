CONSTANTS
    v1 = v1
    v2 = v2
    b1 = b1
    b2 = b2
    main = main
    reloader = reloader
    w1 = w1
    own = own
    secret = secret
    wrong = wrong
    accented = accented
    None = None
    Versions = {v1, v2}
    Blobs = {b1, b2}
    Names = {own}
    OwnName = own
    Categories = {"pricing"}
    Main = main
    Reloader = reloader
    Workers = {w1}
    Threads <- MCThreads
    Tokens = {secret, wrong, accented}
    NonAscii = {accented}
    AdminToken = secret
    ReloadInterval = 300
    MaxPuts = 1
    MaxFaults = 1
SPECIFICATION AppSpec
SYMMETRY MCSymmetry
INVARIANTS AppTypeOK AnswersOneServedModel AnswersAreGenuine HeaderNamesModel GaugeTellsLoaded
PROPERTY RequestsMoveOn
