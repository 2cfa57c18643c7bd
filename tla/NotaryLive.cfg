CONSTANTS
    c1 = c1
    c2 = c2
    h1 = h1
    h2 = h2
    NoHash = NoHash
    Calls = {c1, c2}
    Hashes = {h1, h2}
    Ops = {"add", "settle", "due"}
    MaxRequests = 2
    MaxBuilt = 2
    StoreYields = FALSE
    NetFails = TRUE
    HttpErrors = FALSE
    LookupFails = FALSE
    CanCrash = FALSE
SPECIFICATION FairSpec
PROPERTIES EventuallyAnchored CallsEnd
