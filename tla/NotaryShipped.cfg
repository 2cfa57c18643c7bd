CONSTANTS
    c1 = c1
    c2 = c2
    h1 = h1
    h2 = h2
    NoHash = NoHash
    Calls = {c1, c2}
    Hashes = {h1, h2}
    Ops = {"add", "anchor", "settle", "refresh"}
    MaxRequests = 3
    MaxBuilt = 3
    StoreYields = FALSE
    NetFails = TRUE
    HttpErrors = TRUE
    LookupFails = FALSE
    CanCrash = FALSE
SPECIFICATION Spec
SYMMETRY Symmetry
INVARIANTS TypeOK SentIsSaved SpentOnce InOnePlace
PROPERTIES QueueKept FreshIsSent
