CONSTANTS
    h1 = h1
    h2 = h2
    t1 = t1
    t2 = t2
    i1 = i1
    i2 = i2
    r1 = r1
    r2 = r2
    None = None
    NoTx = NoTx
    Hashes = {h1, h2}
    Txs = {t1, t2}
    Ids = {i1, i2}
    Requests = {r1, r2}
    PollsOverlap = TRUE
    SdkFails = FALSE
    AnchorFails = FALSE
    CanCrash = FALSE
SPECIFICATION Spec
SYMMETRY Symmetry
INVARIANTS PaidOnce
