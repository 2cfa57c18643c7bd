CONSTANTS
    h1 = h1
    h2 = h2
    c1 = c1
    c2 = c2
    Bad = Bad
    None = None
    NoTx = NoTx
    Hashes = {h1, h2}
    Coins = {c1, c2}
    Ips = {us, them}
    Us = us
    Lists <- MCLists
    Chunk = 2
    MaxPending = 1
    Rate = 1
    MaxTracked = 1
    MaxPrograms = 1
    CallsFail = FALSE
    Claims = {}
SPECIFICATION Spec
INVARIANTS ProofIsSent
