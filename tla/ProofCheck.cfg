CONSTANTS
    h1 = h1
    h2 = h2
    Hashes = {h1, h2}
    Positions = {"left", "right", "other"}
    Bytes = {0, 1, 76, 77, 78}
    MaxWork = 6
    MaxBytes = 4
    MaxTx = 2
SPECIFICATION Spec
SYMMETRY Symmetry
INVARIANTS TreesAreRFC6962 ProofsHold ValidIsAnchored VerdictsAgree
INVARIANTS ParsersAgree PushReadsBack
CHECK_DEADLOCK FALSE
