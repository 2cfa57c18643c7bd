CONSTANTS
    small = small
    big = big
    Deposits = {small, big}
    Worth <- MCWorth
    Rates = {1, 7}
    MaxChain = 2
    MaxTxs = 3
    MaxLosses = 1
SPECIFICATION FairSpec
INVARIANTS TypeOK SentStays
PROPERTIES RefusedForChain MinedInTheEnd
