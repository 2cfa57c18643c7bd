CONSTANTS
    a = a
    b = b
    NoTask = NoTask
    Texts = {a, b}
    Tasks <- MCTasks
    MaxRounds = 2
    MaxFailures = 2
    AutoCommit = TRUE
    MaxCrashes = 2
    MaxUnblocks = 1
    MaxEdits = 1
SPECIFICATION FairSpec
INVARIANTS TypeOK OneAtWork CommittedIsReviewed MarkedIsApproved
PROPERTIES FreshStart AgentsStop
CHECK_DEADLOCK FALSE
