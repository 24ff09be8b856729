SPECIFICATION FairSpec
CONSTANTS
    Commands = {"a", "b"}
    NoRow = NoRow
    NoEntry = NoEntry
    Loaders = {r1, r2}
    Editors = {w1, w2}
    Calls <- MCCalls
    MaxCalls = 2
    Budget <- MCBudget
    MaxFaults = 1
    LoadFailures = 1
    WriteFailures = 1
    UnseenCommits = 1
    DirectEdits = 1
    Restarts = 1
INVARIANTS
    TypeOK
    
    TornNeedsTwoWrites
PROPERTIES
    EventuallyFresh
CHECK_DEADLOCK FALSE
