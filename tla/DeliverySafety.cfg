SPECIFICATION Spec
CONSTANTS
    c1 = c1
    c2 = c2
    c3 = c3
    c4 = c4
    c5 = c5
    Cmds = {c1, c2}
    Tags = {t1, t2, t3, t4}
    NoCmd = NoCmd
    NoTag = NoTag
    Exclusive = {c1, c2}
    Unkeyed = {c2}
    Poison = {c2}
    Prefetch = 2
    MaxAttempts = 2
    AnswerCap = 5
    Duplicates = 1
    Crashes = 1
    Stops = 1
    Timeouts = 1
    Replays = 1
    PublishFailures = 1
    RedisOutages = 1
    Budget <- MCBudget
CONSTRAINT TwoFaults
SYMMETRY CopySymmetry
INVARIANTS
    TypeOK
    LaneSafe
    ClaimsSafe
    InboxSound
    Accounted
    AnswersBounded
CHECK_DEADLOCK FALSE
