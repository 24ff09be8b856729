SPECIFICATION Spec
CONSTANTS
    c1 = c1
    c2 = c2
    c3 = c3
    c4 = c4
    c5 = c5
    Cmds = {c1}
    Tags = {t1, t2}
    NoCmd = NoCmd
    NoTag = NoTag
    Exclusive = {}
    Unkeyed = {}
    Poison = {}
    Prefetch = 2
    MaxAttempts = 2
    AnswerCap = 5
    Duplicates = 0
    Crashes = 0
    Stops = 0
    Timeouts = 0
    Replays = 0
    PublishFailures = 1
    RedisOutages = 0
    Budget <- MCBudget
SYMMETRY CopySymmetry
INVARIANTS
    NoLostCommand
CHECK_DEADLOCK FALSE
