SPECIFICATION FairSpec
CONSTANTS
    c1 = c1
    c2 = c2
    c3 = c3
    c4 = c4
    c5 = c5
    Cmds = {c1}
    Tags = {t1, t2, t3, t4, t5}
    NoCmd = NoCmd
    NoTag = NoTag
    Exclusive = {c1}
    Unkeyed = {}
    Poison = {}
    Prefetch = 2
    MaxAttempts = 2
    AnswerCap = 5
    Duplicates = 0
    Crashes = 1
    Stops = 1
    Timeouts = 1
    Replays = 0
    PublishFailures = 0
    RedisOutages = 0
    Budget <- MCBudget
PROPERTIES
    EveryCommandSettled
CHECK_DEADLOCK FALSE
