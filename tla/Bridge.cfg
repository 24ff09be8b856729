SPECIFICATION FairSpec
CONSTANTS
    f1 = f1
    f2 = f2
    f3 = f3
    g1 = g1
    Forwards = {f1, f2}
    Chats = {g1}
    Chat <- MCChat
    Msg <- MCMsg
    Copies = {r1, r2}
    MaxLen = 1
    Budget <- MCBudget
    MaxFaults = 2
    Crashes = 1
    PublishFailures = 1
    SendFailures = 1
    PresenceFailures = 1
    Again = 1
INVARIANTS
    TypeOK
    RegistryExplained
    TypingExplained
    
PROPERTIES
    RepliesHandled
CHECK_DEADLOCK FALSE
