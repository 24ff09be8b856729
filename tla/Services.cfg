SPECIFICATION Spec
CONSTANTS
    MaxVersion = 3
    MaxSessions = 2
    Users = {u1, o1}
    Owners = {o1}
    Group = g
    UserCapacity = 1
    GroupCapacity = 1
    Rate = 1
    MAX_TURNS = 2
    WINDOW = 1
    MaxCost = 2
    MaxInFlight = 2
    MaxTurns = 3
    MaxTime = 2
    MaxOutages = 1
    Chats = {ch1, ch2}
    NoChat = NoChat
    LastDay = 3
    MaxTroubles = 3
    Groups = {gr1, gr2}
    Workers = {w1, w2}
    RECENT_LIMIT = 1
    MaxEvents = 1
    MaxCrashes = 1
    Platforms = {whatsapp, discord, telegram}
    Tidy = {whatsapp, discord}
    MaxRetries = 2
    Names = {n1, n2}
    People = {p1, p2}
    MaxEdits = 4
INVARIANTS
    
    GreetedOnce
    
    
    NamesUnique

    
CHECK_DEADLOCK FALSE
