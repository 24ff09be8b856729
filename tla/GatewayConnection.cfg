SPECIFICATION FairSpec
CONSTANTS
    Timers = {t1, t2}
    NoTimer = NoTimer
    Main = Main
    Handlers = {h1, h2, h3}
    MaxAttempts = 5
INVARIANTS
    TypeOK
    StallCovered
    OneReconnect
    AdapterReady
PROPERTIES
    StallEnds
