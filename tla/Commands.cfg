CONSTANTS
    MAX_ATTEMPTS = 3
    MaxBatch = 2
    MaxDeaths = 1
SPECIFICATION Spec
INVARIANTS
    TypeOK
    EffectsOncePerLife
    
    FlagsHold
    OfferedMeansUsable
PROPERTIES
    RetryRepeatsNothing
    Settles
