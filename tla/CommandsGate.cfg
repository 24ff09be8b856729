CONSTANTS
    MAX_ATTEMPTS = 3
    MaxBatch = 1
    MaxDeaths = 0
SPECIFICATION Spec
INVARIANTS
    OffMeansOff
