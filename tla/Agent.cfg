SPECIFICATION Spec
CONSTANTS
  t1 = t1
  t2 = t2
  t3 = t3
  Turns = {t1, t2, t3}
  NoTurn = NoTurn
  Window = 0
  MaxAttempts = 1
  MaxTries = 2
  MaxInFlight = 2
  MaxFaults = 1
  MaxTime = 1
SYMMETRY TurnSymmetry
CHECK_DEADLOCK FALSE
INVARIANTS
  TypeOK
  YesRunsWhatWasSeen
  ProposalRunsOnce
  
  DeniedNeverRuns
