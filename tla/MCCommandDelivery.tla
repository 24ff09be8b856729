------------------------ MODULE MCCommandDelivery ------------------------
(* Bounds of CommandDelivery for TLC. *)
EXTENDS CommandDelivery, TLC

CONSTANTS
    c1, c2, c3, c4, c5,      \* commands, of which each run uses the first few
    Duplicates, Crashes, Stops, Timeouts, Replays, PublishFailures, RedisOutages

MCBudget == [k \in FaultKinds |->
    CASE k = "duplicate" -> Duplicates
      [] k = "crash"     -> Crashes
      [] k = "stop"      -> Stops
      [] k = "timeout"   -> Timeouts
      [] k = "replay"    -> Replays
      [] k = "publish"   -> PublishFailures
      [] k = "redis"     -> RedisOutages]

\* At most two faults of different kinds in one behaviour.
TwoFaults == Cardinality({k \in FaultKinds : faults[k] > 0}) <= 2

\* The copies of messages are interchangeable; no action orders them.
CopySymmetry == Permutations(Tags)
=============================================================================
