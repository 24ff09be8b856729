--------------------------- MODULE MCReplyBridge ---------------------------
(* Bounds of ReplyBridge for TLC: f1 and f2 forward the same message m1 of  *)
(* chat g1, f3 another message of the same chat.                            *)
EXTENDS ReplyBridge, TLC

CONSTANTS f1, f2, f3, g1, Crashes, PublishFailures, SendFailures,
          PresenceFailures, Again

MCChat == [f \in Forwards |-> g1]
MCMsg  == [f \in Forwards |-> IF f = f3 THEN "m2" ELSE "m1"]
MCBudget == [k \in FaultKinds |->
    CASE k = "crash"    -> Crashes
      [] k = "publish"  -> PublishFailures
      [] k = "send"     -> SendFailures
      [] k = "presence" -> PresenceFailures
      [] k = "again"    -> Again]
CopySymmetry == Permutations(Copies)
=============================================================================
