--------------------------- MODULE MCConfigCache ---------------------------
(* Bounds of ConfigCache for TLC: a and b are the commands of one subtype. *)
EXTENDS ConfigCache, TLC

CONSTANTS LoadFailures, WriteFailures, UnseenCommits, DirectEdits, Restarts

MCCalls ==
    {[settings |-> <<"a", "b">>, to |-> "on"],
     [settings |-> <<"a", "b">>, to |-> "unset"],
     [settings |-> <<"a">>, to |-> "off"],
     [settings |-> <<"policy">>, to |-> "curated"]}

MCBudget == [k \in FaultKinds |->
    CASE k = "load"    -> LoadFailures
      [] k = "write"   -> WriteFailures
      [] k = "unseen"  -> UnseenCommits
      [] k = "direct"  -> DirectEdits
      [] k = "restart" -> Restarts]
=============================================================================
