------------------------ MODULE MCAgentConversation ------------------------
(* Three messages of one user; a confirmation is late in the next tick.    *)
EXTENDS AgentConversation, TLC

CONSTANTS t1, t2, t3

MCTurns == {t1, t2, t3}
TurnSymmetry == Permutations(MCTurns)
=============================================================================
