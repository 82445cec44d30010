---------------------------- MODULE MCAgentTurns ----------------------------
(* Small instances of AgentTurns: one session takes every turn.              *)
EXTENDS AgentTurns, TLC

CONSTANT s1

OneSession == [t \in Turns |-> s1]
CallerSymmetry == Permutations(Callers)
=============================================================================
