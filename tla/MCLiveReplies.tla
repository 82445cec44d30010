--------------------------- MODULE MCLiveReplies ---------------------------
EXTENDS LiveReplies, TLC

ReplySymmetry == Permutations(Prompts) \cup Permutations(Callers)
=============================================================================
