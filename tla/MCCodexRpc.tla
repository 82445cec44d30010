----------------------------- MODULE MCCodexRpc -----------------------------
EXTENDS CodexRpc, TLC

\* Threads differ in nothing.
ThreadSymmetry == Permutations(Threads)
=============================================================================
