---------------------------- MODULE MCSkillLocks ----------------------------
EXTENDS SkillLocks, TLC

ThreadSymmetry == Permutations(Operators)
=============================================================================
