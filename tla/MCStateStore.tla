---- MODULE MCStateStore ----
EXTENDS StateStore, TLC

CallerSymmetry == Permutations(Callers)
====
