---- MODULE MCTaskMachine ----
EXTENDS TaskMachine, TLC

JobSymmetry == Permutations(Jobs)
====
