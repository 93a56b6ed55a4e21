---- MODULE MCBranching ----
EXTENDS Branching
====
