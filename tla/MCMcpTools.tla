------------------------------ MODULE MCMcpTools ------------------------------
EXTENDS McpTools

\* Each server has all tools or none.
TwoMenus == {{}, Tools}

AllAllowed == [j \in Jobs |-> Tools]

\* The servers of Remote and the local one, which is the oldest row.
Saved == Append(SetToSeq(Remote), Local)

Alike == Permutations(Jobs)
===============================================================================
