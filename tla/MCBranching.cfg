\* Turns and commands, one after another or overlapping.
\* It ends when the turns and the commands are used up.
CONSTANTS
    Turns = {t1, t2}
    Commands = {c1, c2, c3}
    Branches = {main, b1}
    NoBranch = NoBranch
SPECIFICATION BranchSpec
INVARIANT BranchesAreDialogues
PROPERTY TurnsStayInBranch
CHECK_DEADLOCK FALSE
