\* Summaries.
\* It ends when the turns are used up.
CONSTANTS
    Turns = {t1, t2, t3, t4}
    FactNames = {f1}
    MAX_TOOL_LOOPS = 1
    DEFAULT_WINDOW = 3
    MaxCalls = 1
    MaxSetups = 0
    MaxOverlapping = 0
    BlankAnswers = FALSE
    FirstParams <- ManySummary
    Targets <- ToNone
SPECIFICATION Spec
INVARIANT OneBlock
CHECK_DEADLOCK FALSE
