\* Turns and setup commands, one after another or overlapping and cut off.
\* It ends when the turns and the commands are used up.
CONSTANTS
    Turns = {t1, t2}
    FactNames = {f1}
    MAX_TOOL_LOOPS = 2
    DEFAULT_WINDOW = 3
    MaxCalls = 2
    MaxSetups = 2
    MaxOverlapping = 1
    BlankAnswers = TRUE
    FirstParams <- Full
    Targets <- ToAny
SPECIFICATION FairSpec
INVARIANTS
    HistoryIsTail
    RequestPaired
PROPERTIES
    SaveForgetsNothing
    TurnEnds
CHECK_DEADLOCK FALSE
