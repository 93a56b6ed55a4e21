\* The calm chat and the prompt after a rework, violated.
CONSTANTS
    Jobs = {j1}
    MaxSteps = 1
    MaxReworks = 1
    Absent = Absent
    Overlap = FALSE
    OldButtons = FALSE
    Interrupts = FALSE
SPECIFICATION Spec
PROPERTY ExecutionPromptHasStep
