\* One turn after another, calm or with old buttons and interruptions.
CONSTANTS
    Jobs = {j1}
    MaxSteps = 3
    MaxReworks = 3
    Absent = Absent
    Overlap = FALSE
    OldButtons = TRUE
    Interrupts = TRUE
SPECIFICATION TurnSpec
INVARIANT CalmWorkIsGrounded
PROPERTIES
    WorkIsKept
    TransitionsAllowed
    ImplementsLifecycle
    JobsEnd
