SPECIFICATION FairSpec
CONSTANTS
    A = A
    B = B
    None = None
    Classes <- TwoClasses
    LastFile = 2
    FileClass <- FileNames
    Contents <- TwoTexts
    MaxStarts = 2
    MaxEdits = 1
    MaxFailures = 1
INVARIANTS
    IndexIsItsBuild
    UsedByIsGraph
    StageOneFinds
    ForcedRunIsCurrent
PROPERTIES
    BackedKept
    IndexingEnds
CHECK_DEADLOCK FALSE
