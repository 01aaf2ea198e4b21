CONSTANTS
    f1 = f1
    x = x
    y = y
    Base = Base
    Conflict = Conflict
    Unmerged = Unmerged
    File <- OneFile
    Edited <- TwoEdits
    Line <- Lines
    Outputs <- FiveOutputs
    StallRounds = 2
    MaxRounds = 5
    Attempts = 2
CHECK_DEADLOCK FALSE
SPECIFICATION Spec
PROPERTIES
    RememberedIsBest
INVARIANTS
    
    RoundBestIsBest
