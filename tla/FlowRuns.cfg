CONSTANTS
    Nothing = Nothing
    Edit <- Files
    NewFile <- Created
    Plans <- SomePlans
    Cosmetic <- BlankCosmetic
    AutoPR = TRUE
    PushAllowed = TRUE
    Approvable <- WaitingOnly
    MaxRuns = 2
CHECK_DEADLOCK FALSE
SPECIFICATION FairSpec
PROPERTIES
    
    Ends
    NoStepIsFree
INVARIANTS
    
    NothingPushedUnasked
