CONSTANTS
    Nothing = Nothing
    Edit <- FewFiles
    NewFile <- Created
    Plans <- FewPlans
    Cosmetic <- NoneCosmetic
    AutoPR = FALSE
    PushAllowed = TRUE
    Approvable <- WaitingOnly
    MaxRuns = 2
CHECK_DEADLOCK FALSE
SPECIFICATION Spec
PROPERTY ApprovedShipsSeen
