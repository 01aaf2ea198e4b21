CONSTANTS
    w1 = w1
    w2 = w2
    r1 = r1
    NoRepo = NoRepo
    NoWorker = NoWorker
    MaxTasks = 2
    MaxDecisions = 1
    MaxRestarts = 1
    MaxChain = 1
    Repo <- OneRepo
    Worker <- TwoWorkers
    Door <- AllDoors
SPECIFICATION FairSpec
PROPERTIES
    ImplementsLifecycle
    FreshTaskIsPicked
INVARIANTS
    RunningIsHeld
    ApprovalBudget
    CancelReachesItsRun
