CONSTANTS
    w1 = w1
    w2 = w2
    r1 = r1
    NoRepo = NoRepo
    NoWorker = NoWorker
    MaxTasks = 3
    MaxDecisions = 1
    MaxRestarts = 1
    MaxChain = 1
    Repo <- OneRepo
    Worker <- TwoWorkers
    Door <- StopDoors
SPECIFICATION Spec
SYMMETRY WorkerSymmetry
INVARIANTS
    
    OneRunPerTask
    StopReachesEveryRun
