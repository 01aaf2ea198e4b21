CONSTANTS
    w1 = w1
    w2 = w2
    r1 = r1
    NoRepo = NoRepo
    NoWorker = NoWorker
    MaxTasks = 1
    MaxDecisions = 1
    MaxRestarts = 0
    MaxChain = 0
    Repo <- OneRepo
    Worker <- OneWorker
    Door <- ApiApproveDoor
SPECIFICATION Spec
PROPERTY ApprovalSurvivesRun
