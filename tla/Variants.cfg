CONSTANTS
    t1 = t1
    t2 = t2
    proto = proto
    core = core
    app = app
    Task <- OneTask
    Repo <- Three
    Plans <- SomePlans
    Message <- SomeMessages
    MaxRuns = 2
    MaxCrashes = 1
CHECK_DEADLOCK FALSE
SPECIFICATION FairSpec
PROPERTIES
    StopEndsIt
    ImplementsPublication
    ExecutionEnds

    
