CONSTANTS
    Repo <- ThreeRepos
    Local <- ThreeRepos
    MaxImpactTasks = 2
    RootDepth <- SomeDepths
    EnvDepth = 0
CHECK_DEADLOCK FALSE
SPECIFICATION ChainSpec
INVARIANTS
    PathIsBounded
    
