CONSTANTS
    Server <- TwoServers
    Base <- Bases
    MaxToolChars = 4
    ToolChars = 6
    MaxHits = 2
    Offers <- SomeOffers
    Call <- SomeCalls
    ToolOf <- TheirTool
    BuiltIn <- Found
    Answers <- TwoAnswers
    Weight <- Tokens
    HeadWeight = 2
    MaxTurns = 3
    Budget = 6
    MinShare = 1
    MaxLines = 1
CHECK_DEADLOCK FALSE
SPECIFICATION FairSpec
PROPERTIES
    
    RunEnds
    EveryStepCounts
INVARIANTS
    
    WindowIsUsed
