CONSTANTS
    api = api
    other = other
    far = far
    c1 = c1
    c2 = c2
    c3 = c3
    None = None
    NoDecl = NoDecl
    Contract <- Contracts
    Repo <- Repos
    Held <- Copies
    Passed = {}
    Type <- AllNames
    OwnerOf <- Publisher
    Original <- Originals
    Messages <- MessagesOf
    Enums <- EnumsOf
    Home <- Homes
    HandTrace <- Traced
    Traces <- SomeTraces
    Scans <- SomeScans
    Margin = 2
    Score <- Scores
    Plannings = 2
    Block <- Blocks
    PackageOf <- Packages
    Scalar = {"string", "int32"}
    Suffixed = {"SetRequest"}
    Neutral = {"NONE"}
    MinHabit = 1
    AtHead <- Heads
    Versions <- Contents
    GateFixRounds = 2
    MaxAttempts = 3
CHECK_DEADLOCK FALSE
SPECIFICATION Spec
INVARIANTS
    NamedTypeIsThere
    RejectedStays
    ContractStaysReadable
    ProperChangePasses
