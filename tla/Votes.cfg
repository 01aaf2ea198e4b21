CONSTANTS
    m1 = m1
    m2 = m2
    m3 = m3
    bge = bge
    v1 = v1
    p1 = p1
    p2 = p2
    Viewer = {v1}
    QueueCap = 2
    ChanCap = 2
    Caller <- Callers
    Text <- Texts
    Silence = silence
    KeyOf <- Keys
    Chunks <- Parts
    Model <- Models
    Embedding = {bge}
    Default = m1
    Person = {p1, p2}
    Run = run
    Unset = unset
    NoEntry = noentry
    MaxSaves = 2
    Scenario <- Scenes
    Readable <- Plannable
CHECK_DEADLOCK FALSE
SPECIFICATION FairSpec
PROPERTIES
    VoteEnds
    StaleEnds
INVARIANTS
    VoteIsHeeded
    ShownInOrder
    NeverSendsToClosed
