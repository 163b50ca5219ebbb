SPECIFICATION FairSpec
CONSTANTS
    e1 = e1
    e2 = e2
    c1 = c1
    Engine <- TwoEngines
    Client <- OneClient
    AutoStart <- FirstEngine
    OwnLoops <- Both
    LongRunnings <- Both
    Endpoints <- Both
    CloseFrom <- Anytime
    MaxRequests = 1
CHECK_DEADLOCK FALSE
PROPERTY ClosingEnds
