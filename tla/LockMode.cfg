SPECIFICATION FairSpec
CONSTANTS
    o1 = o1
    o2 = o2
    o3 = o3
    p1 = p1
    p2 = p2
    Ext = Ext
    Nobody = Nobody
    Outer <- ThreeThreads
    Proxy <- TwoProxies
    ProxyOf <- SharedAndOwn
    MaxRounds = 2
    MaxWork = 1
INVARIANTS
    OneRunsAtATime
    AssertionsHold
PROPERTIES
    NobodyStarves
