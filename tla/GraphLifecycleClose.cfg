SPECIFICATION Spec
CONSTANTS
    g1 = g1
    g2 = g2
    Group <- TwoGroups
    NExt <- TwoAndOne
    Unreliable <- FirstOfG1
    Proxied <- FirstOfG1
    CloseFrom = "started"
    MaxClose = 2
CHECK_DEADLOCK FALSE
INVARIANTS
    TypeOK
    EngineClosesLast
    NoTaskIsLost
    ProxyKeepsAlive
PROPERTY KeepsLife
