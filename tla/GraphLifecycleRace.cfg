SPECIFICATION FairSpec
CONSTANTS
    g1 = g1
    g2 = g2
    Group <- OneGroup
    NExt <- OneExtension
    Unreliable <- NoExtension
    Proxied <- NoExtension
    CloseFrom = "started"
    MaxClose = 1
CHECK_DEADLOCK FALSE
PROPERTY CreatingEnds
