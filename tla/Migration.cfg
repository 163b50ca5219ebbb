SPECIFICATION FairSpec
CONSTANTS
    OwnLoops = {TRUE, FALSE}
    Scripts <- UpToFour
INVARIANTS
    TypeOK
    InOrder
    NothingIsLost
    OneAtATime
    ClosesLast
PROPERTIES
    ClientIsServed
CHECK_DEADLOCK FALSE
