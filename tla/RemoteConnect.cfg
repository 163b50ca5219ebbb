SPECIFICATION FairSpec
CONSTANTS
    a = a
    b = b
    Remote <- TwoRemotes
    MaxRetries <- Retries
    Hopeless <- TwoRemotes
    LongRunning = FALSE
    MaxClose = 1
INVARIANTS
    TypeOK
    EngineClosesLast
    AnsweredOnce
    NothingFreedIsUsed
    EnabledWhenAllAre
PROPERTIES
    StartEnds
    EngineCloses
CHECK_DEADLOCK FALSE
