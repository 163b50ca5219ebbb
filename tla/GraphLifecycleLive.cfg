SPECIFICATION FairSpec
CONSTANTS
    g1 = g1
    g2 = g2
    Group <- TwoGroups
    NExt <- TwoAndOne
    Unreliable <- FirstOfG1
    Proxied <- FirstOfG1
    CloseFrom = "answered"
    MaxClose = 2
INVARIANT AnsweredMeansReady
PROPERTIES
    StartIsAnswered
    EngineCloses
