SPECIFICATION FairSpec
CONSTANTS
    a = a
    b = b
    c = c
    g1 = g1
    g2 = g2
    client = client
    nowhere = nowhere
    None = None
    Extension <- TwoExtensions
    Group <- TwoGroups
    GroupOf <- Groups
    Client = client
    Unknown = {nowhere}
    Kinds = {"cmd"}
    QueueSize = 1
    Sendings <- OneEach
PROPERTIES
    CmdArrives
CHECK_DEADLOCK FALSE
