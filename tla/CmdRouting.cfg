SPECIFICATION Spec
CONSTANTS
    a = a
    b = b
    c = c
    g1 = g1
    g2 = g2
    client = client
    nowhere = nowhere
    None = None
    Extension <- ThreeExtensions
    Group <- TwoGroups
    GroupOf <- Groups
    Client = client
    Unknown = {nowhere}
    Kinds = {"cmd", "data"}
    QueueSize = 1
    Sendings <- TwoFromAOrClient
INVARIANTS
    TypeOK
    DeliveredInOrder
    NothingIsDropped
CHECK_DEADLOCK FALSE
