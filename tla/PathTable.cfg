SPECIFICATION FairSpec
CONSTANTS
    NCmd = 4
    NDest <- GroupSingleTwoGroups
    Policy <- FirstEach
    MaxPartial <- PartialOfTheFirstPair
    Sendings <- OneOfThePairs
    InvalidReturn <- LastInvalid
INVARIANTS
    TypeOK
    NothingAfterCompleted
    TableIsTidy
    FirstErrorOrLastOk
PROPERTIES
    KeepsPromise
    EveryCmdCompletes
CHECK_DEADLOCK FALSE
