SPECIFICATION GroupSpec
CONSTANTS
    HasReadCallback = TRUE
    Usage = {"WaitUntilStarted", "Sleep", "Write", "WritesDone", "Finish", "FinishAsync", "Shutdown", "Read"}
    Untimed = {"Write"}
    MaxWrites = 2
    MaxReads = 1
    Process = {"a", "b", "self"}
    KeyOf <- MCKeyOf
    SelfCheck = "self"
    Unresolvable = {}
    Keys = {"k", "self"}
    Capacity = 1
    BurstSize = 3
    RefillTime = 3
    MaxSetBack = 7
    MaxEvents = 2
    MaxStreams = 2
    MaxClock = 9
    Thread <- MCThread
    NA = "<NA>"
    NoProcessArguments = FALSE
    MaxLineage = 2
    MaxParents = 3
INVARIANTS
    PendingExact
    RefreshSound
    SelfCheckCostsOneEvent
    WriterHandedOver
    LimiterSound
    MessagesExact
PROPERTIES
    NothingAfterFinish
    NoReadAfterEnd
    ImplementsStream
CHECK_DEADLOCK FALSE
