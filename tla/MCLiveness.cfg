SPECIFICATION GroupFairSpec
CONSTANTS
    UseGRPC = TRUE
    MaxPolls = 2
    BufferSize = 3
    MaxLine = 4
    MaxFrames = 1
    MaxWrites = 2
    MaxReads = 1
    MaxEvents = 1
    MaxStreams = 2
    MaxOps = 2
INVARIANTS
    InspectorOutlivesUsers
PROPERTIES
    StopsUnlessBlocked
    Reconnects
    EndIsNoticed
    StreamReplaced
    StopEnds
    Follows
    NobodyWaitsForever
CHECK_DEADLOCK FALSE
