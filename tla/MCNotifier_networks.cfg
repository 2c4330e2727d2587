SPECIFICATION Spec
CONSTANTS
    Container = {"A"}
    AddressBits = 3
    PrivateNetworks <- MCPrivate
    NonAggregatedNetworks <- MCNonAggregated
    IgnoredNetworks = {}
    IgnoredL4ProtoPortPairs = {}
    Connection <- MCMixed
    ContainerEndpoint = {}
    RuntimeConfigs <- MCNoConfig
    ControlMessages <- MCMessages
    EnableAfterglow = TRUE
    AfterglowPeriod = 1
    ScrapeInterval = 1
    TurnOffScrape = TRUE
    ScrapeListenEndpoints = TRUE
    TrackSendRecv = TRUE
    SharedSockets = TRUE
    DefaultExternalIPs = FALSE
    DefaultMaxConnectionsPerMinute = 4
    TicksPerMinute = 2
    ReconnectDelay = 1
    MaxClock = 2
    MaxEvents = 1
    MaxEventLag = 9
    ActiveUntil = 1
INVARIANTS
    SensorInStep
CHECK_DEADLOCK FALSE
