SPECIFICATION Spec
CONSTANTS
    Container = {"A"}
    AddressBits = 3
    PrivateNetworks <- MCPrivate
    NonAggregatedNetworks = {}
    IgnoredNetworks = {}
    IgnoredL4ProtoPortPairs = {}
    Connection <- MCPair
    ContainerEndpoint = {}
    RuntimeConfigs <- MCEgress
    ControlMessages = {}
    EnableAfterglow = FALSE
    AfterglowPeriod = 2
    ScrapeInterval = 1
    TurnOffScrape = FALSE
    ScrapeListenEndpoints = TRUE
    TrackSendRecv = FALSE
    SharedSockets = FALSE
    DefaultExternalIPs = FALSE
    DefaultMaxConnectionsPerMinute = 2
    TicksPerMinute = 2
    ReconnectDelay = 1
    MaxClock = 1
    MaxEvents = 1
    MaxEventLag = 9
    ActiveUntil = 1
INVARIANTS
    SensorInStep
CHECK_DEADLOCK FALSE
