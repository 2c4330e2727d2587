SPECIFICATION Spec
CONSTANTS
    Container = {"A"}
    AddressBits = 3
    PrivateNetworks <- MCPrivate
    NonAggregatedNetworks = {}
    IgnoredNetworks = {}
    IgnoredL4ProtoPortPairs = {}
    Connection <- MCPair
    ContainerEndpoint = {}
    RuntimeConfigs <- MCExternalIPs
    ControlMessages <- MCAnnouncement
    EnableAfterglow = TRUE
    AfterglowPeriod = 2
    ScrapeInterval = 1
    TurnOffScrape = FALSE
    ScrapeListenEndpoints = TRUE
    TrackSendRecv = FALSE
    SharedSockets = FALSE
    DefaultExternalIPs = FALSE
    DefaultMaxConnectionsPerMinute = 4
    TicksPerMinute = 2
    ReconnectDelay = 1
    MaxClock = 2
    MaxEvents = 0
    MaxEventLag = 9
    ActiveUntil = 2
INVARIANTS
    ExternalIPsViewConsistent
CHECK_DEADLOCK FALSE
