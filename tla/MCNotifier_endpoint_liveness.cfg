SPECIFICATION FairSpec
CONSTANTS
    Container = {"A"}
    AddressBits = 3
    PrivateNetworks <- MCPrivate
    NonAggregatedNetworks = {}
    IgnoredNetworks = {}
    IgnoredL4ProtoPortPairs = {}
    Connection = {}
    ContainerEndpoint <- MCEndpoints
    RuntimeConfigs <- MCNoConfig
    ControlMessages = {}
    EnableAfterglow = TRUE
    AfterglowPeriod = 2
    ScrapeInterval = 1
    TurnOffScrape = FALSE
    ScrapeListenEndpoints = TRUE
    TrackSendRecv = FALSE
    SharedSockets = FALSE
    DefaultExternalIPs = FALSE
    DefaultMaxConnectionsPerMinute = 4
    TicksPerMinute = 2
    ReconnectDelay = 1
    MaxClock = 3
    MaxEvents = 0
    MaxEventLag = 1
    ActiveUntil = 1
PROPERTIES
    EndpointsEventuallyConsistent
CHECK_DEADLOCK FALSE
