SPECIFICATION GroupSpec
CONSTANTS
    Container <- SharedContainer
    Namespace <- SharedNamespace
    Sockets <- Accepted
    NoTcp6 = {}
    ListenEndpoints = TRUE
    NoContainer = NoContainer
    AnyAddress = AnyAddress
    NoNet = NoNet
    MaxChanges = 3
    MaxScrapes = 2
    MaxSessions = 3
    Pids = {1, 2}
    Objects = {1, 2, 3}
    Introspection = TRUE
INVARIANTS
    ScrapeSound
    ReportedOnce
    CompleteUnlessDropped
    BothFamiliesComplete
    RadixExact
    OneObjectPerProcess
    OffMeansFetchable
CHECK_DEADLOCK FALSE
