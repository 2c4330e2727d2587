------------------------ MODULE NetworkStatusNotifier ------------------------
(***************************************************************************)
(* The network pipeline of collector: the kernel's sockets and the events  *)
(* they raise, the event thread that feeds the connection tracker          *)
(* (NetworkSignalHandler.cpp), the notifier thread that scrapes procfs,    *)
(* updates and fetches the tracker and writes deltas to Sensor             *)
(* (NetworkStatusNotifier.cpp), the control messages and runtime           *)
(* configuration it reacts to, and the view of the open connections and    *)
(* endpoints that Sensor builds from the deltas of one stream.             *)
(***************************************************************************)
EXTENDS ConnTracker, Sequences

CONSTANTS
    Container,              \* container ids
    Connection,             \* the raw connections that sockets may have
    ContainerEndpoint,      \* the raw listening endpoints
    RuntimeConfigs,         \* the runtime configurations that may be loaded
    ControlMessages,        \* the NetworkFlowsControlMessages Sensor may send
    EnableAfterglow, AfterglowPeriod,
    ScrapeInterval, TurnOffScrape, ScrapeListenEndpoints, TrackSendRecv,
    SharedSockets,          \* a socket may be open in more than one process
    DefaultExternalIPs,     \* ROX_ENABLE_EXTERNAL_IPS
    DefaultMaxConnectionsPerMinute,
    TicksPerMinute,         \* the unit of the clock
    ReconnectDelay,         \* between two attempts to open the stream
    MaxClock,               \* bound: the clock stops here
    MaxEvents,              \* bound: capacity of the kernel's event buffer
    MaxEventLag,            \* bound: how far behind the clock a buffered event may be
    ActiveUntil             \* bound: the environment is quiet after this time

RawConnection ==
    [container : Container, lport : Nat, raddr : Address, rport : Nat,
     l4proto : {"TCP", "UDP"}, is_server : BOOLEAN]

\* IPNet's equality masks a network's host bits, so a network has none here.
Network == {n \in IPNet : ~n.is_addr /\ n.addr % 2^(AddressBits - n.bits) = 0}

ASSUME ConnectionAssumption == Connection \subseteq RawConnection

ASSUME MessageAssumption ==
    ControlMessages \subseteq [has_ip_networks : BOOLEAN, public_ips : SUBSET Address,
                              networks : SUBSET Network, well_formed : BOOLEAN]

\* No peer and no network Sensor announces has the address that stands for
\* "the rest of the internet".
ASSUME CanonicalAssumption ==
    /\ \A c \in Connection : ~IsCanonicalExternalIp(c.raddr)
    /\ \A msg \in ControlMessages : \A n \in msg.networks : ~IsCanonicalExternalIp(n.addr)

ASSUME TimeAssumption ==
    /\ MaxClock \in Nat /\ AfterglowPeriod \in Nat
    /\ ScrapeInterval \in Nat /\ ReconnectDelay \in Nat

VARIABLES
    clock,                  \* NowMicros()
    alive,                  \* sockets established or listening in the kernel
    events,                 \* kernel events not yet handled
    conn_state, endpoint_state, known, external_ips_config,     \* ConnectionTracker
    runtime_config,         \* CollectorConfig::runtime_config_
    pc,                     \* where the notifier thread is
    wake,                   \* next_attempt or next_scrape
    ts, unread, scraped,    \* UpdateAllConnsAndEndpoints
    time_micros, old_conn_state, old_cep_state, time_at_last_scrape, prev_ext,  \* RunSingle
    sensor_conns, sensor_ceps,   \* what Sensor holds open for the current stream
    rate_limited            \* history: opened by a delta, dropped by the limiter

envVars      == <<alive, events>>
trackerVars  == <<conn_state, endpoint_state, known, external_ips_config>>
scrapeVars   == <<ts, unread, scraped>>
runVars      == <<time_micros, old_conn_state, old_cep_state, time_at_last_scrape, prev_ext>>
sensorVars   == <<sensor_conns, sensor_ceps, rate_limited>>
notifierVars == <<pc, wake, scrapeVars, runVars, sensorVars>>
vars == <<clock, envVars, trackerVars, runtime_config, notifierVars>>

-----------------------------------------------------------------------------
(***************************************************************************)
(* Configuration.                                                          *)
(***************************************************************************)

\* The directions enabled by ExternalIPsConfig(runtime_config, default).
ExternalIPsConfig(rc) ==
    IF ~rc.present THEN IF DefaultExternalIPs THEN Direction ELSE {}
    ELSE IF ~rc.enabled THEN {}
    ELSE IF rc.direction \in Direction THEN {rc.direction} ELSE Direction

MaxConnectionsPerMinute(rc) ==
    IF rc.present THEN rc.max_connections_per_minute ELSE DefaultMaxConnectionsPerMinute

\* Connections per minute to connections per scrape interval, rounded half up.
PerContainerRateLimit(rc) ==
    (2 * MaxConnectionsPerMinute(rc) * ScrapeInterval + TicksPerMinute) \div (2 * TicksPerMinute)

NoKnowledge == [public_ips |-> {}, networks |-> {}, private_exists |-> "unset"]

\* ReceivePublicIPs and ReceiveIPNetworks.  A network list of the wrong length
\* is dropped; the radix tree refuses networks without prefix bits.
Knowledge(msg) ==
    LET tree == {n \in msg.networks : n.bits >= 1}
    IN  [public_ips     |-> msg.public_ips,
         networks       |-> IF msg.well_formed THEN tree ELSE {},
         private_exists |-> IF ~msg.well_formed THEN "unset"
                            ELSE IF ContainsPrivateNetwork(tree) THEN "yes" ELSE "no"]

ConnNormalization ==
    [c \in {c \in Connection : ShouldFetchConnection(c)} |->
        NormalizeConnection(c, known, external_ips_config)]

EndpointNormalization ==
    [e \in {e \in ContainerEndpoint : ShouldFetchContainerEndpoint(e)} |->
        NormalizeContainerEndpoint(e)]

-----------------------------------------------------------------------------
(***************************************************************************)
(* The kernel and the event thread.                                        *)
(***************************************************************************)
Quiet == clock > ActiveUntil

Tick ==
    /\ clock < MaxClock
    /\ \A i \in DOMAIN events : clock - events[i].ts < MaxEventLag
    /\ clock' = clock + 1
    /\ UNCHANGED <<envVars, trackerVars, runtime_config, notifierVars>>

Event == [conn : Connection, ts : 0 .. MaxClock, added : BOOLEAN]

\* An event is buffered for the event thread, or lost.
Raise(c, added) ==
    \/ /\ Len(events) < MaxEvents
       /\ events' = Append(events, [conn |-> c, ts |-> clock, added |-> added])
    \/ UNCHANGED events

Connect(c) ==
    /\ ~Quiet /\ c \notin alive
    /\ alive' = alive \cup {c}
    /\ Raise(c, TRUE)
    /\ UNCHANGED <<clock, trackerVars, runtime_config, notifierVars>>

\* A close or shutdown event is raised; other descriptors may keep the socket.
Close(c) ==
    /\ ~Quiet /\ c \in alive
    /\ \/ alive' = alive \ {c}
       \/ SharedSockets /\ UNCHANGED alive
    /\ Raise(c, FALSE)
    /\ UNCHANGED <<clock, trackerVars, runtime_config, notifierVars>>

SendRecv(c) ==
    /\ TrackSendRecv /\ ~Quiet /\ c \in alive /\ Len(events) < MaxEvents
    /\ events' = Append(events, [conn |-> c, ts |-> clock, added |-> TRUE])
    /\ UNCHANGED <<clock, alive, trackerVars, runtime_config, notifierVars>>

Listen(e) ==
    /\ ~Quiet /\ e \notin alive
    /\ alive' = alive \cup {e}
    /\ UNCHANGED <<clock, events, trackerVars, runtime_config, notifierVars>>

StopListening(e) ==
    /\ ~Quiet /\ e \in alive
    /\ alive' = alive \ {e}
    /\ UNCHANGED <<clock, events, trackerVars, runtime_config, notifierVars>>

\* NetworkSignalHandler::HandleSignal on the next event.
HandleSignal ==
    /\ events # <<>>
    /\ LET e == Head(events)
       IN  conn_state' = EmplaceOrUpdate(conn_state, e.conn, ConnStatus(e.ts, e.added))
    /\ events' = Tail(events)
    /\ UNCHANGED <<clock, alive, endpoint_state, known, external_ips_config,
                   runtime_config, notifierVars>>

\* The configuration loader replaces or resets the runtime configuration.
SetRuntimeConfig(rc) ==
    /\ ~Quiet /\ rc # runtime_config
    /\ runtime_config' = rc
    /\ UNCHANGED <<clock, envVars, trackerVars, notifierVars>>

-----------------------------------------------------------------------------
(***************************************************************************)
(* The notifier thread.                                                    *)
(*   connect  waiting for the next attempt to open a stream (Run)          *)
(*   sleep    in writer->Sleep, where control messages are also handled    *)
(*   scrape   in conn_scraper_->Scrape, reading procfs                     *)
(*   now      before time_micros and the configuration are read            *)
(*   report   before FetchConnState                                        *)
(***************************************************************************)

\* The locals of RunSingle at its entry.
FreshRun ==
    /\ old_conn_state' = EmptyMap
    /\ old_cep_state' = EmptyMap
    /\ sensor_conns' = {} /\ sensor_ceps' = {} /\ rate_limited' = {}

\* A stream is established and RunSingle starts; Sensor starts from nothing.
StartStream ==
    /\ pc = "connect" /\ clock >= wake
    /\ FreshRun
    /\ time_at_last_scrape' = clock
    /\ prev_ext' = ExternalIPsConfig(runtime_config)
    /\ pc' = "sleep" /\ wake' = clock
    /\ UNCHANGED <<clock, envVars, trackerVars, runtime_config, scrapeVars, time_micros>>

\* RunSingle returns; the next attempt is made after the delay.
LoseStream ==
    /\ ~Quiet
    /\ FreshRun
    /\ pc' = "connect" /\ wake' = clock + ReconnectDelay
    /\ time_at_last_scrape' = 0 /\ prev_ext' = {}
    /\ UNCHANGED <<clock, envVars, runtime_config>>

SleepFails ==
    /\ pc = "sleep"
    /\ LoseStream
    /\ UNCHANGED <<trackerVars, scrapeVars, time_micros>>

OnRecvControlMessage(msg) ==
    /\ pc = "sleep" /\ ~Quiet
    /\ known' = IF msg.has_ip_networks THEN Knowledge(msg) ELSE known
    /\ UNCHANGED <<clock, envVars, conn_state, endpoint_state, external_ips_config,
                   runtime_config, notifierVars>>

Sockets == Connection \cup (IF ScrapeListenEndpoints THEN ContainerEndpoint ELSE {})

\* Only net/tcp and net/tcp6 are read.
InProcfs(s) == s \in alive /\ s.l4proto = "TCP"

BeginRound ==
    /\ pc = "sleep" /\ clock >= wake
    /\ wake' = clock + ScrapeInterval
    /\ IF TurnOffScrape THEN /\ pc' = "now"
                            /\ UNCHANGED <<ts, unread>>
                       ELSE /\ pc' = "scrape"
                            /\ ts' = clock
                            /\ unread' = Sockets
    /\ UNCHANGED <<clock, envVars, trackerVars, runtime_config, scraped, runVars, sensorVars>>

\* procfs is read socket by socket while the kernel goes on; a process that
\* disappears or cannot be read makes the scraper skip its sockets.
ScrapeSocket(s) ==
    /\ pc = "scrape" /\ s \in unread
    /\ unread' = unread \ {s}
    /\ \/ scraped' = IF InProcfs(s) THEN scraped \cup {s} ELSE scraped
       \/ ~Quiet /\ UNCHANGED scraped
    /\ UNCHANGED <<clock, envVars, trackerVars, runtime_config, pc, wake, ts, runVars, sensorVars>>

ScrapeFails ==
    /\ pc = "scrape" /\ ~Quiet
    /\ pc' = "sleep"
    /\ ts' = 0 /\ unread' = {} /\ scraped' = {}
    /\ UNCHANGED <<clock, envVars, trackerVars, runtime_config, wake, runVars, sensorVars>>

UpdateTracker ==
    /\ pc = "scrape" /\ unread = {}
    /\ conn_state' = Update(conn_state, scraped \cap Connection, ts)
    /\ endpoint_state' = Update(endpoint_state, scraped \cap ContainerEndpoint, ts)
    /\ pc' = "now"
    /\ UNCHANGED <<clock, envVars, known, external_ips_config, runtime_config,
                   wake, scrapeVars, runVars, sensorVars>>

\* time_micros = NowMicros(); SetExternalIPsConfig(config_.GetExternalIPsConf()).
ReadClockAndConfig ==
    /\ pc = "now"
    /\ time_micros' = clock
    /\ external_ips_config' = ExternalIPsConfig(runtime_config)
    /\ pc' = "report"
    /\ UNCHANGED <<clock, envVars, conn_state, endpoint_state, known, runtime_config,
                   wake, scrapeVars, old_conn_state, old_cep_state, time_at_last_scrape,
                   prev_ext, sensorVars>>

-----------------------------------------------------------------------------
(***************************************************************************)
(* One report: fetch, delta, message, old state (RunSingle, from           *)
(* FetchConnState to Write).                                               *)
(***************************************************************************)
\* Faulty variant: FetchConnState is called with its default, normalize = false.
NewConnStateNotNormalized ==
    FetchState(conn_state, [c \in {c \in Connection : ShouldFetchConnection(c)} |-> c])

NewConnState == FetchState(conn_state, ConnNormalization)

NewCepState == FetchState(endpoint_state, EndpointNormalization)

\* What CloseConnectionsOnExternalIPsConfigChange takes out of the old state.
ClosedConns ==
    IF EnableAfterglow
    THEN ClosedByConfigChange(old_conn_state, prev_ext, external_ips_config, known)
    ELSE {}

DeltaConn(new, closed) ==
    IF EnableAfterglow
    THEN MoveToDelta(ComputeDeltaAfterglow(new, old_conn_state, time_micros,
                                           time_at_last_scrape, AfterglowPeriod),
                     old_conn_state, closed)
    ELSE ComputeDelta(new, old_conn_state)

NextOldConnState(new, closed) ==
    IF EnableAfterglow
    THEN UpdateOldState(Restrict(old_conn_state, DOMAIN old_conn_state \ closed),
                        new, time_micros, AfterglowPeriod)
    ELSE new

\* CountLimiter in AddConnections: of each container's opened connections the
\* first ones the iteration meets, up to the limit.  Closes are never limited.
Admitted(opened, limit) ==
    LET OfContainer(S, id) == {k \in S : k.container = id}
        count(S) == Cardinality(S)
    IN  {sent \in SUBSET opened :
            \A id \in {k.container : k \in opened} :
                LET n == count(OfContainer(opened, id))
                IN  count(OfContainer(sent, id)) = IF n <= limit THEN n ELSE limit}

\* FetchConnState(true, true) and FetchEndpointState(true, true) erase inactive entries.
Fetch ==
    /\ pc = "report"
    /\ conn_state' = ClearInactive(conn_state)
    /\ endpoint_state' = ClearInactive(endpoint_state)
    /\ ts' = 0 /\ scraped' = {} /\ time_micros' = 0
    /\ UNCHANGED <<known, external_ips_config, unread>>

\* CreateInfoMessage and Write.
SendConnections(delta) ==
    \E sent \in Admitted(Opened(delta), PerContainerRateLimit(runtime_config)) :
        /\ sensor_conns' = ApplyDelta(sensor_conns, delta, sent)
        /\ rate_limited' = (rate_limited \ DOMAIN delta) \cup (Opened(delta) \ sent)

SendEndpoints(delta) == sensor_ceps' = ApplyDelta(sensor_ceps, delta, Opened(delta))

Report ==
    /\ Fetch
    /\ LET new == NewConnState
           closed == ClosedConns
       IN  /\ SendConnections(DeltaConn(new, closed))
           /\ old_conn_state' = NextOldConnState(new, closed)
    /\ LET new == NewCepState
       IN  /\ SendEndpoints(ComputeDelta(new, old_cep_state))
           /\ old_cep_state' = new
    /\ time_at_last_scrape' = time_micros
    /\ prev_ext' = IF EnableAfterglow THEN external_ips_config ELSE prev_ext
    /\ pc' = "sleep"
    /\ UNCHANGED <<clock, envVars, runtime_config, wake>>

WriteFails ==
    /\ Fetch
    /\ \/ DOMAIN DeltaConn(NewConnState, ClosedConns) # {}
       \/ DOMAIN ComputeDelta(NewCepState, old_cep_state) # {}
    /\ LoseStream

-----------------------------------------------------------------------------
Init ==
    /\ clock = 0 /\ alive = {} /\ events = <<>>
    /\ conn_state = EmptyMap /\ endpoint_state = EmptyMap
    /\ known = NoKnowledge /\ external_ips_config = {}
    /\ runtime_config \in RuntimeConfigs
    /\ pc = "connect" /\ wake = 0
    /\ ts = 0 /\ unread = {} /\ scraped = {}
    /\ time_micros = 0 /\ old_conn_state = EmptyMap /\ old_cep_state = EmptyMap
    /\ time_at_last_scrape = 0 /\ prev_ext = {}
    /\ sensor_conns = {} /\ sensor_ceps = {} /\ rate_limited = {}

Environment ==
    \/ \E c \in Connection : Connect(c) \/ Close(c) \/ SendRecv(c)
    \/ \E e \in ContainerEndpoint : Listen(e) \/ StopListening(e)
    \/ \E rc \in RuntimeConfigs : SetRuntimeConfig(rc)
    \/ \E msg \in ControlMessages : OnRecvControlMessage(msg)

Faults == SleepFails \/ ScrapeFails \/ WriteFails

Notifier ==
    \/ StartStream \/ BeginRound
    \/ \E s \in Sockets : ScrapeSocket(s)
    \/ UpdateTracker \/ ReadClockAndConfig \/ Report

Next == Tick \/ Environment \/ HandleSignal \/ Notifier \/ Faults

Spec == Init /\ [][Next]_vars

\* The clock advances, and the event and notifier threads are scheduled.
FairSpec == Spec /\ WF_vars(Tick) /\ WF_vars(HandleSignal) /\ WF_vars(Notifier)

-----------------------------------------------------------------------------
(***************************************************************************)
(* Properties.                                                             *)
(***************************************************************************)
IsMap(m, K) == MapOn(m, K, 0 .. MaxClock)

NormalizedConnection ==
    [container : Container, lport : Nat, remote : IPNet,
     rport : Nat, l4proto : {"TCP", "UDP"}, is_server : BOOLEAN]

NormalizedEndpoint == {NormalizeContainerEndpoint(e) : e \in ContainerEndpoint}

\* What the tracker may know from Sensor.
Announced == {NoKnowledge} \cup {Knowledge(msg) : msg \in ControlMessages}

\* Every variable has its type; no status is stamped later than the clock's bound.
TypeOK ==
    /\ clock \in 0 .. MaxClock
    /\ alive \subseteq Connection \cup ContainerEndpoint
    /\ events \in Seq(Event)
    /\ IsMap(conn_state, Connection) /\ IsMap(endpoint_state, ContainerEndpoint)
    /\ known \in Announced
    /\ external_ips_config \subseteq Direction /\ prev_ext \subseteq Direction
    /\ runtime_config \in RuntimeConfigs
    /\ pc \in {"connect", "sleep", "scrape", "now", "report"}
    /\ wake \in Nat
    /\ ts \in 0 .. MaxClock /\ time_micros \in 0 .. MaxClock
    /\ unread \subseteq Sockets /\ scraped \subseteq Sockets
    /\ IsMap(old_conn_state, NormalizedConnection)
    /\ IsMap(old_cep_state, NormalizedEndpoint)
    /\ time_at_last_scrape \in 0 .. MaxClock
    /\ sensor_conns \subseteq NormalizedConnection
    /\ sensor_ceps \subseteq NormalizedEndpoint
    /\ rate_limited \subseteq NormalizedConnection

\* The connections the notifier considers reported as open after its last report.
ReportedOpen ==
    IF EnableAfterglow
    THEN RecentlyActive(old_conn_state, time_at_last_scrape, AfterglowPeriod)
    ELSE Opened(old_conn_state)

\* Whatever Sensor holds open is still open in the notifier's old state, so that
\* a later delta can close it: deltas and old state never part ways so as to
\* leave a connection open in Sensor that no report will ever close.
NoZombieConnections == sensor_conns \subseteq ReportedOpen

\* Whatever the notifier treats as already reported open is open in Sensor, or
\* was dropped by the rate limiter: no other open is lost between two reports.
NoMissedConnections == ReportedOpen \subseteq sensor_conns \cup rate_limited

\* Sensor and the notifier's old state stay in step: neither holds open what the
\* other does not, but for what the rate limiter dropped.
SensorInStep == NoZombieConnections /\ NoMissedConnections

\* The form of a connection is one that the configuration ext calls for, with what
\* Sensor announced at some time.
Consistent(k, ext) ==
    \E announced \in Announced : ~ShouldClose(k, DirectionOf(k.is_server) \in ext, announced)

\* The scrape times that one report compares are in order.
TimeOrder ==
    /\ time_at_last_scrape <= clock
    /\ pc = "report" => time_at_last_scrape <= time_micros /\ time_micros <= clock

\* Sensor's endpoints are exactly the active ones of the last fetched state.
EndpointViewExact == sensor_ceps = Opened(old_cep_state)

\* Between two reports, no connection that Sensor holds open is in the form that
\* the external IPs configuration in force replaced: nothing aggregated while
\* external IPs are enabled for its direction, and while they are disabled no
\* single external address, unless some message of Sensor's made it one to keep
\* (CloseConnectionsOnExternalIPsConfigChange).
ExternalIPsViewConsistent ==
    pc \in {"sleep", "scrape", "now"} =>
        \A k \in sensor_conns : Consistent(k, external_ips_config)

\* With afterglow, a report never closes, nor fails to open, a connection that
\* the scrape of its round saw, whatever events were handled since the scrape
\* started, as long as the round is shorter than the afterglow period.
ScrapedConnectionsStayOpen ==
    [][ (/\ EnableAfterglow /\ pc = "report" /\ pc' = "sleep"
         /\ time_micros - ts < AfterglowPeriod)
        => {ConnNormalization[c] : c \in scraped \cap DOMAIN ConnNormalization}
              \subseteq sensor_conns' \cup rate_limited' ]_vars

\* "Insert (or mark as active) all current connections and listen endpoints":
\* after Update, a scraped connection that still exists is active.
ScrapedConnectionsMarkedActive ==
    [][ (pc = "scrape" /\ pc' = "now")
        => \A c \in scraped \cap alive \cap Connection : conn_state'[c].active ]_vars

\* What a fully informed Sensor would hold open.
Expected(norm) == {norm[s] : s \in {s \in DOMAIN norm : InProcfs(s)}}

\* Once the environment is quiet, Sensor's connections become and stay the
\* normalised form of the sockets that exist, but for the rate limited ones: lost
\* events, late events, failed scrapes and lost streams are repaired by later rounds.
ConnectionsEventuallyConsistent ==
    <>[](pc # "connect" /\ sensor_conns \cup rate_limited = Expected(ConnNormalization))

\* Likewise for the listening endpoints, which only the scrapes report.
EndpointsEventuallyConsistent ==
    <>[](pc # "connect" /\ sensor_ceps = Expected(EndpointNormalization))

=============================================================================
