# A formal model of collector

This directory holds TLA+ specifications of [collector](../src/collector), the
TLC configurations that check them on small instances, and theorems whose proofs
TLAPS checks. `PROJECT.json` lists the runs, the source lines each definition
translates, the hazards the properties are aimed at and the theorems.

    tlc -config MCNotifier_afterglow.cfg MCNotifier     # any of the runs below
    tlapm NotifierProofs.tla                            # any of the proof modules

## 1. The system

Collector runs on every node. It observes system calls through an eBPF probe and
libsinsp, and reports processes, network connections and listening endpoints to
Sensor over gRPC. It is one process with these threads:

| Thread | Code | What it does |
|---|---|---|
| event thread | `system-inspector/Service.cpp` `Run` | takes the next event, offers it to the signal handlers, answers requests for process information |
| network notifier | `NetworkStatusNotifier.cpp` `Run` | opens a stream; every scrape interval scrapes procfs, updates the tracker, sends a delta |
| signal stream | `SignalServiceClient.cpp` | opens the stream that the event thread writes process signals to, again when it breaks |
| config loader | `ConfigLoader.cpp` `WatchFile` | reloads the runtime configuration on inotify events |
| stats exporter, HTTP server | `CollectorStatsExporter.cpp`, `*Inspector.cpp` | read-only |

### Components, their state and operations

| Component | State | Operations | Interacts with | Hard behaviour |
|---|---|---|---|---|
| Connection tracker (`ConnTracker`) | two maps from raw objects to a status (last time, active), known public IPs and networks, external IPs configuration | `UpdateConnection`, `Update`, `FetchConnState`, `FetchEndpointState`, the static delta functions, `UpdateKnown*`, `CloseConnectionsOnExternalIPsConfigChange` | event thread, notifier thread, introspection | events and scrapes with crossing timestamps; keys that change under tracked objects |
| Network status notifier | locals of `RunSingle`: the old states, the time of the last scrape, the previous configuration | one round; control messages | tracker, scraper, duplex client, configuration | deltas against a Sensor that forgets on reconnect; failures between fetch and write |
| Network signal handler | none | `HandleSignal` | event thread, tracker | lost, late and reordered events |
| Procfs scraper | none | `Scrape` | kernel | a view read over time, with processes vanishing |
| Rate limiters | token buckets, counts | `Allow` | notifier, process handler | flush at capacity, refill arithmetic |
| Duplex gRPC client (`DuplexGRPC.h`) | flags of pending and done operations, a completion queue | read, write, finish, sleep, shutdown | both streams | completions in any order, deadlines, shutdown |
| Signal service client | `stream_active_`, `first_write_`, the writer | `PushSignals`, establish, stop | event thread, stream thread | wake-ups, refresh after reconnect |
| System inspector service | handler list, pending process requests | `Run`, `SendExistingProcesses`, `GetProcessInformation`, `CleanUp` | handlers, processes | handlers that finish, stop while requests are pending |
| Process store | pid to weak pointer | `Fetch`, resolution callback, wait | scraper, event thread | expiry, late callbacks, waiting under the tracker's lock |
| Self checks | seen flag, deadline | `HandleSignal` | event loop | expiry against late events |
| Config loader, inotify | watchers, runtime configuration | file, directory and real path events | configuration | files replaced between an event and its handling |
| Stoppable threads, service | stop flag, pipe | start, stop, join | all threads | stop racing start, reconnect and waits |
| Radix tree | bit tree | insert, find, subset | tracker | word boundary, two families in one tree |
| Process signal formatter | none | a message from an event, a message from the thread table | event thread | two ways that must agree |
| Start-up (`CollectorArgs`, `CollectorConfig`, `HostInfo`) | the configuration | parse, merge, derive, refuse | environment, host | many sources, widths, failures |
| HTTP endpoints | profiles; otherwise read-only | `GET`, `POST` | profilers, tracker, processes | sequences of requests |

The hazards of every component, with the line where each bites and the properties
aimed at it, are in `PROJECT.json`.

## 2. What is modelled

**`ConnTracker`** has the tracker's data and its pure computations. A C++ map is
a function from its key set. Addresses are numbers of `AddressBits` bits, 0 the
null address and all ones the canonical external address; networks are prefixes;
a radix tree is the set of its networks and `Find` the longest match. `Update`,
`FetchState`, `ComputeDelta`, `ComputeDeltaAfterglow`, `UpdateOldState` and
`MoveToDelta` return the map that the C++ function leaves behind.

**`NetworkStatusNotifier`** composes five parties around it:

* the kernel: `Connect`, `Close`, `SendRecv`, `Listen`, `StopListening`; each
  connection event is buffered or lost;
* the event thread: `HandleSignal` applies the oldest buffered event, however
  late;
* the configuration: `SetRuntimeConfig` at any moment;
* the notifier thread, whose position is `pc`: `connect` (waiting to open a
  stream), `sleep` (in `writer->Sleep`, where control messages are handled too),
  `scrape` (one `ScrapeSocket` per socket, interleaved with the kernel), `now`
  (before `time_micros` and the configuration are read) and `report`. `Report`
  is the code from `FetchConnState` to `Write`: these lines use only the
  thread's locals and the tracker, which changes only under its lock in
  `FetchConnState`;
* Sensor: `sensor_conns` and `sensor_ceps` are what the deltas of the current
  stream leave open. Sensor is external; it starts a stream with nothing.

`ScrapeFails`, `SleepFails` and `WriteFails` are the error returns of
`RunSingle`. `rate_limited` is a history variable: what the limiter dropped.

Abstractions: one address family; peers and listening addresses are not local;
an endpoint's originator has fixed attributes; statistics counters are left out;
the system clock does not go back; the notifier is not stopped (see `Lifecycle`).

**`ProcfsScraper`** details a scrape. The scraper walks over the processes: their
container and namespace, their descriptors, and the two tables of a namespace for
the first sockets of a container in it, each a step between which processes open,
share and close sockets, exit and are reaped. The descriptors of one process and
one table are read at once; a process keeps its namespace; an inode is not reused.

**`NRadix`** is the tree behind `Find`: nodes are paths of bits, both families in
one tree, words of three bits instead of 64. It is compared with definitions over
the set of its networks.

**`ProcessStore`** has the processes that own endpoints: references held by the
notifier, the tracker and an introspection request, the cache of weak references,
the pending requests, the two mutexes and the wait of a comparison, under the
tracker's mutex, for the event thread. Release of the last reference and removal
from the cache are two steps, as in the code.

**`DuplexGRPC`** is the life of one stream. `st` holds the flags (done, pending,
error) and what gRPC has in flight, `cq` the completions not yet taken; one thread
calls operations (`DoSync`, `DoPoll`, asynchronous calls, `Shutdown`, the
destructor) and each completion it takes runs `ProcessEvent` with its read
callback; gRPC completes operations in any order, the stream breaks, the context
is cancelled. **`MessageStream`** is the abstract specification: messages go out
one at a time and in order, and none after a failure is known. `DuplexGRPC`
implements it under the mapping `closed <- st.stream_error`.

**`RateLimit`** has the token buckets and the cache as operators, with the
truncating division of `refill_count`; **`RateLimitCache`** calls them while a
clock runs and may be set back.

**`SignalPipeline`** composes the event loop of `Service::Run`, the self checks,
the process handler with `RateLimit`, and the two threads of the signal service
client. The wait on the condition variable is split into test, block and wait,
because its mutex is a local of the waiting function. Stop is the event thread's
way out of `Run`. libsinsp also adds processes to its table, or gives them a new
executable, by events that no handler is told of (`GetNextUnheard`: a clone or fork,
an exec that `FilterEvent` drops); `past.unheard` has those since the last refresh.

**`ProcessFormatter`** makes the message for a process in both ways and walks its
parents one visitor call at a time. Fields that both ways copy are left out, and
libsinsp finds the fields of an event that has a thread.

**`ConfigLoader`** is the loader's thread, `Inotify`, and a file system in which the
file is plain or a link into a volume that the kubelet publishes. Handlers are
sequences of steps, because the file may change between any two. A *setting*, chosen
initially, says how the file is deployed, which changes no watch tells of, whether the
kubelet publishes before the last version was handled, and how long the queue of events
is. **`YamlParser`** is the parser as a walk over a descriptor. A name is the sequence of
its words and of what joins them, which is what the two spellings differ in. A document
may be a list: `Parse` refuses only scalars and null, and a list has no field by any
name. Where the parser does not return at all (an item of a list has no key to convert,
`ConfigLoader.cpp:165`; `GetMessage` of a repeated field), the result is `Ends`.

**`OptionParser`** walks the command line twice as `optionparser.h` does, with the
checks of `CollectorArgs`. **`StartConfig`** merges the command line, the JSON
document and the environment, derives the settings, and uses **`HostInfo`** for the
heuristics. Ring buffer sizes have 6 bits instead of 32 and floats a mantissa of 4 bits
instead of 24: a number outside the range wraps around, and `Float` rounds to the
nearest float, ties to even, as the conversion and the division of
`GetSinspBufferSize` do. A quotient of 2^32 does not fit into the unsigned int it is
converted to, which is undefined; `ToUnsigned` has the outcomes of the two kinds of
machines that collector is built for. `GetSecureBootStatus` is an action of its
own, since nothing calls it at start.

**`Lifecycle`** goes from `main` to exit: waiting for Sensor, starting the threads,
signals, `RunForever`, and the destructor step by step against the loops of the
loader, the notifier (with `NetworkConnectionInfoServiceComm`) and the exporter,
and an HTTP request; also the diagnostics and the abort handler. Of the event loop it
has that an event is being handled, which may end in a `Write` that never returns, and
of the handlers' stop its outcomes: done, a join that never ends, a crash (`StopJoin`
and `StopCancel` in `SignalPipeline`). `stream` is the notifier's stream: up, broken, or
"taken", when `WaitUntilStarted` has taken its last completion and dropped the result,
so that no `Sleep` fails any more.

**`ProfilerHandler`** is the handler for profiles; each request is one step under
its mutex. gperftools is external: starting a CPU session truncates the file.

`MCNotifier` instantiates `NetworkStatusNotifier` for TLC; `MCSignals`, `MCScraping`,
`MCConfiguration` and `MCLiveness` the others (section 3), with sets of inputs from
`MCOptionParser`, `MCStartConfig`, `MCYamlParser`, `MCNRadix`, `MCProcfsScraper` and
`MCProcessFormatter`. What a module assumes of its constants is an `ASSUME` of it, or a definition
that the `ASSUME` of the `MC` module asserts of every instance. A definition whose
comment begins "Faulty variant" is not part of the model: it is a deliberate error
against which a property is tested.

## 3. What is checked

### The network pipeline

| Run | Properties | Question |
|---|---|---|
| `afterglow` | `TypeOK`, `NoZombieConnections`, `NoMissedConnections`, `ScrapedConnectionsStayOpen` | do afterglow deltas keep Sensor and the old state together, and does a scraped connection survive a racing event? |
| `plain` | `SensorInStep` (both of these) | the same without afterglow, with the limiter active and the external IPs configuration changing |
| `endpoints` | `EndpointViewExact` | endpoints that two processes share; ignored ports and networks |
| `external_ips` | `ExternalIPsViewConsistent` | are connections in the form of the old configuration closed when it changes? |
| `networks` | `SensorInStep` | control messages that change the keys of tracked connections; UDP; shared sockets; scraping off |
| `conn_liveness` | `ConnectionsEventuallyConsistent` | do later rounds repair every fault? |
| `endpoint_liveness` | `EndpointsEventuallyConsistent` | the same for endpoints |
| `scrape_race` | `ScrapedConnectionsMarkedActive` (violated) | does `Update` mark every scraped connection active? |

`scrape_race` shows a disagreement of the code with its comment at
`ConnTracker.cpp:64`: a connection whose event is not older than the start of
the scrape is left inactive by `Update` although the scrape saw it. With
afterglow the reports are not affected (`ScrapedConnectionsStayOpen`); without,
one round reports the connection closed.

`ExternalIPsViewConsistent` is about configuration changes: a message that takes an
announced address or network back makes a connection reported under it look like
one to close until it expires, which is intended, so the property asks for the form
that some message of Sensor's calls for. `external_ips` has two connections and one
message, which makes the peer of one of them an address to keep.

### The other components

Four runs check the other modules. Each is a sum of *parts*: an initial state
chooses one part (variable `focus`), every step is a step of that part, and the
variables of the others are `"absent"` or keep an initial value. A part is a component
module that the `MC` module extends, or an instance of one with constants of its own, so
that one module can be checked on several instances; the state space of a run is the
sum of those of its parts. A module that is extended states its properties itself, and
the proofs are about the same definitions; a property of an instance is wrapped in one
of the `MC` module that speaks of the behaviours of its part. Where a property joins
several definitions they are given in parentheses. The other `MC` modules hold the sets of inputs of the instances.

| Run | Part: module, instance | Properties | Question |
|---|---|---|---|
| `signals` | callback: `DuplexGRPC`, as the notifier and the signal client use it | `PendingExact`, `NothingAfterFinish`, `NoReadAfterEnd`, `ImplementsStream` | do the flags keep gRPC from being misused, whatever completes when? |
| | reader: `DuplexGRPC`, a client that polls, reads and writes asynchronously | `PendingExact`, `NothingAfterFinish` | the same without a callback |
| | pipeline: `SignalPipeline` | `RefreshSound` (`PipelineTypeOK`, `TableComplete`, `RefreshNotRequestedTwice`), `SelfCheckCostsOneEvent`, `WriterHandedOver` | does Sensor hear of every process on every stream? |
| | limiter: `RateLimitCache`, with a clock that runs and is set back | `LimiterSound` (`LimiterTypeOK`, `WindowBound`, `RecoversFromSetBack`) | how many signals of one key get through, and can a key be locked out? |
| | formatter: `ProcessFormatter` | `MessagesExact` (`LineageExact`, `SameFromEitherSource`) | is the lineage exact, and do both ways agree? |
| `scraping` | shared: `ProcfsScraper`, sockets shared by processes | `ScrapeSound`, `ReportedOnce`, `CompleteUnlessDropped` | is a scrape of a changing system right about each socket? |
| | families: `ProcfsScraper`, sockets in the tables of both families | `BothFamiliesComplete` (the same three) | the same where net/tcp6 is missing |
| | lookup, subset: `NRadix` | `RadixExact` (`NothingLost`, `FindLongest`, `SubsetExact`) | is the tree what `ConnTracker` takes it for? |
| | store: `ProcessStore` | `OneObjectPerProcess` (`Deduplicated`, `CacheComplete`) | is there one object per process? |
| | profiler: `ProfilerHandler` | `OffMeansFetchable` | can a profile said to be there be fetched? |
| `configuration` | args: `OptionParser` | `CommandLineSound` (`BufferSuffices`, `FailureExplained`, `CommandLineHonoured`) | is the second walk within what the first one counted, and is the result what was written? |
| | start: `StartConfig`, `HostInfo` | `MostSpecificSource` (with `TlsFromOnePlace`), `StartSound` (`AfterglowBounded`, `BufferSizeValid`, `BuffersFitTotal`, `RefusesUnsupported`) | what wins, and are derived settings within their limits? |
| | yaml: `YamlParser` | `ParsedExactly` (`AcceptsValid`, `Merges`, `NamesRoundTrip`) | does the parser accept and mean what a direct definition says? |
| | loader: `ConfigLoader`, a plain file and a volume, with room for every event | `Converged` (`UpToDate`, `Watched`, `NoRestartNeeded`), `WatchesConsistent` (`LoaderTypeOK`, `NoLeakedWatch`) | is the configuration in force the one of the file? |
| | loader: `ConfigLoader`, a plain file with moves that are not seen and a queue of one event | `WatchesConsistent` | do the watchers stay consistent when events are dropped? |
| `liveness` | life: `Lifecycle` | `InspectorOutlivesUsers`, `StopsUnlessBlocked`, `Reconnects` | is the inspector freed last, does a signal end collector, is the stream opened again? |
| | duplex: `DuplexGRPC` (`BusySpec`) | `EndIsNoticed` (with `WriteReturns`) | does a write without deadline return, and is the end of a stream noticed? |
| | pipeline: `SignalPipeline` | `StreamReplaced`, `StopEnds` | is a broken stream replaced, and does a stop end? |
| | loader: `ConfigLoader` | `Follows` (with `LoaderStopEnds`) | does it follow the file for good, and end when stopped? |
| | store: `ProcessStore` | `NobodyWaitsForever` (`EventThreadResumes`, `StopCompletes`, `EveryRequestAnswered`) | do the event thread and the notifier get out of waiting for each other? |

These hold with stated exceptions, each a case of the next table. `Converged` speaks of
settings without moves that no watch reports and removals before the thread starts
(`unseen = "never"`) and without versions published before the last one was handled
(`~racing`), as long as no event was dropped; the setting of `liveness` is one of these. `StreamReplaced` and `StopEnds` except a notification that was
sent before the wait began (`MissedWakeup`), and `StopEnds` counts the crash on a
null context as an end and excepts a `Write` that blocks on a stream that is up.
`StopsUnlessBlocked` excepts a notifier that has replaced its
context after it was cancelled, and the calls that nothing ends: the `Write` of an event,
the join of a stream thread that missed its notification, and the sleeps on a stream that
was taken; the last is also the exception of `Reconnects`. `EndIsNoticed` speaks of a
stream whose status is still to be taken, and excepts a `WaitUntilStarted` that takes it.
`RefreshSound` excepts processes that no handler was told of since the refresh.
`StartSound` allows the buffers what rounding adds to their total: less than a byte for
each, and one part in 2^23. `ParsedExactly` counts a list among the valid documents: the
permissive mode, which is the loader's, accepts any and sets nothing, and outside of it
only an empty list does not end the parser. In `RadixExact`, `FindLongest` allows that a longer network of the
other family hides one, and `SubsetExact` speaks of trees of one family.

The systems of these runs may really stop (a stopped service, a parsed command
line), so deadlock is not checked; that nobody waits for ever is stated by the
properties of `liveness`.

### Where the code and what is said of it disagree

`scrape_race` is described above. The models show more statements of comments,
documents and tests that the code does not keep. Each is a definition at the end of
its module, which TLC refutes when it is checked as an invariant (`ShutdownCompletes`
as a property of `FairSpec`, `PolledReadSucceeds` as an action property) with the
constants given; where none are given, those of the part above will do.

| Definition, constants | What the code does | What is said |
|---|---|---|
| `DuplexGRPC!StartedMeansReady` | a start that failed counts as started (`DuplexGRPC.h:705`) | `DuplexGRPC.h:336` "Wait for the specified time for the stream to become ready." |
| `DuplexGRPC!DrainedWhenDestroyed` | the destructor stops draining when no completion is ready yet (`DuplexGRPC.h:552`) | `DuplexGRPC.h:549` "Shutdown the client and drain the queue." |
| `DuplexGRPC!PolledReadSucceeds`, `Usage = {"PollAnyCanRead", "Read"}`, `Untimed = {}` | a non-blocking read after a successful poll times out (`DuplexGRPC.h:392`); no code of collector reads this way | `DuplexGRPC.h:23` "non-blocking read, since we've polled for the event." |
| `DuplexGRPC!DuplicateFinishHandled` | a second `Finish` is refused as illegal (`DuplexGRPC.h:628`) | `DuplexGRPC.h:626` "a duplicate async call to finish is handled by the above" |
| `SignalPipeline!ContextExistsAtStop` | a stop before the first stream uses a null context (`SignalServiceClient.cpp:57`) | `SignalServiceClient.h:55` "This needs to have the same lifetime as the class." |
| `ConfigLoader!UpToDate`, a setting with `unseen = "moves"` | the directory watch leaves out moves, so a file moved to the path is never loaded (`Inotify.cpp:42`) | `docs/references.md:150` "Whenever the configuration file is updated or created, collector will update the configuration" |
| `ConfigLoader!UpToDate`, `unseen = "start"` | a file deleted before the thread starts stays in force (`ConfigLoader.cpp:541`) | `docs/references.md:151` "If the configuration file is deleted the configuration will revert to the default" |
| `ConfigLoader!UpToDate`, `deployment = "configmap"` and `racing` | a version published between `canonical` and the watch of its result is missed, and all later ones (`ConfigLoader.cpp:545`) | `docs/references.md:150`, as above |
| `ConfigLoader!NoRestartNeeded`, the same setting | `canonical` of a dangling link throws out of the thread (`ConfigLoader.cpp:617`) | `docs/references.md:157` "without a need for restart" |
| `ConfigLoader!CoupleOfWatchers`, `deployment = "configmap"` | every version leaves a watcher behind (`ConfigLoader.cpp:664`) | `Inotify.h:226` "will only have a couple watchers for now" |
| `YamlParser!NothingIgnored`, `Modes = {"UNKNOWN_FIELDS_ONLY"}`, `CamelCase = {TRUE}` | a key in snake case counts as known but is not read (`ConfigLoader.cpp:167`) | `ConfigLoader.h:56` "Fail on unknown fields, but allow missing fields" |
| `YamlParser!DocumentedNameIsRead`, `MCYamlParser!DocumentedDocuments` | `externalIps` is read, `externalIPs` ignored (`ConfigLoader.cpp:207`) | `docs/references.md:162` "networking.externalIPs.enabled: ENABLED \| DISABLED" |
| `OptionParser!ExitCodeUsed` | `--help` exits with status 1 (`collector.cpp:154`) | `CollectorArgs_test.cpp:51` "EXPECT_EQ(0, exitCode)" |
| `StartConfig!TotalRespected`, `MCStartConfig!TotalStarts` | a total of 2^32 wraps to 0, which is no limit (`CollectorConfig.cpp:376`) | `docs/references.md:71` "will be adjusted to match the limit" |
| `StartConfig!DefaultForMalformed`, `MCStartConfig!MalformedStarts` | a number that does not parse throws and ends collector (`EnvVar.h:101`) | `EnvVar.h:52` "Using default value." |
| `StartConfig!MethodHonoured`, `MCStartConfig!EbpfStarts` | the probe is CO-RE BPF whatever the method (`Service.cpp:116`) | `docs/references.md:186` "Either \"ebpf\" or \"core-bpf\"." |
| `StartConfig!SecureBootTold`, `MCStartConfig!FirmwareStarts` | the byte is cast to an enumeration whose 0 and 1 mean something else (`HostInfo.cpp:347`) | `HostInfo.cpp:339` "0 means the feature is disabled, 1 enabled." |
| `ProcessStore!FetchFindsProcess`, `Introspection = TRUE` | a fetch returns null while the process is being destroyed (`Process.cpp:23`) | `Process.h:33` "Returns a reference to the cached Process entry" |
| `ProcessStore!CallbackHasProcess` | a callback is called for a process that is gone (`Service.cpp:405`) | `Process.h:88` "use a shared pointer here to handle deletion while the callback is pending" |
| `Lifecycle!ShutdownCompletes`, `UseGRPC = TRUE` | the notifier replaces its context between the cancellation and the stop flag and is joined for ever (`NetworkStatusNotifier.cpp:147`) | `collector.cpp:56` "the collector service will take care of the rest." |
| `Lifecycle!ShutdownCompletes`, `UseGRPC = FALSE` | without Sensor the writer's `Sleep` never fails (`DuplexGRPC.h:749`) | the same |
| `Lifecycle!FailureDiagnosed` | a probe that does not load throws past the diagnostics (`KernelDriver.h:73`) | `docs/troubleshooting.md:114` "If any part of the start-up procedure fails, a helpful diagnostic summary is written to the logs" |
| `Lifecycle!TruncatedLinesEnd` | a line of exactly the size of the buffer is off by one (`AbortHandler.cpp:5`) | `AbortHandler.cpp:6` "the output was truncated, to keep it readable add a new line" |
| `NRadix!FindSmallestSubnet`, `MaxTree = 3` | the last network on the path hides a shorter one of the right family (`NRadix.cpp:182`) | `NRadix.h:108` "Returns the smallest subnet larger than or equal to the queried network." |
| `NRadix!SkipsOnlyExisting`, `MaxTree = 3` | networks of two families with the same bits exclude one another (`NRadix.cpp:89`) | `NRadix.h:105` "If the network already exists, insertion is skipped." |
| `NRadix!SubsetOfFamily`, `MaxTree = 2`, `MaxOther = 3` | a deeper network of the other family replaces the one that matters (`NRadix.cpp:229`) | `NRadix.h:120` "for a given family." |
| `ProcfsScraper!SnapshotOfAll` | a process that exits takes the connections of its container out of one scrape (`ProcfsScraper.cpp:561`) | `ProcfsScraper.h:31` "a snapshot of all active network connections" |
| `ProcessFormatter!ArgumentsDisabled`, `NoProcessArguments = TRUE` | arguments are sent when a stream is refreshed (`ProcessSignalFormatter.cpp:230`) | `ProcessSignalFormatter.cpp:151` "set process arguments, if not explicitely disabled" |
| `ProfilerHandler!LatestCPUProfile` | an unfinished profile is sent (`ProfilerHandler.cpp:37`) | `ProfilerHandler.h:19` "get latest cpu profile" |
| `ProfilerHandler!LatestHeapProfile` | a failed copy loses the earlier one and keeps its length (`ProfilerHandler.cpp:115`) | `ProfilerHandler.h:21` "get latest heap profile" |

### Bounds and fairness

**Network pipeline: bounds.** `MaxClock` (1 to 4) ticks with a scrape interval and a reconnect
delay of one tick give two to five rounds and one or two streams;
`AfterglowPeriod` is 1 or 2, so an entry can be inside, at the edge of and beyond
its period. `MaxEvents` = 1 buffered event suffices to overtake or be overtaken
by a scrape, a fetch or a report; in `external_ips` it is 0, because there the
scrapes alone make the keys change. Two connections are the fewest that can
collide under one key, compete for the limit, or differ in direction. Three
address bits hold a private network, an announced network, another public
address and the canonical external address. After `ActiveUntil` the environment
and the faults are quiet. The clock is bounded, so deadlock is not checked.

**Network pipeline: fairness** (`FairSpec`). Weak fairness of `Tick` (time passes), of
`HandleSignal` (the event thread's loop never blocks on the notifier) and of
`Notifier` (the thread's next step; every wait in it is bounded by a deadline).
`MaxEventLag` bounds how long an event stays in the buffer while time passes:
without it the bounded clock could stop before the event thread gets its turn.
The faults are not fair and end at `ActiveUntil`: no round can repair what a
later fault breaks again.

**Other bounds.** Rate limits: two keys for a cache of one, bursts of three, a period
of three ticks and nine ticks, of which a set back takes up to seven: a bucket is
refilled, saved up, flushed, and in debt for two periods. Duplex client:
two writes (one in flight, one refused or next) and one or two reads; a message more
adds no new combination of flags, and the proofs have no bound. Signals: two
processes with one key, two events and two streams, the fewest with a refresh after
a break; one event for the liveness, where a process and a self check suffice to
break a stream. Configuration: two contents and four operations, two for the
liveness (a change and its withdrawal). Processes: two pids and
three objects, so that one is fetched again while its predecessor is destroyed. Start:
numbers below, at and beyond both ends of 6 bits, and totals that round up to a power
of two: 31 to 32, which exceeds the total, and 63 to 64, which does not fit.
Lifecycle: lines of up to one character more than the buffer. Radix tree: three bits
per word put networks on both sides of the word boundary. Scraper: three processes,
two scrapes, three changes. Formatter: three ancestors for a limit of two, which the
code has at ten. Profiler: three sessions.

**Other fairness.** Every thread of a component runs (weak fairness of its next
step), justified by preemptive threads, except in a call without a deadline that waits
for someone else: the event thread's `Write` on a stream that is up owes nothing
(`PipelineFairness`), and neither does an event that is being handled in `Lifecycle`. In
`DuplexGRPC` operations on a stream that
is over complete, and a cancelled stream ends, which is gRPC's contract; nothing is
assumed of a stream that is up. `BusySpec` adds a user that sleeps again and again, each
time until its deadline at the latest (`Timeout`), with strong fairness of `Sleep`
because other calls come in between; it need not write, as the notifier does not when
there is nothing to report. In `ProcessStore` a wait ends after its timeout, and taking the
tracker's mutex is strongly fair: a thread that is offered it again and again gets
it. In `Lifecycle` neither Sensor nor the network owes anything, and a write that fails
is not relied on. A spurious wake-up is never relied on.

## 4. What is proved

For every value of the constants that satisfies the assumptions:

* `NotifierProofs`, of `ConnTracker`: `ComputeDeltaExact` and `ComputeDeltaAfterglowExact`, that
  a delta is exactly the difference of two views; lemmas on types, on `Find` and
  on normalisation, among them `FetchedIsNotClosed` (a key that a round fetched
  is never one that the configuration change of the same round closes).
* `NotifierProofs`, of `NetworkStatusNotifier`: `TypeCorrect` (`Spec => []TypeOK`), `SensorHoldsNoZombies`
  (`Spec => []NoZombieConnections`), `SensorMissesNothing`
  (`Spec => []NoMissedConnections`), together `SensorStaysInStep`, `EndpointView`
  (`Spec => []EndpointViewExact`), `ExternalIPsView`
  (`Spec => []ExternalIPsViewConsistent`) and the action property `ScrapedStaysOpen`
  (`Spec => ScrapedConnectionsStayOpen`).
* `DuplexProofs`: `PendingIsExact`, `NothingStartsAfterFinish`, `OneEndOfReads`, and
  `DuplexImplementsStream`, the refinement of `MessageStream`.
* `ProgramProofs`, how the program ends and starts: `InspectorIsFreedLast`
  (`Spec => []InspectorOutlivesUsers`, of `Lifecycle`) and `CommandLineIsSound`
  (`ArgsSpec => []CommandLineSound`, of `OptionParser`).
* `ScrapingProofs`: `ScrapesAreSound` (`Spec => []ScrapeSound`), `SocketsReportedOnce`
  (`Spec => []ReportedOnce`), `ScrapesAreComplete` (`Spec => []CompleteUnlessDropped`),
  `OneProcessObject` (`StoreSpec => []OneObjectPerProcess`) and
  `OffProfilersHaveProfiles` (`ProfilerSpec => []OffMeansFetchable`).
* `SignalProofs`: `LimiterLimits` (`LimiterSpec => []LimiterSound`), `WriterIsHandedOver`
  (`PipelineSpec => []WriterHandedOver`), `SelfChecksCostOneEvent`
  (`PipelineSpec => []SelfCheckCostsOneEvent`) and `RefreshIsSound`
  (`PipelineSpec => []RefreshSound`).
* `FormatterProofs`: `MessagesAreExact` (`FormatterSpec => []MessagesExact`).
* `LoaderWatchProofs`: `WatchesAreConsistent` (`LoaderSpec => []WatchesConsistent`).
* `LoaderProofs`, on top of it: `LoaderConverges` (`LoaderSpec => []Converged`).

**Notifier.** The inductive invariant `IInv` adds to the views the types and `TimeOrder`. The
latter is needed because the delta compares the old state at the time of the
previous scrape and the new one at the time of this one: with
`time_at_last_scrape <= time_micros` an entry that was expired stays expired.
The argument for a report: the closed entries are disjoint from the fetched ones
(`ClosedNotFetched`), so the delta is exact (`ReportDeltaExact`); what the
limiter drops moves to `rate_limited`; every close gets through. Every other step
leaves the views alone or empties both sides.

`ExternalIPsViewConsistent` is not inductive, because a report compares with the
configuration of the round before. `FormInv` says more, of all entries of the old
state: between reports they have the form of the configuration in force, and during a
report with afterglow that of `prev_ext`, so that the comparison of the two finds what
to close. The theorem holds for every set of messages. `ScrapedInv` says
that between the update of the tracker and the report every scraped connection is
tracked with a time not before the scrape's, which an event can raise but not lower;
less than an afterglow period later it is therefore recently active.

Assumptions: `AddressAssumption` (there are addresses), `ConnectionAssumption`,
`MessageAssumption` (types of inputs), `TimeAssumption` (bounds are naturals) and
`CanonicalAssumption`: no peer and no announced network has the canonical
external address, 255.255.255.255. A real connection to that address would be
taken for an aggregated one.

**Duplex client.** `IInv` adds to `PendingExact` what ties the flags to the stream: a
shut down queue has its flag (`ShutdownKnown`), an error the client knows of is one
of the stream and has requested the status (`ErrorKnown`), a failed completion that
is still queued means the stream is over (`FailuresFinal`), the latest message is in
flight, accepted or lost (`WriteAccounted`), and after the end of the reads none is
pending (`ReadsOver`). `ErrorKnown` is what makes `DoAsync` refuse the read that
`HandleRead` starts after the last callback. For the refinement every step maps to
a step of `MessageStream` or leaves its variables alone. Assumption:
`UsageAssumption` (which calls the user makes).

**Lifecycle.** `IInv` says for each step of the destructor which threads are joined
and that the server is closed, also after the inspector is freed, while the handlers are
stopped or hang; what is joined is not started again, because only
`main` starts threads and it is past that. No assumption on
the constants is used.

**Command line.** The parser walks `argv` twice, and the checks that both walks call
change `CollectorArgs`; the buffer of the second walk is as long as the first one
counted. `ArgsInv` describes a walk by the set of the options it has passed, each of
which leads to the next one or to the word the walk is at (`Path`). What a check returns
depends on the words alone (`Checked`), so that the second walk takes the places of the
first (`Storing`) and, at each of them, has stored what the first had counted there
(`Tallied`). `Held` says whose arguments `CollectorArgs` has after a part of the second
walk: those of its last options or else of the first walk's. A walk that no check stops
has passed all words that start an option (`PathSolves`), and there is only one such set,
since two would differ at a first word (`OneSolution`). Assumption: `WordsAssumption` (an
option word has a name).

**Scraper.** `IInv` says that a socket in use stays in its container and namespace
(`Home`), that what is open is in the history of the running scrape (`Watched`),
and that each recorded and each reported socket was found at its process and is
there once (`Recorded`, `Resulting`). For completeness `CInv` follows a socket that
lasts through the scrape: it is open at a live process (`Lasting`), it is recorded once
its process was looked at, be it through another process of its container
(`Recording`), and the tables of a namespace with recorded sockets were read, given up
or are being read (`Tables`). The delicate case is a table that could not be read: the
check at the end tells a process that has gone from a kernel without that table, since
a process that is alive then was alive when both were read. `HostAssumption`:
processes are numbers with a namespace each, and a socket is of one of two families.

**Process store.** `CacheExact`: the cache has an entry for exactly the objects that
exist, where an object exists until it is freed. `OneObjectPerProcess` speaks of live
objects and is not inductive alone: an entry whose object is being destroyed must keep
`Fetch` from making a second one, until `~Process` has removed it.

**Profilers.** `CPUInv` and `HeapInv`: a length belongs to a profile that is
there, that of the running session or of the last one.

**Rate limiter.** `WindowBound` says that 2B+1 consecutive grants to a key take at least
a refill period, for a burst of B, since the cache was flushed or the clock set back.
The invariant `Fits` of a bucket and the times of its grants says that the bucket has
given B minus its tokens since its own time, at most B in the period before that time
and everything else earlier; and that its debt, which a clock that was set back can
leave, is no more than the periods since its time make up for. Truncating division
enters through lemmas on quotients (`Quotient`, `QuotientUnique`, `QuotientShift`).
Assumptions: `LimitAssumption` (capacity, burst and period are positive) and
`ClockAssumption`.

**Signal pipeline.** `PipelineInv`: `Threads` says who may use the writer at each
place of the two threads; `Handlers`, that no handler is in the list twice and one that
has finished is not in it, from which a self check costs one event; `Refreshing`, for
each place of the event thread, which processes Sensor still misses on a refreshed
stream: those it is about to send and those nobody was told of. A stream that breaks during a refresh makes the
implication vacuous until the next refresh begins with all of the table. Assumption:
`ProcessAssumption` (types).

**Formatter.** `FormatterInv`: while the traversal goes on, the lineage names the
reported ones among the parents that were visited, it is shorter than the limit, and
the path to compare with is that of the last visited parent; when it ends, the lineage is
complete. A place in the lineage is the number of parents reported up to there, so that
there is one complete lineage, and the two messages for a process agree. Assumption:
`FormatterAssumption` (the limit is positive; the ancestors are a sequence).

**Configuration loader.** `WatchInv` holds in every setting. It says that an inode has
at most one watch and is used for the path of the file or in the volume but not for both
(`Inodes`, `Watching`), that `watchers_` has one entry for a path and one for a
descriptor (`Entered`), and that the watch of an entry is on an inode that was found at
its path (`Matching`). The last is what `WatchesConsistent` lacks to be inductive:
without it the watch that `AddWatcher` gets for one path could be that of another entry,
and the removal of the old watch would take it away.

`Converged` speaks only of moments at which all events are handled, so its invariant
has to say what is under way at the others. `CalmInv` says, for each way in which the
loader may lag behind the file, what will make up for it: an event in the queue, a step
that the running handler has still to do, or a step of the kubelet. With no file, the
configuration is dropped or will be (`Absent`). With one, it will not be dropped for an
earlier one without being loaded again (`Fresh`), it is watched or will be
(`SelfWatched`), so is what its link points to (`RealWatched`), and what it holds is the
configuration or will be loaded (`Current`). `Program`, `Tagged` and `Deployed` say which
steps a handler can be about to do, which entry has which tag, and what a deployment
can look like; `Program` includes that nothing has thrown. Each step of the loader takes
one of these promises and fulfils it or turns it into another (`CalmAddConfig`,
`CalmHandleEvent`, ...); each change of the file makes one (`CalmWriteFile`, ...). Once
nothing is queued and no handler runs, nothing is promised, and the rest is `Converged`.
The implication `Calm => CalmInv` is inductive because a queue that has dropped an event
stays marked. Assumption: `LoaderAssumption` (types of settings).

**Only model-checked.** All liveness properties (fairness is out of the prover's
reach). What recursive definitions compute, which needs
induction over data: `RadixExact`, `ParsedExactly`. `BothFamiliesComplete` states
the three properties of the scraper of a second instance of it, for which the theorems
hold as well.
`MostSpecificSource` and `StartSound`, which compare one pass of computations, some with
powers of two, with reference definitions. `ScrapedConnectionsMarkedActive` is false.

## 5. Not modelled

* Event extraction (`EventExtractor`, `EventMap`, `EventNames`): accessors of libsinsp
  and tables of names, without a protocol of their own.
* Text: parsing the lines of `/proc` tables, addresses and cgroups, YAML and JSON
  syntax, logging, usage and error messages, hashing, UTF-8 sanitising, the arena of
  protobuf messages.
* Metrics: the counters of the tracker, the notifier and the inspector and their
  export. They are output only; the exporter's thread is in `Lifecycle`.
* The HTTP handlers that only format (`GetStatus`, the inspectors) or set one value
  (`LogLevel`); as users of other components they are in `Lifecycle` and
  `ProcessStore`.
* The helpers of the option parser that print the usage.
* Data races on single values (`HostInfo::hostname_`, a value of `ConnTracker` read by
  introspection), and a notification of `StoppableThread` that comes between test and
  wait: it delays a stop by one pause.
* gRPC, libsinsp, inotify, gperftools, the kernel and Sensor are external and modelled
  by how collector uses them.
* A clock that goes back in the network pipeline (`TimeOrder` rests on it).
