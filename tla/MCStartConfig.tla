--------------------------- MODULE MCStartConfig -----------------------------
(***************************************************************************)
(* Starts for TLC: one group for each question, around a plain start.      *)
(***************************************************************************)
EXTENDS StartConfig

Kernel(kernel, major, build_id, el7) == [kernel |-> kernel, major |-> major, build_id |-> build_id, el7 |-> el7]

Host == [KERNEL_VERSION |-> NoValue, uname |-> Kernel(5, 14, 427, FALSE), machine |-> "x86_64",
         os_release |-> <<<<"ID", "rhel">>>>, btf |-> {"kernel"}, ringbuf |-> 1, tracing |-> 1,
         cpus |-> 4, boot_params |-> 2, efivars |-> NoValue]

Env == [COLLECTOR_CONFIG |-> NoValue, LOG_LEVEL |-> NoValue, SCRAPE_INTERVAL |-> NoValue,
        SCRAPE_DISABLED |-> NoValue, COLLECTION_METHOD |-> NoValue, GRPC_SERVER |-> NoValue,
        tls |-> [base |-> NoValue, ca |-> NoValue, cert |-> NoValue, key |-> NoValue],
        PROCESSES_LISTENING_ON_PORT |-> NoValue, IGNORE_NETWORKS |-> <<"net", Malformed>>, QUANTILES |-> <<1>>,
        AFTERGLOW_PERIOD |-> NoValue, ENABLE_AFTERGLOW |-> NoValue, CPU_PER_BUFFER |-> NoValue,
        BUFFER_SIZE |-> NoValue, TOTAL_BUFFER_SIZE |-> NoValue]

Cli == [config |-> << >>, method |-> NoValue, grpc |-> NoValue]

Start(e, c, h) == [env |-> e, cli |-> c, host |-> h]

Documents ==
    {<< >>, WrongType, [scrapeInterval |-> 10], [scrapeInterval |-> 10, turnOffScrape |-> TRUE],
     [logLevel |-> Malformed, scrapeInterval |-> WrongType], [logLevel |-> "DEBUG"],
     [turnOffScrape |-> WrongType], [logLevel |-> WrongType]}

Sources ==
    {Start([Env EXCEPT !.COLLECTOR_CONFIG = d, !.LOG_LEVEL = l, !.SCRAPE_INTERVAL = i, !.SCRAPE_DISABLED = o],
           [Cli EXCEPT !.config = c], Host) :
       d \in Documents \cup {NoValue, Malformed}, c \in Documents,
       l \in {NoValue, "ERROR"}, i \in {NoValue, 20}, o \in {NoValue, TRUE}}

TlsDocument(keys) == [tlsConfig |-> [k \in keys |-> <<"document", k>>]]

FromEnvironment(k) == {NoValue, <<"environment", k>>}

TlsPaths ==
    {Start([Env EXCEPT !.COLLECTOR_CONFIG = d, !.tls = [base |-> b, ca |-> a, cert |-> c, key |-> k]], Cli, Host) :
       d \in {NoValue, [tlsConfig |-> WrongType], [tlsConfig |-> [ca |-> WrongType]]}
             \cup {TlsDocument(ks) : ks \in SUBSET {"ca", "cert", "key"}}, b \in FromEnvironment("base"),
       a \in FromEnvironment("ca"), c \in FromEnvironment("cert"), k \in FromEnvironment("key")}

Periods ==
    {Start([Env EXCEPT !.AFTERGLOW_PERIOD = p, !.ENABLE_AFTERGLOW = e], Cli, Host) :
       p \in (-1..MaxAfterglow + 1) \cup {NoValue, Huge}, e \in {NoValue, "", "true", "yes"}}

\* With 6 bits and a mantissa of 4: 72 and -56 wrap to 8, 64 to 0, 80 to 16 and
\* -1 to 63; a total of 31 is rounded up to 32 and one of 63 to 64.
RingBuffers ==
    {Start([Env EXCEPT !.CPU_PER_BUFFER = c, !.BUFFER_SIZE = s, !.TOTAL_BUFFER_SIZE = t], Cli, [Host EXCEPT !.cpus = n]) :
       c \in {NoValue, Malformed, -1, 0, 1, 2, 3}, s \in {NoValue, -56, 4, 8, 12, 32, 72},
       t \in {NoValue, Malformed, -1, 0, 4, 9, 15, 16, 31, 33, 63, 64, 80}, n \in -1..5}

Kernels ==
    {Kernel(3, 10, b, e) : b \in {956, 957}, e \in BOOLEAN} \cup {Kernel(4, m, b, FALSE) : m \in {10, 11, 13, 14, 18}, b \in {476, 477}}

Supports ==
    {Start(Env, [Cli EXCEPT !.method = m],
           [Host EXCEPT !.KERNEL_VERSION = v, !.uname = u, !.machine = a, !.os_release = o, !.btf = b, !.ringbuf = r]) :
       m \in {NoValue, "ebpf"}, v \in {NoValue, Unparsable, Kernel(5, 14, 1, FALSE)}, u \in Kernels \cup {Failed},
       a \in {"x86_64", "ppc64le"}, o \in {<<>>, <<<<"ID", "centos">>>>, <<<<"PRETTY_NAME", "Docker Desktop">>>>},
       b \in {{}, {"file"}}, r \in {-1, 0, 1}}

SecureBoots ==
    {Start(Env, Cli, [Host EXCEPT !.uname = u, !.boot_params = b, !.efivars = v]) :
       u \in Kernels, b \in {Failed, 0, 1, 2, 3, 7}, v \in {NoValue, Failed, 0, 1}}

MCStarts == Sources \cup TlsPaths \cup Periods \cup RingBuffers \cup Supports \cup SecureBoots

MalformedStarts == {Start([Env EXCEPT !.SCRAPE_INTERVAL = Malformed], Cli, Host)}
TotalStarts == {Start([Env EXCEPT !.TOTAL_BUFFER_SIZE = 64, !.BUFFER_SIZE = 32], Cli, Host)}
EbpfStarts == {Start(Env, [Cli EXCEPT !.method = "ebpf"], Host)}
FirmwareStarts == {Start(Env, Cli, [Host EXCEPT !.uname = Kernel(4, 10, 1, FALSE), !.efivars = 1])}

=============================================================================
