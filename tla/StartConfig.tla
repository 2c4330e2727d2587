----------------------------- MODULE StartConfig -----------------------------
(***************************************************************************)
(* How collector configures itself when it starts: CollectorConfig's       *)
(* InitCollectorConfig, which merges the command line, the JSON document   *)
(* of COLLECTOR_CONFIG and single environment variables, computes the      *)
(* afterglow period and the size of the ring buffers, and ends with the    *)
(* host heuristics; and what the kernel driver then makes of it.           *)
(*                                                                         *)
(* An environment variable is NoValue, Malformed or a value.  A JSON       *)
(* document is NoValue, Malformed, WrongType (no object, and not empty) or *)
(* a function from the keys it has to values.                              *)
(***************************************************************************)
EXTENDS HostInfo, FiniteSetsExt, Functions, TLC

CONSTANTS
    Malformed,      \* a value that cannot be parsed
    WrongType,      \* a JSON value of a type that the code does not convert there
    Huge,           \* a period of more microseconds than an int64_t holds
    Starts,         \* [env, cli, host]: the variables, what CollectorArgs holds, the host
    Bits,           \* the width of unsigned int, 32
    Mantissa,       \* the width of the mantissa of a float, 24
    PageExponent,   \* log2 of the smallest ring buffer, 14
    MaxAfterglow    \* max_afterglow_period_micros

StartConfigAssumption ==
    /\ Bits \in Nat /\ PageExponent \in Nat /\ PageExponent < Bits
    /\ Mantissa \in Nat \ {0} /\ MaxAfterglow \in Nat

VARIABLES
    env, cli, host,
    config,         \* the CollectorConfig, or NoValue
    outcome,        \* "starting", "exception", "fatal", "configured", "capturing", "no probe"
    driver,         \* the probe that was opened
    secure_boot     \* [status |-> HostInfo::secure_boot_status_, told |-> last answer]

vars == <<env, cli, host, config, outcome, driver, secure_boot>>

-----------------------------------------------------------------------------
(***************************************************************************)
(* Environment variables and the JSON document.                            *)
(***************************************************************************)

\* ParseBool fails for an empty value, and any value but true is false.
BoolVar(value, default) == IF value \in {NoValue, ""} THEN default ELSE value = "true"

ValueOr(value, alternative) == IF value # NoValue THEN value ELSE alternative

\* args->CollectorConfig(), or COLLECTOR_CONFIG if that is empty and this parses.
Json(e, c) ==
    IF c.config \notin {NoValue, << >>} THEN c.config
    ELSE IF e.COLLECTOR_CONFIG \notin {NoValue, Malformed} THEN e.COLLECTOR_CONFIG ELSE << >>

\* Faulty variant: a document hides the variables.
SettingOfDocument(json, key, variable, default) ==
    IF json # << >> THEN (IF key \in DOMAIN json THEN json[key] ELSE default)
    ELSE IF variable # NoValue THEN variable ELSE default

\* The value of a key, of the variable for it, or the default.
Setting(json, key, variable, default) ==
    IF key \in DOMAIN json THEN json[key] ELSE IF variable # NoValue THEN variable ELSE default

\* The paths of the three files: all from the document, or all from variables.
\* << >> is the empty path.
Tls(e, json) ==
    IF "tlsConfig" \in DOMAIN json /\ json.tlsConfig # << >>
    THEN [k \in {"ca", "cert", "key"} |-> IF k \in DOMAIN json.tlsConfig THEN json.tlsConfig[k] ELSE << >>]
    ELSE IF e.tls.base # NoValue
         THEN [k \in {"ca", "cert", "key"} |-> ValueOr(e.tls[k], e.tls.base)]
         ELSE [k \in {"ca", "cert", "key"} |-> ValueOr(e.tls[k], << >>)]

\* TlsConfig::IsValid, and createChannel: a partial configuration is not used.
Credentials(tls) == IF << >> \in {tls[k] : k \in DOMAIN tls} THEN "insecure" ELSE "tls"

\* The entries that are valid; an invalid one is logged.
ValidEntries(list) == SelectSeq(list, LAMBDA x : x # Malformed)

\* asInt, asBool and asString of a value that they do not convert, operator[] of
\* a document or a tlsConfig that is no object, and std::stoi and std::stof in a
\* variable's parser throw, and nothing catches it.  A variable is parsed when
\* the document does not have its setting.
Throws(e, c) ==
    LET json == Json(e, c)
    IN  \/ json = WrongType
        \/ \E key \in DOMAIN json :
             json[key] = WrongType \/ (key = "tlsConfig" /\ WrongType \in Range(json.tlsConfig))
        \/ "scrapeInterval" \notin DOMAIN json /\ e.SCRAPE_INTERVAL = Malformed
        \/ e.AFTERGLOW_PERIOD = Malformed

-----------------------------------------------------------------------------
(***************************************************************************)
(* HandleAfterglowEnvVars.  The product of a negative or a huge number and  *)
(* a second is converted to uint64_t, which is undefined, and assigned to  *)
(* an int64_t: it stays negative or becomes 0, depending on the machine.   *)
(***************************************************************************)

Converted(period) ==
    CASE period = Huge -> {-1}
      [] period # Huge /\ period < 0 -> {period, 0}
      [] OTHER -> {period}

Afterglow(enable, period) ==
    [period |-> IF period > MaxAfterglow THEN MaxAfterglow ELSE period, enabled |-> period > 0 /\ enable]

-----------------------------------------------------------------------------
(***************************************************************************)
(* The ring buffers.                                                       *)
(***************************************************************************)

\* std::stoi or std::stoll assigned to an unsigned int, which wraps around; an
\* invalid value is logged.
Unsigned(value, default) == IF value \in {NoValue, Malformed} THEN default ELSE value % 2^Bits

CeilDiv(a, b) == (a + b - 1) \div b

\* A float is an integer in units of 1 / Scale, small enough for any share of a size.
Scale == 2^(Bits + Mantissa)

\* The float nearest to n / d: a multiple of the power of two that leaves it
\* Mantissa digits, the even one of two that are as near.
Float(n, d) ==
    LET exact(e) == 2^(Mantissa - 1 + e) * d
        e == CHOOSE i \in 0..(2 * Bits + 1) : exact(i) <= n * Scale /\ n * Scale < exact(i + 1)
        digits == (n * Scale) \div (2^e * d)
        rest == 2 * ((n * Scale) % (2^e * d))
    IN  2^e * (IF rest > 2^e * d \/ (rest = 2^e * d /\ digits % 2 = 1) THEN digits + 1 ELSE digits)

\* The conversion of a float without fraction to unsigned int.  It is undefined
\* for 2^Bits: an x86-64 keeps the low bits and an aarch64 the largest number.
ToUnsigned(n) == IF n < 2^Bits THEN {n} ELSE {0, 2^Bits - 1}

\* The integral part of log2, which is minus infinity for 0 and converted to 0.
Log2(n) == IF n = 0 THEN 0 ELSE CHOOSE e \in 0..Bits : 2^e <= n /\ n < 2^(e + 1)

Exponent(max_buffer_size) == Max({PageExponent, Log2(max_buffer_size)})

\* The number of buffers that the driver allocates.  The code divides floats for
\* it too, which is exact: the number of CPUs has fewer digits than a mantissa.
Buffers(cpus, per_buffer) == IF per_buffer = 0 THEN 1 ELSE CeilDiv(cpus, per_buffer)

\* The total is converted to float, divided by the number of buffers and rounded up.
Share(total, buffers) == CeilDiv(Float(Float(total, 1) \div Scale, buffers), Scale)

\* Faulty variant: the number of buffers is rounded down.
MaxBufferSizeRounded(cpus, per_buffer, total) == ToUnsigned(Share(total, Max({1, cpus \div per_buffer})))

\* The values that max_buffer_size may have.
MaxBufferSize(cpus, per_buffer, total) == ToUnsigned(Share(total, Buffers(cpus, per_buffer)))

\* The sizes that it may return.
GetSinspBufferSize(cpus, c) ==
    IF c.total = 0 \/ c.cpu_per_buffer = 0 \/ cpus = 0 THEN {c.buffer_size}
    ELSE {Min({c.buffer_size, 2^Exponent(n)}) : n \in MaxBufferSize(cpus, c.cpu_per_buffer, c.total)}

-----------------------------------------------------------------------------
(***************************************************************************)
(* Actions.                                                                *)
(***************************************************************************)

\* What InitCollectorConfig sets, for an outcome of the conversion.
Configuration(e, c, period) ==
    LET json == Json(e, c)
        level == Setting(json, "logLevel", e.LOG_LEVEL, "INFO")
    IN  [logLevel |-> IF level = Malformed THEN "INFO" ELSE level,
         scrape_interval |-> Setting(json, "scrapeInterval", e.SCRAPE_INTERVAL, 30),
         turn_off_scrape |-> Setting(json, "turnOffScrape", e.SCRAPE_DISABLED, FALSE),
         method |-> IF c.method # NoValue THEN c.method ELSE ValueOr(e.COLLECTION_METHOD, "core_bpf"),
         tls |-> Tls(e, json),
         grpc |-> IF c.grpc # NoValue THEN c.grpc ELSE IF e.GRPC_SERVER # Malformed THEN e.GRPC_SERVER ELSE NoValue,
         processes_on_ports |-> BoolVar(e.PROCESSES_LISTENING_ON_PORT, TRUE),
         ignored_networks |-> ValidEntries(e.IGNORE_NETWORKS),
         quantiles |-> ValidEntries(e.QUANTILES),
         afterglow |-> Afterglow(BoolVar(e.ENABLE_AFTERGLOW, TRUE), period),
         cpu_per_buffer |-> Unsigned(e.CPU_PER_BUFFER, 1),
         buffer_size |-> Unsigned(e.BUFFER_SIZE, 2^(PageExponent + 2)),
         total |-> Unsigned(e.TOTAL_BUFFER_SIZE, 2^(Bits - 1))]

InitCollectorConfig ==
    /\ outcome = "starting"
    /\ IF Throws(env, cli)
       THEN outcome' = "exception" /\ UNCHANGED config
       ELSE \E period \in Converted(IF env.AFTERGLOW_PERIOD = NoValue THEN MaxAfterglow ELSE env.AFTERGLOW_PERIOD) :
              LET c == Configuration(env, cli, period)
                  cpus == ProcessHostHeuristics(host, c.method)
              IN  IF cpus < 0 THEN outcome' = "fatal" /\ UNCHANGED config
                  ELSE outcome' = "configured" /\ config' = c @@ [cpus |-> cpus]
    /\ UNCHANGED <<env, cli, host, driver, secure_boot>>

\* Service::InitKernel and KernelDriverCOREEBPF::Setup: sinsp may fail to open
\* the probe, and does without what it needs.
InitKernel ==
    /\ outcome = "configured"
    /\ \E size \in GetSinspBufferSize(config.cpus, config) :
         driver' = [probe |-> "core_bpf", buffer |-> size,
                    buffers |-> Buffers(config.cpus, config.cpu_per_buffer)]
    /\ outcome' \in {"no probe"} \cup {o \in {"capturing"} : HasBTFSymbols(host) /\ host.ringbuf # 0 /\ host.tracing # 0}
    /\ UNCHANGED <<env, cli, host, config, secure_boot>>

\* A call of GetSecureBootStatus, which keeps what it detected.
DetectSecureBoot ==
    /\ outcome = "starting"
    /\ LET status == GetSecureBootStatus(host, secure_boot.status)
       IN  secure_boot' = [status |-> status, told |-> status]
    /\ UNCHANGED <<env, cli, host, config, outcome, driver>>

Init ==
    /\ \E s \in Starts : env = s.env /\ cli = s.cli /\ host = s.host
    /\ config = NoValue /\ outcome = "starting" /\ driver = NoValue
    /\ secure_boot = [status |-> SB_UNSET, told |-> NoValue]

Ended == outcome \in {"exception", "fatal", "capturing", "no probe"}

Next == InitCollectorConfig \/ InitKernel \/ DetectSecureBoot \/ (Ended /\ UNCHANGED vars)

Spec == Init /\ [][Next]_vars

-----------------------------------------------------------------------------
(***************************************************************************)
(* Properties.                                                             *)
(***************************************************************************)

Configured == config # NoValue

\* The value of every setting is the one of the most specific place that has
\* it: the document (the one of the command line, unless it is empty), then the
\* variable, then the default.  A document never hides a variable that it does
\* not set.
MostSpecificSource ==
    Configured =>
        LET docs == SelectSeq(<<cli.config, env.COLLECTOR_CONFIG>>, LAMBDA d : d \notin {NoValue, Malformed, << >>})
            doc == IF docs = << >> THEN << >> ELSE docs[1]
            sources(key, variable, default) ==
                SelectSeq(<<IF key \in DOMAIN doc THEN doc[key] ELSE NoValue, variable, default>>, LAMBDA v : v # NoValue)
        IN  /\ config.scrape_interval = sources("scrapeInterval", env.SCRAPE_INTERVAL, 30)[1]
            /\ config.turn_off_scrape = sources("turnOffScrape", env.SCRAPE_DISABLED, FALSE)[1]
            /\ config.logLevel \in {sources("logLevel", env.LOG_LEVEL, "INFO")[1], "INFO"}

\* The certificate, the key and the authority that TLS uses were configured in
\* one place: a key of the document is never used with a certificate of the
\* environment.
TlsFromOnePlace ==
    Configured /\ Credentials(config.tls) = "tls" =>
        \E place \in {"document", "environment"} : \A k \in DOMAIN config.tls : config.tls[k][1] = place

\* The connection tracker divides no time by the afterglow period and never
\* withholds a closed connection for longer than the maximum: afterglow is on
\* only with a positive period of at most max_afterglow_period_micros, whatever
\* number the variable holds and whatever the conversion makes of it.
AfterglowBounded ==
    Configured /\ config.afterglow.enabled =>
        config.afterglow.period > 0 /\ config.afterglow.period <= MaxAfterglow

\* A size that the driver accepts, a power of two of more than two pages, is
\* only ever changed into another one.
BufferSizeValid ==
    LET valid(n) == \E e \in PageExponent..Bits : n = 2^e
    IN  driver # NoValue /\ valid(config.buffer_size) => valid(driver.buffer)

\* Where buffers of the smallest size fit into the total, the buffers that are
\* allocated do, but for what rounding adds: less than one byte to the share of
\* each, and one part in 2^(Mantissa - 1) to a total or a share that no float
\* is equal to.  The total is what is left of the variable's number: never more
\* than that number, unless it is negative.
BuffersFitTotal ==
    driver # NoValue =>
        /\ config.cpus > 0 /\ config.cpu_per_buffer > 0 /\ config.total >= driver.buffers * 2^PageExponent =>
             (driver.buffer - 1) * driver.buffers * 2^(Mantissa - 1) < config.total * (2^(Mantissa - 1) + 1)
        /\ env.TOTAL_BUFFER_SIZE \in Nat => config.total <= env.TOTAL_BUFFER_SIZE

\* Collector refuses to run exactly where a documented requirement is missing:
\* a kernel from 4.14 on or the one of RHEL 7.6, what the configured method
\* needs as far as it could be determined, and no known broken combination of
\* architecture, distribution and build.
RefusesUnsupported ==
    Configured \/ outcome = "fatal" =>
        LET k == KernelVersion(host)
            id == OSReleaseValue(host, "ID")
            method == IF cli.method # NoValue THEN cli.method ELSE ValueOr(env.COLLECTION_METHOD, "core_bpf")
            supported ==
                /\ \/ k.kernel * 100 + k.major >= 414
                   \/ id \in {"rhel", "centos"} /\ k.el7 /\ k.kernel * 100 + k.major = 310 /\ k.build_id >= 957
                /\ method = "core_bpf" => {host.ringbuf, host.tracing} \subseteq {-1, 1} /\ host.btf # {}
                /\ <<"PRETTY_NAME", "Docker Desktop">> \notin Range(host.os_release)
                /\ ~(host.uname # Failed /\ host.machine = "ppc64le" /\ k.kernel * 100 + k.major = 418 /\ k.build_id < 477)
        IN  (outcome = "fatal") = ~supported

\* The ring buffers take no more than ROX_COLLECTOR_SINSP_TOTAL_BUFFER_SIZE.
TotalRespected ==
    driver # NoValue /\ env.TOTAL_BUFFER_SIZE \notin {NoValue, Malformed} =>
        driver.buffer * driver.buffers <= env.TOTAL_BUFFER_SIZE

\* A variable that does not parse leaves its default in force.
DefaultForMalformed == outcome # "exception"

\* The probe is the one of the collection method.
MethodHonoured == driver # NoValue => driver.probe = config.method

\* The status that GetSecureBootStatus returns says what the firmware's variable
\* says: 0 is disabled, 1 is enabled.
SecureBootTold ==
    secure_boot.told # NoValue /\ ~HasSecureBootParam(host) =>
        /\ host.efivars = 0 => secure_boot.told = SB_DISABLED
        /\ host.efivars = 1 => secure_boot.told = SB_ENABLED

=============================================================================
