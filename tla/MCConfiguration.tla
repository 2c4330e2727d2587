--------------------------- MODULE MCConfiguration ---------------------------
(***************************************************************************)
(* Where collector's configuration comes from, for TLC: the command line   *)
(* (OptionParser), the start (StartConfig), the parser of the runtime      *)
(* configuration (YamlParser) and the thread that follows its file         *)
(* (ConfigLoader) in three settings.  A behaviour is one of the part that  *)
(* focus names; the command line and the loader stay at an initial state   *)
(* in the behaviours of the other parts, which are absent from all but     *)
(* their own.                                                              *)
(***************************************************************************)
EXTENDS ConfigLoader, MCOptionParser

CONSTANTS
    NoValue, Failed, Unparsable, Malformed, WrongType, Huge,
    Bits, Mantissa, PageExponent, MaxAfterglow

VARIABLES
    focus,                                                       \* the part of this behaviour
    env, cli, host, config, outcome, driver, secure_boot,        \* StartConfig
    doc, before, mode, camel, result                             \* YamlParser

StartCases == INSTANCE MCStartConfig WITH Starts <- {}
Startup == INSTANCE StartConfig WITH Starts <- StartCases!MCStarts

YamlCases ==
    INSTANCE MCYamlParser WITH Descriptor <- << >>, Documents <- {}, Presets <- {}, Modes <- {}, CamelCase <- {}
Yaml ==
    INSTANCE YamlParser WITH
        Descriptor <- YamlCases!MCDescriptor, Documents <- YamlCases!MCDocuments, Presets <- YamlCases!MCPresets,
        Modes <- {"STRICT", "PERMISSIVE", "UNKNOWN_FIELDS_ONLY"}, CamelCase <- BOOLEAN

\* A file that is written and replaced in its directory, with room for every
\* event; one whose moves within the file system are not seen, with a queue
\* that overflows; and the links of a mounted ConfigMap.
MCSettings ==
    {[deployment |-> "file", unseen |-> "never", racing |-> FALSE, queue_limit |-> 20],
     [deployment |-> "file", unseen |-> "moves", racing |-> FALSE, queue_limit |-> 1],
     [deployment |-> "configmap", unseen |-> "never", racing |-> FALSE, queue_limit |-> 20]}

ASSUME ConfigurationAssumption ==
    Startup!StartConfigAssumption

In(part) == focus = part
startVars == <<env, cli, host, config, outcome, driver, secure_boot>>
yamlVars == <<doc, before, mode, camel, result>>
groupVars == <<focus, argsVars, startVars, yamlVars, loaderVars>>

NoStart ==
    /\ env = "absent" /\ cli = "absent" /\ host = "absent" /\ config = "absent" /\ outcome = "absent"
    /\ driver = "absent" /\ secure_boot = "absent"
NoYaml == doc = "absent" /\ before = "absent" /\ mode = "absent" /\ camel = "absent" /\ result = "absent"

GroupInit ==
    /\ \/ focus \in {"args", "loader"} /\ NoStart /\ NoYaml
       \/ focus = "start" /\ Startup!Init /\ NoYaml
       \/ focus = "yaml" /\ NoStart /\ Yaml!Init
    /\ IF In("args") THEN TRUE ELSE argv = << >>
    /\ ArgsInit
    /\ LoaderInit /\ (In("loader") \/ (setting.queue_limit = 1 /\ fs.entry = "none"))

ArgsStep == In("args") /\ ArgsNext /\ UNCHANGED <<focus, startVars, yamlVars, loaderVars>>
StartStep == In("start") /\ Startup!Next /\ UNCHANGED <<focus, argsVars, yamlVars, loaderVars>>
YamlStep == In("yaml") /\ Yaml!Parse /\ UNCHANGED <<focus, argsVars, startVars, loaderVars>>
LoaderStep == In("loader") /\ LoaderNext /\ UNCHANGED <<focus, argsVars, startVars, yamlVars>>

GroupNext == ArgsStep \/ StartStep \/ YamlStep \/ LoaderStep

GroupSpec == GroupInit /\ [][GroupNext]_groupVars
-----------------------------------------------------------------------------
(***************************************************************************)
(* The properties of the parts, each in the behaviours of its part.  Those *)
(* of the command line and the loader are stated in their modules.         *)
(***************************************************************************)

\* A setting comes from the document, else from its variable, else from the
\* default, and the files of TLS all from one of these places (CollectorConfig.cpp:102-280).
MostSpecificSource == In("start") => Startup!MostSpecificSource /\ Startup!TlsFromOnePlace

\* What a start derives from its settings is within its limits, for every number
\* of CPUs and every number in the environment: the afterglow period, each ring
\* buffer and all of them together; and the hosts it refuses are those that lack
\* what its method needs (CollectorConfig.cpp:282-300, :470-509, HostHeuristics.cpp).
StartSound ==
    In("start") =>
        /\ Startup!AfterglowBounded /\ Startup!BufferSizeValid /\ Startup!BuffersFitTotal
        /\ Startup!RefusesUnsupported

\* The parser accepts exactly the valid documents, a list being one without fields,
\* and always returns in the loader's mode; a document sets the fields that it has
\* right and leaves the others alone, also when it is rejected for one of them; and
\* the camel-case spelling of every name leads back to it (ConfigLoader.cpp:66-269,
\* :444-479).
ParsedExactly == In("yaml") => Yaml!AcceptsValid /\ Yaml!Merges /\ Yaml!NamesRoundTrip
=============================================================================
