---------------------------- MODULE OptionParser -----------------------------
(***************************************************************************)
(* The command line: option::Parser (optionparser.h) walking argv twice,   *)
(* first to count the options (Stats) and then to store them, the checks   *)
(* of CollectorArgs that both walks call, CollectorArgs::parse and what    *)
(* main makes of its result.                                               *)
(*                                                                         *)
(* A word of argv is [form, names, attached, text]: form is "long", "short" *)
(* (a group of letters), "end" (--) or "plain"; text is how the word reads  *)
(* as the argument of the option before it, attached the text after its =. *)
(***************************************************************************)
EXTENDS Integers, Sequences, FiniteSets

CONSTANTS
    Words,      \* the words of a command line
    MaxWords    \* bound: words on a command line

NoArg == [id |-> "null"]    \* option.arg == NULL

ASSUME WordsAssumption ==
    /\ MaxWords \in Nat
    /\ \A w \in Words : w.names \in Seq(STRING) /\ (w.form \in {"long", "short"} => w.names # << >>)

VARIABLES
    argv,       \* the words after the program's name
    walk,       \* "count", "store", "parsed", "exited" or "running"
    pos,        \* args: the next word
    buffer_max, \* Stats: the length of buffer
    buffer,     \* the options stored
    err,        \* Parser::err
    args,       \* the CollectorArgs instance
    status      \* the process's exit status

argsVars == <<argv, walk, pos, buffer_max, buffer, err, args, status>>

Walking == walk \in {"count", "store"}

\* print_errors
Msg == walk = "store"

-----------------------------------------------------------------------------
(***************************************************************************)
(* The checks.  A verdict is [status, message].                            *)
(***************************************************************************)

Verdict(s, m) == [status |-> s, message |-> m]

CheckGrpcServer(text) ==
    IF text = NoArg \/ text.id = "" THEN Verdict("IGNORE", "missing grpc list")
    ELSE IF text.long THEN Verdict("ILLEGAL", "too long")
    ELSE IF ~text.colon THEN Verdict("ILLEGAL", "malformed")
    ELSE IF ~text.host THEN Verdict("ILLEGAL", "missing host")
    ELSE IF ~text.port THEN Verdict("ILLEGAL", "missing port")
    ELSE Verdict("OK", "")

CheckConfiguration(text) ==
    IF text = NoArg THEN Verdict("IGNORE", "missing collector config")
    ELSE IF ~text.json THEN Verdict("ILLEGAL", "a valid JSON configuration is required")
    ELSE Verdict("OK", "")

\* Names are compared in lower case, with _ for -; any other name is core_bpf.
ParseCollectionMethod(text) == IF text.method = "ebpf" THEN "ebpf" ELSE "core_bpf"

\* A check returns the status and the new CollectorArgs.
\* Faulty variant: the count walk only looks at the argument.
checkCollectionMethodSilent(a, text, msg) ==
    IF ~msg \/ text = NoArg THEN [status |-> IF msg THEN "OK" ELSE "IGNORE", args |-> a]
    ELSE [status |-> "OK", args |-> [a EXCEPT !.method = ParseCollectionMethod(text)]]

checkCollectionMethod(a, text, msg) ==
    [status |-> "OK",
     args |-> IF text = NoArg THEN (IF msg THEN [a EXCEPT !.message = "missing collection method"] ELSE a)
                              ELSE [a EXCEPT !.method = ParseCollectionMethod(text)]]

checkCollectorConfig(a, text, msg) ==
    LET v == CheckConfiguration(text)
    IN  [status |-> v.status,
         args |-> [a EXCEPT !.message = IF msg THEN v.message ELSE @,
                            !.config = IF v.status = "OK" THEN text.id ELSE @]]

checkGRPCServer(a, text, msg) ==
    LET v == CheckGrpcServer(text)
    IN  [status |-> v.status,
         args |-> [a EXCEPT !.grpc = IF v.status = "OK" THEN text.id ELSE @,
                            !.message = IF msg THEN v.message ELSE @]]

-----------------------------------------------------------------------------
(***************************************************************************)
(* Parser::workhorse.                                                      *)
(***************************************************************************)

\* The longopt entries of usage.
Known == {"help", "collector-config", "collection-method", "grpc-server"}

\* No descriptor has a short option, so that each letter of a group is an
\* unknown option, and so is a long option that is not in usage.
Index(word) == IF word.form = "long" /\ word.names[1] \in Known THEN word.names[1] ELSE "unknown"

have_more_args == pos < Len(argv)

\* optarg: what follows =, or the next word whatever it is.
Optarg(word) ==
    IF word.attached # NoArg THEN word.attached
    ELSE IF have_more_args THEN argv[pos + 1].text ELSE NoArg

\* descriptor->check_arg; Arg::None for --help and the unknown options.
check_arg(index, a, text) ==
    CASE index = "collector-config" -> checkCollectorConfig(a, text, Msg)
      [] index = "collection-method" -> checkCollectionMethod(a, text, Msg)
      [] index = "grpc-server" -> checkGRPCServer(a, text, Msg)
      [] OTHER -> [status |-> "NONE", args |-> a]

\* The options of a word: an Option per letter of a group.
Options(word) == [k \in DOMAIN word.names |-> [index |-> Index(word), name |-> word.names[k]]]

\* CountOptionsAction
Count(options) == buffer_max' = buffer_max + Len(options) /\ UNCHANGED buffer

\* StoreOptionAction
Store(options) == buffer' = buffer \o options /\ UNCHANGED buffer_max

\* One parameter of argv.
Param ==
    /\ Walking /\ pos <= Len(argv)
    /\ argv[pos].form \in {"long", "short"}
    /\ LET word == argv[pos]
           text == Optarg(word)
           checked == check_arg(Index(word), args, text)
       IN  /\ args' = checked.args
           /\ IF checked.status = "ILLEGAL"
              THEN \* Stats disregards the result of the walk
                   /\ walk' = IF walk = "count" THEN "store" ELSE "parsed"
                   /\ err' = (walk = "store")
                   /\ pos' = 1
                   /\ UNCHANGED <<buffer_max, buffer>>
              ELSE /\ pos' = pos + (IF checked.status = "OK" /\ word.attached = NoArg /\ text # NoArg THEN 2 ELSE 1)
                   /\ IF walk = "count" THEN Count(Options(word)) ELSE Store(Options(word))
                   /\ UNCHANGED <<walk, err>>
    /\ UNCHANGED <<argv, status>>

\* A word that is not an option, --, or the end of argv ends the list.
Finished ==
    /\ Walking
    /\ pos <= Len(argv) => argv[pos].form \in {"plain", "end"}
    /\ walk' = IF walk = "count" THEN "store" ELSE "parsed"
    /\ pos' = 1
    /\ UNCHANGED <<argv, buffer_max, buffer, err, args, status>>

-----------------------------------------------------------------------------
(***************************************************************************)
(* CollectorArgs::parse and main.                                          *)
(***************************************************************************)

Stored(index) == \E k \in DOMAIN buffer : buffer[k].index = index

\* What CollectorArgs::parse returns, with the exit code it chooses.
Parsed ==
    IF err THEN [ok |-> FALSE, code |-> 1, message |-> args.message]
    ELSE IF Stored("help") THEN [ok |-> FALSE, code |-> 0, message |-> "usage"]
    ELSE IF Stored("unknown") THEN [ok |-> FALSE, code |-> 1, message |-> "unknown option"]
    ELSE [ok |-> TRUE, code |-> 0, message |-> args.message]

\* CLOG(FATAL), of the message or of "Error parsing arguments", is exit(1).
ParseArgs ==
    /\ walk = "parsed"
    /\ args' = [args EXCEPT !.message = Parsed.message]
    /\ walk' = IF Parsed.ok THEN "running" ELSE "exited"
    /\ status' = IF Parsed.ok THEN status ELSE 1
    /\ UNCHANGED <<argv, pos, buffer_max, buffer, err>>

ArgsEnded == walk \in {"running", "exited"}

ArgsInit ==
    /\ argv \in UNION {[1..n -> Words] : n \in 0..MaxWords}
    /\ walk = "count" /\ pos = 1
    /\ buffer_max = 1 /\ buffer = << >> /\ err = FALSE
    /\ args = [method |-> "none", config |-> "none", grpc |-> "none", message |-> ""]
    /\ status = 0

ArgsNext == Param \/ Finished \/ ParseArgs \/ (ArgsEnded /\ UNCHANGED argsVars)

ArgsSpec == ArgsInit /\ [][ArgsNext]_argsVars

-----------------------------------------------------------------------------
(***************************************************************************)
(* Properties.                                                             *)
(***************************************************************************)

\* CollectorArgs::parse puts buffer on the stack, as long as the first walk
\* counted plus one for the sentinel, and the second walk does not compare:
\* however the words are mistaken for options and arguments, the second walk
\* stores no more than the first one counted, though both call checks that
\* change the CollectorArgs.
BufferSuffices == Len(buffer) < buffer_max

\* main falls back to "Error parsing arguments" for a failure without a
\* message; every failure has one.
FailureExplained == walk = "exited" => args.message # ""

\* The words that start an option, defined by the words alone: the first word,
\* and each one after an option and after the word the option takes as its
\* argument, while they look like options.
Accepts(k) ==
    LET word == argv[k]
        text == IF k < Len(argv) THEN argv[k + 1].text ELSE NoArg
    IN  /\ word.attached = NoArg /\ text # NoArg
        /\ \/ Index(word) = "collection-method"
           \/ Index(word) = "collector-config" /\ text.json
           \/ Index(word) = "grpc-server" /\ CheckGrpcServer(text).status = "OK"

OptionPlaces ==
    CHOOSE s \in SUBSET DOMAIN argv :
        \A k \in DOMAIN argv :
            k \in s <=> /\ argv[k].form \in {"long", "short"}
                        /\ \/ k = 1
                           \/ k - 1 \in s /\ ~Accepts(k - 1)
                           \/ k - 2 \in s /\ Accepts(k - 2)

Argument(k) == IF argv[k].attached # NoArg THEN argv[k].attached
               ELSE IF k < Len(argv) THEN argv[k + 1].text ELSE NoArg

\* The options named index that have an argument; an empty server is none.
Given(index, places) == {k \in places : Index(argv[k]) = index /\ Argument(k) # NoArg}

Servers(places) == {k \in Given("grpc-server", places) : Argument(k).id # ""}

Last(s) == CHOOSE k \in s : \A j \in s : j <= k

\* A command line on which collector starts has no unknown option and no --help,
\* every server and configuration on it is well formed, and the value of an
\* option is its last one.
CommandLineHonoured ==
    walk = "running" =>
        LET servers == Servers(OptionPlaces)
            configs == Given("collector-config", OptionPlaces)
            methods == Given("collection-method", OptionPlaces)
        IN  /\ \A k \in OptionPlaces : Index(argv[k]) \notin {"help", "unknown"}
            /\ \A k \in servers : CheckGrpcServer(Argument(k)).status = "OK"
            /\ \A k \in configs : Argument(k).json
            /\ args.grpc = IF servers = {} THEN "none" ELSE Argument(Last(servers)).id
            /\ args.config = IF configs = {} THEN "none" ELSE Argument(Last(configs)).id
            /\ args.method = IF methods = {} THEN "none" ELSE ParseCollectionMethod(Argument(Last(methods)))

\* The options that the second walk over argv stores fit the buffer that the first
\* one counted; a command line that is refused is refused with a message of its own;
\* with one that is accepted every option is known and CollectorArgs holds the
\* last value of each (CollectorArgs.cpp:60-189, collector.cpp:154).
CommandLineSound == BufferSuffices /\ FailureExplained /\ CommandLineHonoured

\* The process ends with the exit code that CollectorArgs::parse chose.
ExitCodeUsed == walk = "exited" => status = Parsed.code

=============================================================================
