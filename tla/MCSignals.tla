------------------------------ MODULE MCSignals ------------------------------
(***************************************************************************)
(* How process signals reach Sensor, for TLC: the duplex client of a       *)
(* stream, with a read callback (the constants of this module) and as a    *)
(* user that polls and reads (Reader), the pipeline from the event thread  *)
(* to the stream, the rate limiter under a clock that runs and is set      *)
(* back, and the formatter of the signals.  A behaviour is one of the part *)
(* that focus names; the other parts stay at an initial state.             *)
(***************************************************************************)
EXTENDS DuplexGRPC, SignalPipeline, RateLimitCache, MCProcessFormatter

VARIABLE focus      \* the part of this behaviour

\* Processes "a" and "b" have the same name, arguments and executable.
MCKeyOf == [a |-> "k", b |-> "k", self |-> "self"]

Reader ==
    INSTANCE DuplexGRPC WITH
        HasReadCallback <- FALSE,
        Usage <- {"WaitUntilFinished", "PollAnyCanRead", "Read", "Write", "WriteAsync", "WritesDoneAsync", "Finish"},
        Untimed <- {"Read"}, MaxWrites <- 2, MaxReads <- 1

ASSUME SignalsAssumption == Reader!UsageAssumption

In(part) == focus = part

groupVars == <<focus, vars, pipelineVars, rateVars, formatterVars>>

AnyThread == CHOOSE t \in MCThread : TRUE

GroupInit ==
    /\ focus \in {"callback", "reader", "pipeline", "limiter", "formatter"}
    /\ IF In("reader") THEN Reader!Init ELSE Init
    /\ PipelineInit /\ (In("pipeline") \/ service.table = {})
    /\ LimiterInit
    /\ FormatterInit /\ (In("formatter") \/ tinfo = AnyThread)

CallbackStep == In("callback") /\ Next /\ UNCHANGED <<focus, pipelineVars, rateVars, formatterVars>>
ReaderStep == In("reader") /\ Reader!Next /\ UNCHANGED <<focus, pipelineVars, rateVars, formatterVars>>
PipelineStep == In("pipeline") /\ PipelineNext /\ UNCHANGED <<focus, vars, rateVars, formatterVars>>
LimiterStep == In("limiter") /\ LimiterNext /\ UNCHANGED <<focus, vars, pipelineVars, formatterVars>>
FormatterStep == In("formatter") /\ FormatterNext /\ UNCHANGED <<focus, vars, pipelineVars, rateVars>>

GroupNext == CallbackStep \/ ReaderStep \/ PipelineStep \/ LimiterStep \/ FormatterStep

GroupSpec == GroupInit /\ [][GroupNext]_groupVars

=============================================================================
