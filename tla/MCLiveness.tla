------------------------------ MODULE MCLiveness -----------------------------
(***************************************************************************)
(* What must happen eventually, for TLC: the life of the collector         *)
(* process, a duplex client as the notifier uses it, the signal pipeline,  *)
(* the thread that follows the configuration file and the process store.   *)
(* A behaviour is one of the part that focus names; the other parts stay   *)
(* at an initial state.                                                    *)
(***************************************************************************)
EXTENDS Lifecycle

CONSTANTS MaxWrites, MaxReads, MaxEvents, MaxStreams, MaxOps

VARIABLES
    focus,                                                                      \* the part of this behaviour
    st, cq, cq_shutdown, up, cancelled, call, result, reads, started,
    submitted, accepted, confirmed,                                             \* DuplexGRPC
    run, et, service, client, past,                                             \* SignalPipeline
    setting, fs, kubelet, ino, watchers, loader, runtime_config,                \* ConfigLoader
    procs, cache, requests, serving, mutex, active, th, event_thread, fetchedNull    \* ProcessStore

Duplex ==
    INSTANCE DuplexGRPC WITH
        HasReadCallback <- TRUE, Usage <- {"WaitUntilStarted", "Sleep", "Write", "Finish"}, Untimed <- {"Write"}

Pipeline ==
    INSTANCE SignalPipeline WITH
        Process <- {"a", "self"}, Keys <- {"k", "self"}, KeyOf <- [a |-> "k", self |-> "self"], SelfCheck <- "self",
        Unresolvable <- {}, Capacity <- 2, BurstSize <- 3, RefillTime <- 1, control <- run

Loader ==
    INSTANCE ConfigLoader WITH
        Content <- {"a", "b"},
        Settings <- {[deployment |-> "file", unseen |-> "never", racing |-> FALSE, queue_limit |-> 20]}

Store ==
    INSTANCE ProcessStore WITH
        Pids <- {1, 2}, Objects <- {1, 2, 3}, Introspection <- FALSE, main <- event_thread

ASSUME LivenessAssumption ==
    /\ LifecycleAssumption /\ Duplex!UsageAssumption
    /\ Pipeline!LimitAssumption /\ Pipeline!ProcessAssumption
    /\ Loader!LoaderAssumption /\ Store!ProcessStoreAssumption

In(part) == focus = part

duplexVars == <<st, cq, cq_shutdown, up, cancelled, call, result, reads, started, submitted, accepted, confirmed>>
pipelineVars == <<run, et, service, client, past>>
loaderVars == <<setting, fs, kubelet, ino, watchers, loader, runtime_config>>
storeVars == <<procs, cache, requests, serving, mutex, active, th, event_thread, fetchedNull>>
groupVars == <<focus, vars, duplexVars, pipelineVars, loaderVars, storeVars>>

GroupInit ==
    /\ focus \in {"life", "duplex", "pipeline", "loader", "store"}
    /\ Init /\ (In("life") \/ channel)
    /\ Duplex!Init
    /\ Pipeline!PipelineInit /\ (In("pipeline") \/ service.table = {})
    /\ Loader!LoaderInit /\ (In("loader") \/ fs.entry = "none")
    /\ Store!StoreInit

LifeNext == In("life") /\ Next /\ UNCHANGED <<focus, duplexVars, pipelineVars, loaderVars, storeVars>>
DuplexNext == In("duplex") /\ Duplex!Next /\ UNCHANGED <<focus, vars, pipelineVars, loaderVars, storeVars>>
PipelineNext == In("pipeline") /\ Pipeline!PipelineNext /\ UNCHANGED <<focus, vars, duplexVars, loaderVars, storeVars>>
LoaderNext == In("loader") /\ Loader!LoaderNext /\ UNCHANGED <<focus, vars, duplexVars, pipelineVars, storeVars>>
StoreNext == In("store") /\ Store!StoreNext /\ UNCHANGED <<focus, vars, duplexVars, pipelineVars, loaderVars>>

GroupNext == LifeNext \/ DuplexNext \/ PipelineNext \/ LoaderNext \/ StoreNext

GroupSpec == GroupInit /\ [][GroupNext]_groupVars

\* The fairness of the parts, each in its behaviours.
LifeFairness ==
    /\ WF_vars(In("life") /\ MainStep) /\ WF_vars(In("life") /\ Notifier)
    /\ WF_vars(In("life") /\ Loop("loader")) /\ WF_vars(In("life") /\ Loop("exporter"))
    /\ WF_vars(In("life") /\ Response) /\ WF_vars(In("life") /\ StreamFails)

DuplexFairness ==
    /\ WF_duplexVars(In("duplex") /\ Duplex!GotEvent) /\ WF_duplexVars(In("duplex") /\ Duplex!GotShutdown)
    /\ \A op \in Duplex!Op : WF_duplexVars(In("duplex") /\ ~up /\ \E ok \in BOOLEAN : Duplex!Complete(op, ok))
    /\ WF_duplexVars(In("duplex") /\ cancelled /\ Duplex!Break)
    /\ SF_duplexVars(In("duplex") /\ Duplex!DoPoll("Sleep")) /\ WF_duplexVars(In("duplex") /\ Duplex!Timeout)

PipelineFairness ==
    /\ WF_pipelineVars(In("pipeline") /\ ~Pipeline!WriteBlocked /\ Pipeline!EventThread)
    /\ WF_pipelineVars(In("pipeline") /\ Pipeline!StreamThread)

LoaderFairness ==
    /\ WF_loaderVars(In("loader") /\ Loader!Loader)
    /\ WF_loaderVars(In("loader") /\ (Loader!CreateLink \/ Loader!DeleteLink \/ Loader!RemoveOld))

StoreFairness ==
    /\ WF_storeVars(In("store") /\ \/ Store!LockCallback \/ Store!CallCallback \/ Store!Served
                                   \/ Store!Joined \/ Store!CleanUp)
    /\ SF_storeVars(In("store") /\ Store!HandleEvent)
    /\ \A t \in Store!Readers :
         /\ WF_storeVars(In("store") /\ \E o \in {1, 2, 3} : Store!Destroy(t, o))
         /\ WF_storeVars(In("store") /\ Store!NotDestroying(t) /\ Store!Work(t))
    /\ SF_storeVars(In("store") /\ Store!BeginFetch("notifier"))
    /\ SF_storeVars(In("store") /\ Store!Update) /\ SF_storeVars(In("store") /\ Store!ResolveSocket)

GroupFairSpec == GroupSpec /\ LifeFairness /\ DuplexFairness /\ PipelineFairness /\ LoaderFairness /\ StoreFairness

-----------------------------------------------------------------------------
(***************************************************************************)
(* The properties of the parts, each in the behaviours of its part.        *)
(* InspectorOutlivesUsers, StopsUnlessBlocked and Reconnects are those of  *)
(* Lifecycle.                                                              *)
(***************************************************************************)

\* A user that keeps on sleeping learns of the end of the stream, unless
\* WaitUntilStarted took the completion of the status, and a write without a deadline
\* returns once the stream is over (DuplexGRPC.h:343, :505).
EndIsNoticed == In("duplex") => Duplex!EndIsNoticed /\ Duplex!WriteReturns

\* A stream that is not active is replaced, unless the notification was missed
\* (SignalServiceClient.cpp:15).
StreamReplaced == In("pipeline") => Pipeline!StreamReplaced

\* Stopping the service ends, unless the notification was missed or the event thread
\* never comes back from a Write (SignalServiceClient.cpp:54, :73).
StopEnds == In("pipeline") => Pipeline!StopEnds

\* The configuration follows the file for good once the file has settled, and a
\* stop ends the thread that follows it (ConfigLoader.cpp:553-671).
Follows == In("loader") => Loader!Follows /\ Loader!LoaderStopEnds

\* The event thread, the notifier and a stop get out of waiting for one another: the
\* event thread serves requests again and again or has stopped, a request of a
\* process that stays in use is answered or cancelled, and a stop completes although
\* nobody answers any more (ConnTracker.cpp:300, Process.cpp:144, Service.cpp:405).
NobodyWaitsForever ==
    In("store") => Store!EventThreadResumes /\ Store!EveryRequestAnswered /\ Store!StopCompletes
=============================================================================
