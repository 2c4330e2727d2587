------------------------------ MODULE Lifecycle ------------------------------
(***************************************************************************)
(* From main to exit: connecting to Sensor, signals, the start of the      *)
(* kernel driver and of the threads, RunForever, and the destructor of     *)
(* CollectorService, which stops and joins the threads of the               *)
(* configuration loader, the network status notifier and the exporter      *)
(* (StoppableThread) and the HTTP server before it cleans up the system    *)
(* inspector and stops the signal handlers.  The main thread is also the   *)
(* event thread, and the module SignalPipeline details what it does with   *)
(* an event and how it stops the process signal handler.  The notifier's   *)
(* thread is modelled with its connection to Sensor                        *)
(* (NetworkConnectionInfoServiceComm), down to a round of RunSingle, which *)
(* the module NetworkStatusNotifier details.                               *)
(***************************************************************************)
EXTENDS Naturals, Sequences

CONSTANTS
    UseGRPC,        \* a server is configured; without one, streams go to stdout
    MaxPolls,       \* MAX_GRPC_CONNECTION_POLLS
    BufferSize,     \* the size of AbortHandler's text buffer
    MaxLine,        \* the longest line of a stack trace
    MaxFrames       \* frames of a stack trace

LifecycleAssumption ==
    UseGRPC \in BOOLEAN /\ MaxPolls \in Nat /\ MaxFrames \in Nat /\ BufferSize \in Nat \ {0} /\ MaxLine \in Nat

Loops == {"loader", "notifier", "exporter"}

VARIABLES
    main,       \* the step of the main thread, or how the process ended
    polls,      \* what is left of the polls for Sensor
    handlers,   \* the signal handlers are registered
    control,    \* g_control
    diagnosed,  \* StartupDiagnostics::Log was called
    thread,     \* [Loops -> [pc, stop]]: StoppableThread
    context,    \* the ClientContext: "none", "fresh" or "cancelled"
    channel,    \* the channel to Sensor is connected
    stream,     \* the notifier's stream: "none", "up", "broken", or "taken": it has
                \* failed, and WaitUntilStarted has taken every completion that tells so
    inspector,  \* the sinsp object: "closed", "open", "running" or "gone"
    server,     \* the HTTP server: [open, busy]
    escaped,    \* history: a context was made after the one that TryCancel cancelled
    trace       \* what AbortHandler has written: a sequence of [length, ended]

vars == <<main, polls, handlers, control, diagnosed, thread, context, channel, stream, inspector, server, escaped, trace>>
world == <<polls, handlers, diagnosed, channel, trace>>
notifier == <<context, stream, escaped>>

Ended == main \in {"exited", "fatal", "killed", "crashed"}

-----------------------------------------------------------------------------
(***************************************************************************)
(* main, up to RunForever.                                                 *)
(***************************************************************************)

\* CLOG(FATAL) ends the process once it has logged its message.
Fatal == main' = "fatal"

\* StartupDiagnostics::Log.
Log == diagnosed' = TRUE

\* attemptGRPCConnection and WaitForChannelReady: the channel is tested while
\* polls are left.
Connect ==
    /\ main = "connect"
    /\ IF ~UseGRPC \/ (polls > 0 /\ channel) THEN main' = "register" /\ UNCHANGED <<polls, diagnosed>>
       ELSE IF polls > 0 THEN polls' = polls - 1 /\ UNCHANGED <<main, diagnosed>>
       ELSE Fatal /\ Log /\ UNCHANGED polls
    /\ UNCHANGED <<handlers, control, thread, channel, inspector, server, trace>> /\ UNCHANGED notifier

RegisterHandlers ==
    /\ main = "register"
    /\ main' = "init" /\ handlers' = TRUE
    /\ server' = [server EXCEPT !.open = TRUE]
    /\ UNCHANGED <<polls, control, diagnosed, thread, channel, inspector, trace>> /\ UNCHANGED notifier

\* KernelDriverCOREEBPF::Setup throws what sinsp threw, and nothing catches it:
\* std::terminate.
SetupThrows == main' = "aborting" /\ UNCHANGED <<inspector, diagnosed>>

InitKernel ==
    /\ main = "init"
    /\ \/ main' = "start loader" /\ inspector' = "open" /\ Log
       \/ SetupThrows
    /\ UNCHANGED <<polls, handlers, control, thread, channel, server, trace>> /\ UNCHANGED notifier

\* WriteBuffer, with the number of characters that snprintf would have written:
\* it writes one less than the buffer holds, and a zero.
WriteBuffer(n) ==
    IF n > BufferSize THEN [length |-> BufferSize, ended |-> TRUE] ELSE [length |-> n, ended |-> n < BufferSize]

\* AbortHandler: a line for each frame and a short one for the signal, which is
\* raised again.
AbortHandler ==
    /\ main = "aborting"
    /\ \/ /\ Len(trace) < MaxFrames
          /\ \E n \in 1..MaxLine : trace' = Append(trace, WriteBuffer(n))
          /\ UNCHANGED main
       \/ main' = "crashed" /\ trace' = Append(trace, WriteBuffer(1))
    /\ UNCHANGED <<polls, handlers, control, diagnosed, thread, channel, inspector, server>> /\ UNCHANGED notifier

\* ShutdownHandler, or the default action while no handler is registered.
Terminate ==
    /\ ~Ended
    /\ IF handlers THEN control' = "STOP_COLLECTOR" /\ UNCHANGED main ELSE main' = "killed" /\ UNCHANGED control
    /\ UNCHANGED <<thread, inspector, server>> /\ UNCHANGED world /\ UNCHANGED notifier

-----------------------------------------------------------------------------
(***************************************************************************)
(* RunForever and ~CollectorService.                                       *)
(***************************************************************************)

\* StoppableThread::Start.
StartThread(t) == thread' = [thread EXCEPT ![t] = [pc |-> "pause", stop |-> FALSE]]

Main(step, next) == main = step /\ main' = next /\ UNCHANGED control /\ UNCHANGED world

StartLoader == Main("start loader", "start notifier") /\ StartThread("loader") /\ UNCHANGED <<inspector, server>> /\ UNCHANGED notifier
StartNotifier == Main("start notifier", "start exporter") /\ StartThread("notifier") /\ UNCHANGED <<inspector, server>> /\ UNCHANGED notifier
StartExporter == Main("start exporter", "start inspector") /\ StartThread("exporter") /\ UNCHANGED <<inspector, server>> /\ UNCHANGED notifier

\* Service::Start.
StartInspector ==
    /\ Main("start inspector", "run") /\ inspector' = "running"
    /\ UNCHANGED <<thread, server>> /\ UNCHANGED notifier

\* The handlers are offered an event.  The process signal handler writes it to its
\* stream, without a deadline, so that the event need not come to its end.
HandleEvent ==
    /\ UseGRPC /\ control = "RUN" /\ Main("run", "handle event")
    /\ UNCHANGED <<thread, inspector, server>> /\ UNCHANGED notifier

EventHandled ==
    /\ Main("handle event", "run")
    /\ UNCHANGED <<thread, inspector, server>> /\ UNCHANGED notifier

\* Run and RunForever test the flag between two events.
LeaveRun ==
    /\ Main("run", "stop loader") /\ control = "STOP_COLLECTOR"
    /\ UNCHANGED <<thread, inspector, server>> /\ UNCHANGED notifier

\* StoppableThread::Stop up to the join.
StopThread(t) == thread' = [thread EXCEPT ![t].stop = TRUE]

StopLoader == Main("stop loader", "join loader") /\ StopThread("loader") /\ UNCHANGED <<inspector, server>> /\ UNCHANGED notifier

Join(t, step, next) ==
    /\ Main(step, next) /\ thread[t].pc = "done"
    /\ thread' = [thread EXCEPT ![t].pc = "none"]
    /\ UNCHANGED <<inspector, server>> /\ UNCHANGED notifier

\* server_.close() accepts no request and returns when no handler is running.
CloseServer ==
    /\ Main("close server", "cancel") /\ ~server.busy
    /\ server' = [server EXCEPT !.open = FALSE]
    /\ UNCHANGED <<thread, inspector>> /\ UNCHANGED notifier

\* Faulty variant: the context is left alone.
CancelNothing ==
    /\ Main("cancel", "stop notifier")
    /\ UNCHANGED <<thread, inspector, server>> /\ UNCHANGED notifier

\* NetworkStatusNotifier::Stop cancels the current context first.
Cancel ==
    /\ Main("cancel", "stop notifier")
    /\ context' = IF context = "fresh" THEN "cancelled" ELSE context
    /\ UNCHANGED <<thread, inspector, server, stream, escaped>>

StopNotifier == Main("stop notifier", "join notifier") /\ StopThread("notifier") /\ UNCHANGED <<inspector, server>> /\ UNCHANGED notifier

\* Faulty variant: the exporter is stopped, but not joined, before the inspector is gone.
StopExporterLate ==
    /\ main = "stop exporter" /\ main' = "exited" /\ inspector' = "gone" /\ StopThread("exporter")
    /\ UNCHANGED control /\ UNCHANGED world /\ UNCHANGED server /\ UNCHANGED notifier

StopExporter == Main("stop exporter", "join exporter") /\ StopThread("exporter") /\ UNCHANGED <<inspector, server>> /\ UNCHANGED notifier

\* Service::CleanUp: the inspector is closed and freed,
CleanUp ==
    /\ Main("clean up", "stop handlers") /\ inspector' = "gone"
    /\ UNCHANGED <<thread, server>> /\ UNCHANGED notifier

\* and every handler is stopped.  SignalServiceClient::Stop joins the stream thread,
\* which never ends when it missed its notification, and then cancels a context that
\* there may never have been: see StopJoin, StopCancel and MissedWakeup in
\* SignalPipeline.
StopHandlers ==
    /\ \E next \in {"exited"} \cup (IF UseGRPC THEN {"hung", "aborting"} ELSE {}) : Main("stop handlers", next)
    /\ UNCHANGED <<thread, inspector, server>> /\ UNCHANGED notifier

Destructor ==
    \/ StopLoader \/ Join("loader", "join loader", "close server") \/ CloseServer \/ Cancel
    \/ StopNotifier \/ Join("notifier", "join notifier", "stop exporter")
    \/ StopExporter \/ Join("exporter", "join exporter", "clean up") \/ CleanUp
    \/ StopHandlers

-----------------------------------------------------------------------------
(***************************************************************************)
(* The threads.  They run while the process does.                          *)
(***************************************************************************)

At(t, pc) == thread[t].pc = pc /\ ~Ended
Goto(t, pc) == thread' = [thread EXCEPT ![t].pc = pc]
ThreadOnly == UNCHANGED <<main, control, inspector, server>> /\ UNCHANGED world

\* The exporter's and the loader's loop: one round, which uses the inspector, or
\* the end.
Loop(t) ==
    /\ t \in {"loader", "exporter"}
    /\ \/ At(t, "pause") /\ Goto(t, IF thread[t].stop THEN "done" ELSE "work")
       \/ At(t, "work") /\ Goto(t, "pause")
    /\ ThreadOnly /\ UNCHANGED notifier

\* PauseUntil: the time has come, or the thread is to stop.
Pause ==
    /\ At("notifier", "pause") /\ Goto("notifier", IF thread.notifier.stop THEN "done" ELSE "reset")
    /\ ThreadOnly /\ UNCHANGED notifier

ResetClientContext ==
    /\ At("notifier", "reset") /\ Goto("notifier", "wait")
    /\ context' = "fresh"
    /\ escaped' = (escaped \/ main \in {"stop notifier", "join notifier"})
    /\ ThreadOnly /\ UNCHANGED stream

\* The loop of WaitForChannelReady: the flag is tested, and then the channel, for
\* as long as poll_interval.
WaitForChannelReady ==
    \/ At("notifier", "wait") /\ Goto("notifier", IF thread.notifier.stop THEN "done" ELSE "poll")
    \/ At("notifier", "poll") /\ Goto("notifier", IF channel THEN "open" ELSE "wait")

\* Without a server there is nothing to wait for.
WaitForConnectionReady ==
    /\ IF UseGRPC THEN WaitForChannelReady ELSE At("notifier", "wait") /\ Goto("notifier", "open")
    /\ ThreadOnly /\ UNCHANGED notifier

\* The stream fails at once on a context that is cancelled or without a channel;
\* every operation of StdoutDuplexClientWriter succeeds.
OpenStream ==
    /\ At("notifier", "open") /\ Goto("notifier", "start")
    /\ stream' = IF UseGRPC /\ (context = "cancelled" \/ ~channel) THEN "broken" ELSE "up"
    /\ ThreadOnly /\ UNCHANGED <<context, escaped>>

\* The first call of RunSingle, whose result it ignores.  It may take the completions
\* of a stream that fails meanwhile, down to the last one.
WaitUntilWriterStarted ==
    /\ At("notifier", "start") /\ Goto("notifier", "work")
    /\ stream' \in IF stream = "broken" THEN {"broken", "taken"} ELSE {stream}
    /\ ThreadOnly /\ UNCHANGED <<context, escaped>>

\* Sleep polls for a completion before it looks at the flags: it tells that the
\* stream has failed only while a completion of the failure is left.
SleepFails == stream = "broken"

ReturnFromRunSingle ==
    /\ Goto("notifier", IF thread.notifier.stop THEN "done" ELSE "finish")
    /\ ThreadOnly /\ UNCHANGED notifier

\* RunSingle returns when Sleep tells that the stream has failed,
RunSingleReturns == At("notifier", "work") /\ SleepFails /\ ReturnFromRunSingle

\* or when there was a message and it could not be written until the next scrape.
WriteFails == At("notifier", "work") /\ UseGRPC /\ ReturnFromRunSingle

\* Faulty variant: a stream that ended is not opened again.
FinishForGood ==
    /\ At("notifier", "finish") /\ Goto("notifier", "done")
    /\ ThreadOnly /\ UNCHANGED notifier

\* Finish, the end of the writer, and the next attempt in ten seconds.
Finish ==
    /\ At("notifier", "finish") /\ Goto("notifier", "pause")
    /\ stream' = "none"
    /\ ThreadOnly /\ UNCHANGED <<context, escaped>>

Notifier ==
    \/ Pause \/ ResetClientContext \/ WaitForConnectionReady
    \/ OpenStream \/ WaitUntilWriterStarted \/ RunSingleReturns \/ Finish

\* GetStatus and the introspection handlers.
Request ==
    /\ server.open /\ ~server.busy /\ main # "close server" /\ ~Ended
    /\ server' = [server EXCEPT !.busy = TRUE]
    /\ UNCHANGED <<main, control, thread, inspector>> /\ UNCHANGED world /\ UNCHANGED notifier
Response ==
    /\ server.busy
    /\ server' = [server EXCEPT !.busy = FALSE]
    /\ UNCHANGED <<main, control, thread, inspector>> /\ UNCHANGED world /\ UNCHANGED notifier

\* Sensor and the network: the channel comes and goes, and a cancelled context, a
\* lost channel or Sensor's hanging up breaks the stream.
Network ==
    /\ UseGRPC /\ ~Ended
    /\ \/ channel' = ~channel /\ stream' = IF channel /\ stream = "up" THEN "broken" ELSE stream
       \/ stream = "up" /\ stream' = "broken" /\ UNCHANGED channel
    /\ UNCHANGED <<main, polls, handlers, control, diagnosed, thread, context, inspector, server, escaped, trace>>
StreamFails ==
    /\ UseGRPC /\ context = "cancelled" /\ stream = "up"
    /\ stream' = "broken"
    /\ UNCHANGED <<main, polls, handlers, control, diagnosed, thread, context, channel, inspector, server, escaped, trace>>

-----------------------------------------------------------------------------
(***************************************************************************)
(* Specification.                                                          *)
(***************************************************************************)

Init ==
    /\ main = "connect" /\ polls = MaxPolls /\ handlers = FALSE /\ control = "RUN" /\ diagnosed = FALSE
    /\ thread = [t \in Loops |-> [pc |-> "none", stop |-> FALSE]]
    /\ context = "none" /\ channel \in BOOLEAN /\ stream = "none" /\ escaped = FALSE
    /\ inspector = "closed" /\ server = [open |-> FALSE, busy |-> FALSE] /\ trace = << >>

MainStep ==
    \/ Connect \/ RegisterHandlers \/ InitKernel \/ AbortHandler
    \/ StartLoader \/ StartNotifier \/ StartExporter \/ StartInspector \/ LeaveRun \/ Destructor

Next ==
    \/ MainStep \/ HandleEvent \/ EventHandled \/ Terminate \/ Notifier \/ WriteFails \/ Loop("loader") \/ Loop("exporter")
    \/ Request \/ Response \/ Network \/ StreamFails
    \/ (Ended /\ UNCHANGED vars)

\* Threads keep running and a cancelled stream fails; neither Sensor nor the
\* network owes anything: an event may be handled for ever, since its signal is
\* written without a deadline, and there may never be a message to write.
Fairness ==
    /\ WF_vars(MainStep)
    /\ WF_vars(Notifier) /\ WF_vars(Loop("loader")) /\ WF_vars(Loop("exporter"))
    /\ WF_vars(Response) /\ WF_vars(StreamFails)

Spec == Init /\ [][Next]_vars
FairSpec == Spec /\ Fairness

-----------------------------------------------------------------------------
(***************************************************************************)
(* Properties.                                                             *)
(***************************************************************************)

\* Nothing that uses the system inspector is still running when it is gone:
\* whatever the order in which a stop, a reconnect, a request and the rounds of
\* the threads meet.
InspectorOutlivesUsers ==
    inspector = "gone" => ~server.busy /\ \A t \in Loops : thread[t].pc = "none"

\* Once SIGTERM is handled collector exits, unless the notifier has replaced the
\* context between TryCancel and the stop of its thread, or one of the calls that
\* have no end of their own never returns: the Write of the event thread, the join of
\* a stream thread that missed its notification, or RunSingle on a stream whose
\* failure WaitUntilStarted has used up, while there is nothing to write.
StopsUnlessBlocked ==
    control = "STOP_COLLECTOR"
        ~> (Ended \/ escaped \/ main = "hung" \/ [](main = "handle event") \/ [](stream = "taken"))

\* While Sensor stays reachable, the notifier opens a stream again whenever one
\* has ended, until it is stopped, or for ever sleeps on a stream whose failure
\* WaitUntilStarted has used up.
Reconnects ==
    <>[](channel /\ main \in {"run", "handle event"})
        => []<>(stream = "up") \/ <>[](stream = "taken")

\* A signal that is handled ends collector.
ShutdownCompletes == control = "STOP_COLLECTOR" ~> Ended

\* A start-up that fails is summed up in the log.
FailureDiagnosed == main \in {"fatal", "crashed"} => diagnosed

\* A line that was truncated ends with a new line.
TruncatedLinesEnd == \A i \in DOMAIN trace : trace[i].length >= BufferSize => trace[i].ended

=============================================================================
