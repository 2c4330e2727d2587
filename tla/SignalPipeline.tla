--------------------------- MODULE SignalPipeline ----------------------------
(***************************************************************************)
(* The way of process signals to Sensor: the event thread that runs        *)
(* Service::Run and offers each event to its handlers (Service.cpp), the   *)
(* self checks that leave the list of handlers (SelfCheckHandler.cpp), the *)
(* process signal handler with its rate limiter (ProcessSignalHandler.cpp, *)
(* RateLimit.cpp), and the signal service client, whose own thread         *)
(* re-establishes the stream that the event thread writes to               *)
(* (SignalServiceClient.cpp, StoppableThread.cpp).  libsinsp keeps the     *)
(* thread table when it parses an event, whether or not the event is then  *)
(* handed out.  All calls fall within one refill period of the limiter.    *)
(***************************************************************************)
EXTENDS RateLimit

CONSTANTS
    Process,            \* container processes
    KeyOf,              \* compute_process_key
    SelfCheck,          \* the process started by start_self_check_process
    Unresolvable,       \* processes that the formatter cannot turn into a message
    MaxEvents,          \* bound: events parsed, but for exits
    MaxStreams          \* bound: streams that are opened

ASSUME ProcessAssumption ==
    /\ KeyOf \in [Process -> Keys]
    /\ SelfCheck \in Process /\ Unresolvable \subseteq Process
    /\ MaxEvents \in Nat /\ MaxStreams \in Nat

VARIABLES
    control,    \* the ControlValue that ShutdownHandler sets
    et,         \* the event thread: its place, its event and handler, and the signal it pushes
    service,    \* signal_handlers_, the self checks' timeout, the thread table, the limiter's cache
    client,     \* SignalServiceClient, with its thread and the stream
    past        \* history: see TableComplete

pipelineVars == <<control, et, service, client, past>>

AllHandlers == <<"SelfCheckProcess", "SelfCheckNetwork", "Process", "Network">>

NullEvent == [kind |-> "none", proc |-> SelfCheck]

PipelineInit ==
    /\ control = "RUN"
    /\ et = [pc |-> "poll", ev |-> NullEvent, hi |-> 1, phase |-> "first", todo |-> {},
             cur |-> SelfCheck, res |-> "IGNORED"]
    /\ \E t \in SUBSET (Process \ {SelfCheck}) :
          service = [handlers |-> AllHandlers, timed_out |-> FALSE, table |-> t, cache |-> << >>, events |-> 0]
    /\ client = [pc |-> "test", should_stop |-> FALSE, stream_active |-> FALSE, first_write |-> FALSE,
                 writer |-> FALSE, context |-> FALSE, up |-> FALSE, streams |-> 0]
    /\ past = [known |-> {}, excused |-> {}, skipped |-> {}, unheard |-> {}]

-----------------------------------------------------------------------------
(***************************************************************************)
(* The event thread: Service::Run.                                         *)
(***************************************************************************)

\* GetNext, when it returns an event that FilterEvent lets through.  An exec makes a
\* new process of what was written or dropped under its pid before.
GetNext(e) ==
    /\ et.pc = "poll" /\ control = "RUN" /\ service.events < MaxEvents
    /\ et' = [et EXCEPT !.pc = "offer", !.ev = e, !.hi = 1]
    /\ IF e.kind = "exec"
       THEN /\ service' = [service EXCEPT !.events = @ + 1, !.table = @ \cup {e.proc}]
            /\ past' = [past EXCEPT !.known = @ \ {e.proc}, !.excused = @ \ {e.proc}, !.unheard = @ \ {e.proc}]
       ELSE service' = [service EXCEPT !.events = @ + 1] /\ UNCHANGED past
    /\ UNCHANGED <<control, client>>

\* GetNext, when it parses an event that adds a main thread to the table, or gives
\* one a new executable, of which no handler is told: the clone or fork of a process,
\* of a type that no handler is for, or an exec that FilterEvent drops.
GetNextUnheard(p) ==
    /\ et.pc = "poll" /\ control = "RUN" /\ service.events < MaxEvents
    /\ service' = [service EXCEPT !.events = @ + 1, !.table = @ \cup {p}]
    /\ past' = [past EXCEPT !.known = @ \ {p}, !.excused = @ \ {p}, !.unheard = @ \cup {p}]
    /\ UNCHANGED <<control, et, client>>

\* GetNext, when it parses the exit of a process and returns no event.
Exit(p) ==
    /\ et.pc = "poll" /\ control = "RUN" /\ p \in service.table
    /\ service' = [service EXCEPT !.table = @ \ {p}]
    /\ UNCHANGED <<control, et, client, past>>

ShouldHandle(h) ==
    IF et.ev.kind = "exec" THEN h \in {"SelfCheckProcess", "Process"}
                           ELSE h \in {"SelfCheckNetwork", "Network"}

IsSelfCheck(h) == h \in {"SelfCheckProcess", "SelfCheckNetwork"}

\* A self check finishes when it has seen its event or has waited too long; a
\* network event of the self check counts only on its server port ("check").
SelfCheckFinished(h) ==
    /\ ShouldHandle(h) /\ IsSelfCheck(h)
    /\ service.timed_out \/ (et.ev.proc = SelfCheck /\ et.ev.kind # "network")

\* signal_handlers_.erase
Erase(s, i) == [j \in 1..(Len(s) - 1) |-> IF j < i THEN s[j] ELSE s[j + 1]]

\* Faulty variant: a handler that has finished stays in the list.
FinishedStaying(h) ==
    /\ SelfCheckFinished(h)
    /\ past' = [past EXCEPT !.skipped = @ \cup {[handler |-> h, ev |-> et.ev, n |-> service.events]}]
    /\ et' = [et EXCEPT !.pc = "poll", !.ev = NullEvent]
    /\ UNCHANGED <<control, client, service>>

\* A handler that has finished leaves the list, and the event is not offered
\* to the handlers after it.
Finished(h) ==
    /\ SelfCheckFinished(h)
    /\ service' = [service EXCEPT !.handlers = Erase(@, et.hi)]
    /\ past' = [past EXCEPT !.skipped = @ \cup {[handler |-> h, ev |-> et.ev, n |-> service.events]}]
    /\ et' = [et EXCEPT !.pc = "poll", !.ev = NullEvent]
    /\ UNCHANGED <<control, client>>

\* The network signal handler only feeds the connection tracker.
Ignored(h) ==
    /\ ~SelfCheckFinished(h) /\ ~(ShouldHandle(h) /\ h = "Process")
    /\ et' = [et EXCEPT !.hi = @ + 1]
    /\ UNCHANGED <<control, service, client, past>>

Handled(h) ==
    /\ ShouldHandle(h) /\ h = "Process"
    /\ et' = [et EXCEPT !.pc = "signal", !.phase = "first", !.cur = et.ev.proc]
    /\ UNCHANGED <<control, service, client, past>>

\* One iteration over the handlers.
Offer ==
    /\ et.pc = "offer" /\ et.hi <= Len(service.handlers)
    /\ LET h == service.handlers[et.hi] IN Finished(h) \/ Ignored(h) \/ Handled(h)

Offered ==
    /\ et.pc = "offer" /\ et.hi > Len(service.handlers)
    /\ et' = [et EXCEPT !.pc = "poll", !.ev = NullEvent]
    /\ UNCHANGED <<control, service, client, past>>

-----------------------------------------------------------------------------
(***************************************************************************)
(* The process signal handler, for an event (phase "first", and "retry"    *)
(* after a refresh) and for an existing process.                           *)
(***************************************************************************)

\* What PushSignals answers before it writes, or "write".
PushStart ==
    CASE ~client.stream_active -> "ERROR"
      [] client.stream_active /\ client.first_write -> "NEEDS_REFRESH"
      [] OTHER -> "write"

\* HandleSignal and HandleExistingProcess up to the write: the formatter, the
\* limiter, and the tests at the start of PushSignals.
HandleSignal ==
    LET r == CacheAllow(service.cache, KeyOf[et.cur], 1)
        formatted == et.cur \notin Unresolvable
        pushed == formatted /\ r.allowed
    IN
    /\ et.pc = "signal"
    /\ service' = IF formatted THEN [service EXCEPT !.cache = r.cache] ELSE service
    /\ \/ /\ ~pushed
          /\ et' = [et EXCEPT !.pc = "result", !.res = "IGNORED"]
          /\ past' = [past EXCEPT !.excused = @ \cup {et.cur}]
          /\ UNCHANGED client
       \/ /\ pushed /\ PushStart = "write"
          /\ et' = [et EXCEPT !.pc = "write"]
          /\ UNCHANGED <<client, past>>
       \/ /\ pushed /\ PushStart # "write"
          /\ et' = [et EXCEPT !.pc = "result", !.res = PushStart]
          /\ client' = IF PushStart = "NEEDS_REFRESH" THEN [client EXCEPT !.first_write = FALSE] ELSE client
          /\ UNCHANGED past
    /\ UNCHANGED control

\* PushSignals: the write, which fails when the stream is over.  It has no deadline:
\* while Sensor reads nothing the thread stays here.
Write ==
    /\ et.pc = "write"
    /\ IF client.up
       THEN /\ et' = [et EXCEPT !.pc = "result", !.res = "PROCESSED"]
            /\ past' = [past EXCEPT !.known = @ \cup {et.cur}]
       ELSE et' = [et EXCEPT !.pc = "reset"] /\ UNCHANGED past
    /\ UNCHANGED <<control, service, client>>

\* Faulty variant: the stream is marked inactive before the writer is reset.
ResetWriterLate ==
    /\ et.pc = "reset"
    /\ client' = [client EXCEPT !.stream_active = FALSE]
    /\ et' = [et EXCEPT !.pc = "deactivate"]
    /\ UNCHANGED <<control, service, past>>

\* The writer is finished and destroyed, then the stream is marked inactive,
\* then the stream thread is notified.
ResetWriter ==
    /\ et.pc = "reset"
    /\ client' = [client EXCEPT !.writer = FALSE]
    /\ et' = [et EXCEPT !.pc = "deactivate"]
    /\ UNCHANGED <<control, service, past>>

Deactivate ==
    /\ et.pc = "deactivate"
    /\ client' = [client EXCEPT !.stream_active = FALSE]
    /\ et' = [et EXCEPT !.pc = "notify"]
    /\ UNCHANGED <<control, service, past>>

\* notify_one wakes the stream thread only if it is already waiting.
Notified(c) == [c EXCEPT !.pc = IF @ = "wait" THEN "test" ELSE @]

Notify ==
    /\ et.pc = "notify"
    /\ client' = Notified(client)
    /\ et' = [et EXCEPT !.pc = "result", !.res = "ERROR"]
    /\ UNCHANGED <<control, service, past>>

NextHandler == et' = [et EXCEPT !.pc = "offer", !.hi = @ + 1, !.todo = {}]

\* What Run does with the result for its event, and SendExistingProcesses with
\* the one for an existing process.
Result ==
    /\ et.pc = "result"
    /\ CASE et.phase = "first" /\ et.res = "NEEDS_REFRESH" ->
              /\ et' = [et EXCEPT !.pc = "existing", !.phase = "existing", !.todo = service.table]
              /\ past' = [past EXCEPT !.unheard = {}]
         [] et.phase = "existing" /\ et.res \notin {"ERROR", "NEEDS_REFRESH"} ->
              et' = [et EXCEPT !.pc = "existing"] /\ UNCHANGED past
         [] OTHER -> NextHandler /\ UNCHANGED past
    /\ UNCHANGED <<control, service, client>>

\* The next existing process, or the second HandleSignal for the event.
NextExisting ==
    /\ et.pc = "existing"
    /\ \/ \E p \in et.todo : et' = [et EXCEPT !.pc = "signal", !.cur = p, !.todo = @ \ {p}]
       \/ et.todo = {} /\ et' = [et EXCEPT !.pc = "signal", !.phase = "retry", !.cur = et.ev.proc]
    /\ UNCHANGED <<control, service, client, past>>

-----------------------------------------------------------------------------
(***************************************************************************)
(* The stream thread: EstablishGRPCStreamSingle.                           *)
(***************************************************************************)

StreamStep(from, c) ==
    /\ client.pc = from
    /\ client' = c
    /\ UNCHANGED <<control, et, service>>

\* The predicate of the wait.  The mutex of the wait is local, so that
\* anything may happen between the test and the wait.
Test ==
    /\ StreamStep("test", [client EXCEPT !.pc = CASE client.should_stop -> "done"
                                                  [] ~client.should_stop /\ ~client.stream_active -> "channel"
                                                  [] OTHER -> "block"])
    /\ UNCHANGED past

Block == StreamStep("block", [client EXCEPT !.pc = "wait"]) /\ UNCHANGED past

SpuriousWakeup == StreamStep("wait", [client EXCEPT !.pc = "test"]) /\ UNCHANGED past

\* Faulty variant: the wait for the channel is not interrupted.
ChannelReadyOnly ==
    /\ client.streams < MaxStreams
    /\ StreamStep("channel", [client EXCEPT !.pc = "connected"])
    /\ UNCHANGED past

\* WaitForChannelReady polls the channel until it is connected or the thread
\* should stop.
ChannelReady ==
    /\ \/ client.should_stop /\ StreamStep("channel", [client EXCEPT !.pc = "done"])
       \/ ~client.should_stop /\ client.streams < MaxStreams
          /\ StreamStep("channel", [client EXCEPT !.pc = "connected"])
    /\ UNCHANGED past

\* A new context and a new writer.
OpenStream ==
    /\ StreamStep("connected",
         IF client.should_stop THEN [client EXCEPT !.pc = "done"]
         ELSE [client EXCEPT !.pc = "starting", !.context = TRUE, !.writer = TRUE, !.up = TRUE,
                             !.streams = @ + 1])
    /\ UNCHANGED past

\* Faulty variant: the thread ends when a stream does not start in time.
StartingGivesUp ==
    /\ \/ StreamStep("starting", [client EXCEPT !.pc = "started"])
       \/ StreamStep("starting", [client EXCEPT !.pc = "done", !.writer = FALSE])
    /\ UNCHANGED past

\* WaitUntilStarted: started, as far as the client can tell, or timed out.
Starting ==
    /\ \/ StreamStep("starting", [client EXCEPT !.pc = "started"])
       \/ StreamStep("starting", [client EXCEPT !.pc = "test", !.writer = FALSE])
    /\ UNCHANGED past

\* Faulty variant: no refresh is asked for on a new stream.
SetFirstWriteOnce ==
    /\ StreamStep("started", [client EXCEPT !.pc = "activate", !.first_write = (client.streams = 1)])
    /\ UNCHANGED past

SetFirstWrite ==
    /\ StreamStep("started", [client EXCEPT !.pc = "activate", !.first_write = TRUE])
    /\ UNCHANGED past

Activate ==
    /\ StreamStep("activate", [client EXCEPT !.pc = "test", !.stream_active = TRUE])
    /\ past' = [past EXCEPT !.known = {}, !.excused = {}]

-----------------------------------------------------------------------------
(***************************************************************************)
(* Shutdown: the event thread leaves Run and cleans up, which stops the    *)
(* process signal handler and with it the stream thread.                   *)
(***************************************************************************)

StopStep(from, to, c) ==
    /\ et.pc = from
    /\ et' = [et EXCEPT !.pc = to]
    /\ client' = c
    /\ UNCHANGED <<control, service, past>>

LeaveRun == control = "STOP" /\ StopStep("poll", "stop_notify", client)

StopNotify == StopStep("stop_notify", "stop_flag", Notified(client))

StopFlag == StopStep("stop_flag", "stop_join", [client EXCEPT !.should_stop = TRUE])

StopJoin == client.pc = "done" /\ StopStep("stop_join", "stop_cancel", client)

\* context_->TryCancel(), which needs a context, and context_.reset().  The
\* limiter is freed and the handlers, which alone use it, are removed.
StopCancel ==
    /\ et.pc = "stop_cancel"
    /\ \/ /\ client.context
          /\ et' = [et EXCEPT !.pc = "stopped"]
          /\ client' = [client EXCEPT !.context = FALSE, !.up = FALSE]
          /\ service' = [service EXCEPT !.handlers = << >>]
       \/ /\ ~client.context
          /\ et' = [et EXCEPT !.pc = "crashed"]
          /\ UNCHANGED <<client, service>>
    /\ UNCHANGED <<control, past>>

-----------------------------------------------------------------------------
(***************************************************************************)
(* The environment, and the specification.                                 *)
(***************************************************************************)

StreamBreaks ==
    /\ client.up /\ client' = [client EXCEPT !.up = FALSE]
    /\ UNCHANGED <<control, et, service, past>>

ShutdownSignal ==
    /\ control = "RUN" /\ control' = "STOP"
    /\ UNCHANGED <<et, service, client, past>>

SelfCheckTimeout ==
    /\ ~service.timed_out /\ service' = [service EXCEPT !.timed_out = TRUE]
    /\ UNCHANGED <<control, et, client, past>>

EventThread ==
    \/ Offer \/ Offered \/ HandleSignal \/ Write \/ ResetWriter \/ Deactivate \/ Notify \/ Result
    \/ NextExisting \/ LeaveRun \/ StopNotify \/ StopFlag \/ StopJoin \/ StopCancel

StreamThread ==
    \/ Test \/ Block \/ ChannelReady \/ OpenStream \/ Starting \/ SetFirstWrite \/ Activate

Kernel ==
    \/ \E k \in {"exec", "network"}, p \in Process : GetNext([kind |-> k, proc |-> p])
    \/ GetNext([kind |-> "check", proc |-> SelfCheck])
    \/ \E p \in Process : GetNextUnheard(p) \/ Exit(p)

PipelineNext ==
    EventThread \/ StreamThread \/ SpuriousWakeup \/ Kernel \/ StreamBreaks \/ ShutdownSignal \/ SelfCheckTimeout

PipelineSpec == PipelineInit /\ [][PipelineNext]_pipelineVars

\* The event thread is in a write that the stream does not take.
WriteBlocked == et.pc = "write" /\ client.up

\* Both threads run, but a Write on a stream that is up need not return; a spurious
\* wake-up is never relied on.
PipelineFairness == WF_pipelineVars(~WriteBlocked /\ EventThread) /\ WF_pipelineVars(StreamThread)

PipelineFairSpec == PipelineSpec /\ PipelineFairness

-----------------------------------------------------------------------------
\* Types.
PipelineTypeOK ==
    /\ control \in {"RUN", "STOP"}
    /\ et.ev \in [kind : {"none", "exec", "network", "check"}, proc : Process]
    /\ et.phase \in {"first", "existing", "retry"} /\ et.todo \subseteq Process /\ et.cur \in Process
    /\ et.res \in {"IGNORED", "ERROR", "NEEDS_REFRESH", "PROCESSED"}
    /\ service.table \subseteq Process /\ DOMAIN service.cache \subseteq Keys
    /\ past.known \subseteq Process /\ past.excused \subseteq Process /\ past.unheard \subseteq Process
    /\ Cardinality(DOMAIN service.cache) <= Capacity

Skipped == {s.ev.proc : s \in {x \in past.skipped : x.ev.kind = "exec"}}

\* Whenever the event thread is between two events and the stream is active
\* and refreshed, every process that was in the thread table at the refresh or
\* whose exec was handed out since, and that still runs that executable, has
\* been written to this stream, but for those the limiter or the formatter
\* dropped and the one event a self check may withhold.  What entered the table
\* unheard since the refresh is not written until the next one.  A refresh
\* that fails half way, a stream that breaks during it and an event that found
\* no stream are all made up for by the next refresh (Service.cpp:269,
\* SignalServiceClient.cpp:68).
TableComplete ==
    et.pc = "poll" /\ client.stream_active /\ ~client.first_write
        => service.table \subseteq past.known \cup past.excused \cup Skipped \cup past.unheard

\* A refresh is asked for only by the first signal of a stream: neither an
\* existing process nor the event itself after the refresh is answered by a
\* further request, which Run would drop (Service.cpp:273, :305).
RefreshNotRequestedTwice ==
    et.pc = "result" /\ et.res = "NEEDS_REFRESH" => et.phase = "first"

\* After a refresh Sensor has every process that was in the thread table then, and
\* every one that an exec told of since, but for those that were dropped for a
\* reason, and only the first signal of a stream asks for a refresh; the limiter
\* keeps to its capacity meanwhile (Service.cpp:269-273, :305,
\* SignalServiceClient.cpp:68).
RefreshSound == PipelineTypeOK /\ TableComplete /\ RefreshNotRequestedTwice

\* Each self check withholds at most one event, its last, from the handlers
\* after it (Service.cpp:274).
SelfCheckCostsOneEvent ==
    \A s, t \in past.skipped : s.handler = t.handler => s = t

\* The event thread and the stream thread never use writer_ at the same time,
\* and the event thread finds a writer when it writes: stream_active_ hands it
\* over in both directions (SignalServiceClient.cpp:41, :80).
WriterHandedOver ==
    /\ et.pc \in {"write", "reset"} => client.writer
    /\ et.pc \in {"write", "reset", "deactivate"} => client.pc \in {"test", "block", "wait"}

\* The stream thread is waiting for a notification that has been sent already.
MissedWakeup ==
    /\ client.pc \in {"block", "wait"}
    /\ \/ ~client.stream_active /\ et.pc # "notify"
       \/ client.should_stop

\* While Sensor can be reached, a stream that is not active is replaced by a
\* new one, unless the stream thread missed its notification
\* (EstablishGRPCStreamSingle).
StreamReplaced ==
    (~client.stream_active /\ client.streams < MaxStreams)
        ~> (client.stream_active \/ client.streams = MaxStreams \/ control = "STOP" \/ MissedWakeup)

\* Stopping the service ends, whatever the stream thread is doing, unless that
\* thread missed its notification (SignalServiceClient::Stop), or the event thread
\* never comes back from a Write, which has no deadline and is cancelled only by
\* the stop it holds up (SignalServiceClient.cpp:57, :73).
StopEnds ==
    control = "STOP" ~> (et.pc \in {"stopped", "crashed"} \/ MissedWakeup \/ []WriteBlocked)

-----------------------------------------------------------------------------
\* SignalServiceClient.h:55, of context_: "This needs to have the same lifetime
\* as the class."
ContextExistsAtStop == et.pc # "crashed"

=============================================================================
