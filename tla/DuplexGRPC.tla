----------------------------- MODULE DuplexGRPC ------------------------------
(***************************************************************************)
(* The duplex client (DuplexGRPC.h): one thread calls its synchronous and  *)
(* asynchronous operations and polls; completions of the underlying gRPC   *)
(* stream arrive through a completion queue, and another thread may cancel *)
(* the context.  The client's flags decide what may still be issued.  The  *)
(* module covers the life of one stream, from its creation to the          *)
(* destructor.                                                             *)
(***************************************************************************)
EXTENDS Integers, Sequences, FiniteSets

CONSTANTS
    HasReadCallback,    \* created with a read callback (or with reads ignored)
    Usage,              \* the functions that the client's user calls
    Untimed,            \* those among them that it calls without a deadline
    MaxWrites,          \* bound: messages the user writes
    MaxReads            \* bound: messages the peer sends

Op == {"START", "READ", "WRITE", "WRITES_DONE", "FINISH", "SHUTDOWN"}

Async == {"WriteAsync", "WritesDoneAsync", "FinishAsync"}

Sync == {"Write", "WritesDone", "Finish"}

Poll == {"WaitUntilStarted", "Sleep", "WaitUntilFinished", "PollAnyCanRead", "Read"}

OpOf(fn) ==
    CASE fn \in {"Write", "WriteAsync"} -> "WRITE"
      [] fn \in {"WritesDone", "WritesDoneAsync"} -> "WRITES_DONE"
      [] OTHER -> "FINISH"

ASSUME UsageAssumption ==
    /\ HasReadCallback \in BOOLEAN
    /\ Usage \subseteq Async \cup Sync \cup Poll \cup {"Shutdown"}
    /\ Untimed \subseteq Usage
    /\ MaxWrites \in Nat /\ MaxReads \in Nat

VARIABLES
    st,             \* the client: flags_, read_buf_valid_, and what gRPC has in flight
    cq,             \* completions not yet taken from cq_
    cq_shutdown,    \* cq_.Shutdown() was called
    up,             \* the stream has neither ended nor failed
    cancelled,      \* TryCancel was called on the context
    call,           \* what the user's thread is executing
    result,         \* what its last call returned
    reads,          \* calls of read_callback_, and whether one was given nullptr
    started,        \* history: the start succeeded
    submitted, accepted, confirmed      \* history: written messages, see MessageStream

grpcVars == <<cq, cq_shutdown, up, cancelled>>
historyVars == <<started, submitted, accepted, confirmed>>
vars == <<st, grpcVars, call, result, reads, historyVars>>

-----------------------------------------------------------------------------
(***************************************************************************)
(* Issuing operations: DoAsync and ReadNext.                               *)
(***************************************************************************)

\* Faulty variant: an operation that is pending may be issued again.
IssueErrorIgnoringPending(s, op) ==
    CASE op = "WRITES_DONE" /\ op \in s.done -> "ALREADY_DONE"
      [] "SHUTDOWN" \in s.done \cup s.pending -> "SHUTDOWN"
      [] "FINISH" \in s.done \cup s.pending -> "ILLEGAL_STATE"
      [] OTHER -> "OK"

\* Only WritesDone has no argument, so it alone counts as idempotent here.
IssueError(s, op) ==
    CASE op = "WRITES_DONE" /\ op \in s.done -> "ALREADY_DONE"
      [] op \in s.pending -> "ALREADY_PENDING"
      [] "SHUTDOWN" \in s.done \cup s.pending -> "SHUTDOWN"
      [] "FINISH" \in s.done \cup s.pending -> "ILLEGAL_STATE"
      [] OTHER -> "OK"

Issue(s, op) ==
    IF IssueError(s, op) # "OK" THEN s
    ELSE [s EXCEPT !.done = @ \ {op}, !.pending = @ \cup {op}, !.inflight = @ \cup {op}]

ReadNext(s) == Issue([s EXCEPT !.read_buf_valid = FALSE], "READ")

\* Faulty variant: a failed operation does not request the status.
ProcessEventWithoutFinish(s, op, ok) ==
    LET b == [s EXCEPT !.pending = @ \ {op}, !.done = @ \cup {op}, !.stream_error = @ \/ ~ok]
    IN  IF op = "READ" THEN ReadNext(b) ELSE b

\* Faulty variant: the next read is issued before the failure is handled.
ProcessEventReadFirst(s, op, ok) ==
    LET b == [s EXCEPT !.pending = @ \ {op}, !.done = @ \cup {op}, !.stream_error = @ \/ ~ok]
        c == IF op = "READ" THEN ReadNext(b) ELSE b
    IN  IF ok THEN c ELSE Issue(c, "FINISH")

\* ProcessEvent with HandleRead: a failure requests the status before the
\* next read is attempted.
ProcessEvent(s, op, ok) ==
    LET a == IF ok THEN s ELSE Issue(s, "FINISH")
        b == [a EXCEPT !.pending = @ \ {op}, !.done = @ \cup {op}, !.stream_error = @ \/ ~ok]
    IN  CASE op = "READ" /\ HasReadCallback -> ReadNext(b)
          [] op = "READ" /\ ~HasReadCallback -> [b EXCEPT !.read_buf_valid = ok]
          [] OTHER -> b

Flagged(s, fn) ==
    CASE fn = "WaitUntilStarted" -> "START" \in s.done
      [] fn = "Sleep" -> s.stream_error \/ "FINISH" \in s.done
      [] fn = "WaitUntilFinished" -> "FINISH" \in s.done
      [] OTHER -> "READ" \in s.done

-----------------------------------------------------------------------------
(***************************************************************************)
(* The user's thread.                                                      *)
(***************************************************************************)

Idle == [fn |-> "none", timed |-> TRUE]

Gone == [fn |-> "gone", timed |-> TRUE]

Return(fn, status) == call' = Idle /\ result' = [fn |-> fn, status |-> status]

\* The constructor: the start is in flight and a first read is issued.
Init ==
    /\ st = ReadNext([done |-> {}, pending |-> {"START"}, stream_error |-> FALSE,
                      read_buf_valid |-> FALSE, inflight |-> {"START"}])
    /\ cq = << >> /\ cq_shutdown = FALSE /\ up = TRUE /\ cancelled = FALSE
    /\ call = Idle /\ result = [fn |-> "none", status |-> "OK"]
    /\ reads = [calls |-> 0, ended |-> FALSE]
    /\ started = FALSE /\ submitted = 0 /\ accepted = 0 /\ confirmed = 0

\* A message is new if its write is issued at all.
CountWrite(op) ==
    submitted' = IF op = "WRITE" /\ IssueError(st, op) = "OK" THEN submitted + 1 ELSE submitted

\* The user writes no more than MaxWrites messages, and none after WritesDone.
MayIssue(op) ==
    op = "WRITE" /\ IssueError(st, op) = "OK" =>
        submitted < MaxWrites /\ "WRITES_DONE" \notin st.done \cup st.pending

DoAsync(fn) ==
    LET op == OpOf(fn) IN
    /\ call = Idle /\ fn \in Usage \cap Async /\ MayIssue(op)
    /\ st' = Issue(st, op)
    /\ CountWrite(op)
    /\ Return(fn, IssueError(st, op))
    /\ UNCHANGED <<grpcVars, reads, started, accepted, confirmed>>

\* Faulty variant: an operation that could not be issued is waited for.
DoSyncIgnoringErrors(fn) ==
    LET op == OpOf(fn) IN
    /\ call = Idle /\ fn \in Usage \cap Sync /\ MayIssue(op)
    /\ st' = Issue(st, op)
    /\ CountWrite(op)
    /\ call' = [fn |-> fn, timed |-> fn \notin Untimed] /\ UNCHANGED result
    /\ UNCHANGED <<grpcVars, reads, started, accepted, confirmed>>

\* DoSync: WritesDone and Finish wait for an operation that is pending already.
DoSync(fn) ==
    LET op == OpOf(fn)
        waits == \/ IssueError(st, op) = "OK"
                 \/ IssueError(st, op) = "ALREADY_PENDING" /\ fn # "Write"
    IN
    /\ call = Idle /\ fn \in Usage \cap Sync /\ MayIssue(op)
    /\ st' = Issue(st, op)
    /\ CountWrite(op)
    /\ IF waits THEN call' = [fn |-> fn, timed |-> fn \notin Untimed] /\ UNCHANGED result
                ELSE Return(fn, IssueError(st, op))
    /\ UNCHANGED <<grpcVars, reads, started, accepted, confirmed>>

\* Poll and the functions built on it.
DoPoll(fn) ==
    /\ call = Idle /\ fn \in Usage \cap Poll
    /\ IF fn = "Read" /\ HasReadCallback
       THEN Return(fn, "ILLEGAL_STATE")
       ELSE call' = [fn |-> fn, timed |-> fn \notin Untimed] /\ UNCHANGED result
    /\ UNCHANGED <<st, grpcVars, reads, historyVars>>

\* Read, after the poll.
TakeRead(s) == IF s.read_buf_valid THEN ReadNext(s) ELSE s

\* ProcessSingle took a completion.
GotEvent ==
    LET e  == Head(cq)
        s  == ProcessEvent(st, e.op, e.ok)
        fn == call.fn
    IN
    /\ fn \notin {"none", "gone"} /\ cq # << >>
    /\ cq' = Tail(cq)
    /\ reads' = IF e.op = "READ" /\ HasReadCallback
                THEN [calls |-> reads.calls + 1, ended |-> ~e.ok]
                ELSE reads
    /\ started' = (started \/ (e.op = "START" /\ e.ok))
    /\ \/ /\ fn \in Poll /\ Flagged(s, fn)
          /\ st' = IF fn = "Read" THEN TakeRead(s) ELSE s
          /\ Return(fn, IF fn = "Read" /\ ~s.read_buf_valid THEN "ERROR" ELSE "OK")
          /\ UNCHANGED confirmed
       \/ /\ fn \in Sync /\ e.op = OpOf(fn)
          /\ st' = s
          /\ Return(fn, IF e.ok THEN "OK" ELSE "ERROR")
          /\ confirmed' = IF fn = "Write" /\ e.ok THEN submitted ELSE confirmed
       \/ /\ ~(fn \in Poll /\ Flagged(s, fn)) /\ ~(fn \in Sync /\ e.op = OpOf(fn))
          /\ st' = s
          /\ UNCHANGED <<call, result, confirmed>>
    /\ UNCHANGED <<cq_shutdown, up, cancelled, submitted, accepted>>

QueueShutDown == cq_shutdown /\ cq = << >> /\ st.inflight = {}

\* The end of a call that got no event: the deadline has passed, or the queue
\* is shut down and empty.  The destructor ends with it.
NoEvent(status) ==
    /\ call.fn \notin {"none", "gone"}
    /\ IF call.fn = "destroy" THEN call' = Gone /\ UNCHANGED result ELSE Return(call.fn, status)
    /\ UNCHANGED <<grpcVars, reads, historyVars>>

Timeout ==
    /\ cq = << >> /\ ~QueueShutDown /\ call.timed
    /\ NoEvent("TIMEOUT")
    /\ UNCHANGED st

GotShutdown ==
    /\ QueueShutDown
    /\ NoEvent("SHUTDOWN")
    /\ st' = [st EXCEPT !.done = @ \cup {"SHUTDOWN"}]

\* Shutdown, which cancels the context first.
Shutdown(s) ==
    /\ st' = IF "SHUTDOWN" \in s.done THEN s ELSE [s EXCEPT !.pending = @ \cup {"SHUTDOWN"}]
    /\ cq_shutdown' = TRUE
    /\ cancelled' = TRUE

DoShutdown ==
    /\ call = Idle /\ "Shutdown" \in Usage
    /\ Return("Shutdown", CASE "SHUTDOWN" \in st.done -> "ALREADY_DONE"
                            [] "SHUTDOWN" \in st.pending \ st.done -> "ALREADY_PENDING"
                            [] OTHER -> "OK")
    /\ Shutdown(st)
    /\ UNCHANGED <<cq, up, reads, historyVars>>

\* The destructor drains the queue with a deadline in the past.
Destroy ==
    /\ call = Idle
    /\ Shutdown(st)
    /\ call' = [fn |-> "destroy", timed |-> TRUE]
    /\ UNCHANGED <<cq, up, result, reads, historyVars>>

\* TryCancel, also called on the context by the thread that stops collector.
TryCancel ==
    /\ call # Gone /\ ~cancelled
    /\ cancelled' = TRUE
    /\ UNCHANGED <<st, cq, cq_shutdown, up, call, result, reads, historyVars>>

-----------------------------------------------------------------------------
(***************************************************************************)
(* gRPC and the peer.  An operation succeeds only while the stream is up   *)
(* and fails only when it is not; the status comes when the stream is      *)
(* over.  Operations complete in any order.                                *)
(***************************************************************************)

Break ==
    /\ up /\ up' = FALSE
    /\ UNCHANGED <<st, cq, cq_shutdown, cancelled, call, result, reads, historyVars>>

Complete(op, ok) ==
    /\ op \in st.inflight
    /\ IF op = "FINISH" THEN ~up ELSE ok = up
    /\ op # "START" /\ ok => "START" \notin st.inflight
    /\ op = "READ" /\ ok => reads.calls < MaxReads
    /\ st' = [st EXCEPT !.inflight = @ \ {op}]
    /\ cq' = Append(cq, [op |-> op, ok |-> ok])
    /\ accepted' = IF op = "WRITE" /\ ok THEN submitted ELSE accepted
    /\ UNCHANGED <<cq_shutdown, up, cancelled, call, result, reads, started, submitted, confirmed>>

User ==
    \/ \E fn \in Usage : DoAsync(fn) \/ DoSync(fn) \/ DoPoll(fn)
    \/ DoShutdown
    \/ Destroy

Progress == GotEvent \/ Timeout \/ GotShutdown

Grpc == Break \/ \E op \in Op, ok \in BOOLEAN : Complete(op, ok)

Next == User \/ Progress \/ TryCancel \/ Grpc

Spec == Init /\ [][Next]_vars

\* A call takes the completions there are, operations of a stream that is over
\* complete, and a cancelled stream ends.
Fairness ==
    /\ WF_vars(GotEvent) /\ WF_vars(GotShutdown)
    /\ \A op \in Op : WF_vars(~up /\ \E ok \in BOOLEAN : Complete(op, ok))
    /\ WF_vars(cancelled /\ Break)

\* A user that comes back to Sleep whatever else it calls, as the loop of RunSingle
\* does, and whose deadlines pass.  It need not ever have anything to write.
Busy == SF_vars(DoPoll("Sleep")) /\ WF_vars(Timeout)

FairSpec == Spec /\ Fairness
BusySpec == FairSpec /\ Busy

-----------------------------------------------------------------------------
Queued == {cq[i].op : i \in DOMAIN cq}

\* Types of the client's state; at most one message is on its way.
TypeOK ==
    /\ st \in [done : SUBSET Op, pending : SUBSET Op, inflight : SUBSET Op,
               stream_error : BOOLEAN, read_buf_valid : BOOLEAN]
    /\ cq \in Seq([op : Op, ok : BOOLEAN])
    /\ cq_shutdown \in BOOLEAN /\ up \in BOOLEAN /\ cancelled \in BOOLEAN /\ started \in BOOLEAN
    /\ call \in [fn : Sync \cup Poll \cup {"none", "gone", "destroy"}, timed : BOOLEAN]
    /\ reads \in [calls : Nat, ended : BOOLEAN]
    /\ submitted \in Nat /\ accepted \in Nat /\ confirmed \in Nat
    /\ confirmed <= accepted /\ accepted <= submitted /\ submitted <= accepted + 1

\* The pending flags tell exactly which operations gRPC still owes a
\* completion for, each once: no completion is lost or taken for that of
\* another operation of the same kind, and none is issued twice
\* (DoAsync, ProcessEvent).
PendingExact ==
    /\ st.pending \ {"SHUTDOWN"} = st.inflight \cup Queued
    /\ st.inflight \cap Queued = {}
    /\ \A i, j \in DOMAIN cq : cq[i].op = cq[j].op => i = j

\* gRPC aborts the process when an operation is started on a queue that was
\* shut down or on a stream whose status was requested: neither ever happens,
\* whichever completions fail and in whichever order they come, and the status
\* is never requested together with another operation (DoAsync, ReadNext).
NothingAfterFinish ==
    [][LET new == st'.inflight \ st.inflight IN
       /\ cq_shutdown \/ "FINISH" \in st.done \cup st.pending => new = {}
       /\ "FINISH" \in new => new = {"FINISH"}]_vars

\* The read callback is given nullptr at most once, and is not called again
\* afterwards (HandleRead, ReadNext, DuplexGRPC.h:29).
NoReadAfterEnd == [][reads.ended => reads' = reads]_vars

\* A duplex client is a message stream: see MessageStream.
Stream == INSTANCE MessageStream WITH closed <- st.stream_error

ImplementsStream == Stream!StreamSpec

\* A write without a deadline, as PushSignals makes it on the event thread,
\* returns once the stream is over or its context is cancelled.
WriteReturns == (call.fn = "Write" /\ (~up \/ cancelled)) ~> call.fn # "Write"

\* A user that keeps on sleeping learns that the stream is over for as long as the
\* status has not been taken from the queue, although an earlier call took the failure
\* of an operation: the failure requests the status, whose completion ends the Sleep
\* (DuplexGRPC.h:343, :505).  A status that went to WaitUntilStarted is the exception:
\* Sleep polls before it looks at the flags, and times out for ever then.
EndIsNoticed ==
    (~up /\ "FINISH" \notin st.done)
        ~> \/ call.fn \in {"destroy", "gone"}
           \/ result.fn = "Sleep" /\ result.status # "TIMEOUT"
           \/ result.fn = "Write" /\ result.status \in {"ERROR", "ILLEGAL_STATE", "SHUTDOWN"}
           \/ result.fn = "Finish" /\ result.status # "TIMEOUT"
           \/ result.fn = "WaitUntilStarted" /\ "FINISH" \in st.done

-----------------------------------------------------------------------------
(***************************************************************************)
(* What comments in the file say of it, see the README.                    *)
(***************************************************************************)

\* DuplexGRPC.h:336, of WaitUntilStarted: "Wait for the specified time for the
\* stream to become ready."
StartedMeansReady ==
    result = [fn |-> "WaitUntilStarted", status |-> "OK"] => started

\* DuplexGRPC.h:549, of the destructor: "Shutdown the client and drain the
\* queue."
DrainedWhenDestroyed == call = Gone => cq = << >> /\ st.inflight = {}

\* DuplexGRPC.h:23, of TryRead after PollAny(CAN_READ): "non-blocking read,
\* since we've polled for the event."
PolledReadSucceeds ==
    [][result = [fn |-> "PollAnyCanRead", status |-> "OK"]
         => result' # [fn |-> "Read", status |-> "TIMEOUT"]]_vars

\* DuplexGRPC.h:626, of the check that refuses operations after finish: "note
\* that a duplicate async call to finish is handled by the above".
DuplicateFinishHandled ==
    ~(result.fn \in {"Finish", "FinishAsync"} /\ result.status = "ILLEGAL_STATE")

=============================================================================
