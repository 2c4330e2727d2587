---------------------------- MODULE DuplexProofs -----------------------------
(***************************************************************************)
(* For every usage of the duplex client: its pending flags are exact,      *)
(* nothing is started after the status was requested, the read callback    *)
(* sees one end, and the client implements MessageStream.                  *)
(***************************************************************************)
EXTENDS DuplexGRPC, TLAPS

St == [done : SUBSET Op, pending : SUBSET Op, inflight : SUBSET Op,
       stream_error : BOOLEAN, read_buf_valid : BOOLEAN]

Event == [op : Op, ok : BOOLEAN]

\* Nothing can be issued any more.
Over(s) == "FINISH" \in s.done \cup s.pending \/ "SHUTDOWN" \in s.done \cup s.pending

\* The queue is shut down only after Shutdown has set its flag.
ShutdownKnown == cq_shutdown => "SHUTDOWN" \in st.done \cup st.pending

\* A failure the client knows of is one of the stream, and has requested the status.
ErrorKnown == st.stream_error => ~up /\ Over(st)

\* A failure that the client does not know of yet is one of the stream, too.
FailuresFinal == \A i \in DOMAIN cq : ~cq[i].ok => ~up

\* Where the latest message is.
WriteAccounted ==
    /\ "WRITE" \in st.inflight => submitted = accepted + 1
    /\ \A i \in DOMAIN cq : cq[i].op = "WRITE" /\ cq[i].ok => accepted = submitted
    /\ "WRITE" \notin st.pending /\ ~st.stream_error => accepted = submitted

\* After the end of the reads none is on its way.
ReadsOver == reads.ended => "READ" \notin st.pending /\ Over(st)

IInv ==
    /\ TypeOK /\ PendingExact /\ ShutdownKnown /\ ErrorKnown
    /\ FailuresFinal /\ WriteAccounted /\ ReadsOver

\* What handling a completion (op, ok) in the state s may lead to.
Handled(s, n, op, ok) ==
    LET new == n.inflight \ s.inflight IN
    /\ n \in St
    /\ s.inflight \subseteq n.inflight
    /\ new \subseteq {"FINISH"} \/ new \subseteq {"READ"}
    /\ n.pending = (s.pending \ {op}) \cup new
    /\ new \cap (s.pending \ {op}) = {}
    /\ Over(s) => new = {}
    /\ ~ok => "READ" \notin new
    /\ Over(s) \/ ~ok => Over(n)
    /\ "SHUTDOWN" \in s.done \cup s.pending => "SHUTDOWN" \in n.done \cup n.pending
    /\ n.stream_error = (s.stream_error \/ ~ok)

-----------------------------------------------------------------------------
(***************************************************************************)
(* Issuing an operation and handling a completion.                         *)
(***************************************************************************)

\* DoAsync refuses an operation, or starts one that is not pending on a stream
\* whose status was not requested and a queue that is not shut down.
LEMMA IssueCases ==
    ASSUME NEW s \in St, NEW op \in Op
    PROVE  \/ IssueError(s, op) # "OK" /\ Issue(s, op) = s
              /\ (op \in s.pending \/ Over(s) \/ (op = "WRITES_DONE" /\ op \in s.done))
           \/ /\ IssueError(s, op) = "OK" /\ op \notin s.pending /\ ~Over(s)
              /\ Issue(s, op) = [s EXCEPT !.done = @ \ {op}, !.pending = @ \cup {op}, !.inflight = @ \cup {op}]
<1>1. CASE op = "WRITES_DONE" /\ op \in s.done
  BY <1>1 DEF IssueError, Issue
<1>2. CASE ~(op = "WRITES_DONE" /\ op \in s.done) /\ op \in s.pending
  BY <1>2 DEF IssueError, Issue
<1>3. CASE ~(op = "WRITES_DONE" /\ op \in s.done) /\ op \notin s.pending /\ Over(s)
  <2>1. IssueError(s, op) \in {"SHUTDOWN", "ILLEGAL_STATE"}
    BY <1>3 DEF IssueError, Over
  <2> QED
    BY <1>3, <2>1 DEF Issue
<1>4. CASE ~(op = "WRITES_DONE" /\ op \in s.done) /\ op \notin s.pending /\ ~Over(s)
  <2>1. IssueError(s, op) = "OK"
    BY <1>4, SMTT(60) DEF IssueError, Over
  <2> QED
    BY <1>4, <2>1 DEF Issue
<1> QED
  BY <1>1, <1>2, <1>3, <1>4

\* The same for the next read, which also drops the buffer.
LEMMA ReadNextCases ==
    ASSUME NEW s \in St
    PROVE  \/ /\ ReadNext(s) = [s EXCEPT !.read_buf_valid = FALSE]
              /\ "READ" \in s.pending \/ Over(s)
           \/ /\ "READ" \notin s.pending /\ ~Over(s)
              /\ ReadNext(s) = [s EXCEPT !.read_buf_valid = FALSE, !.done = @ \ {"READ"},
                                         !.pending = @ \cup {"READ"}, !.inflight = @ \cup {"READ"}]
<1> DEFINE b == [s EXCEPT !.read_buf_valid = FALSE]
<1>1. b \in St /\ b.pending = s.pending /\ b.done = s.done /\ b.inflight = s.inflight
  BY ZenonT(60) DEF St
<1>2. Over(b) <=> Over(s)
  BY <1>1 DEF Over
<1>3. "READ" \in Op /\ "READ" # "WRITES_DONE"
  BY DEF Op
<1>4. ReadNext(s) = Issue(b, "READ")
  BY DEF ReadNext
<1>5. CASE Issue(b, "READ") = b /\ ("READ" \in b.pending \/ Over(b))
  BY <1>1, <1>2, <1>4, <1>5
<1>6. CASE /\ "READ" \notin b.pending /\ ~Over(b)
           /\ Issue(b, "READ") = [b EXCEPT !.done = @ \ {"READ"}, !.pending = @ \cup {"READ"}, !.inflight = @ \cup {"READ"}]
  BY <1>1, <1>2, <1>4, <1>6, ZenonT(60) DEF St
<1> HIDE DEF b
<1> QED
  BY <1>1, <1>3, <1>5, <1>6, IssueCases, ZenonT(60)

\* A read that is issued once a completion was handled leaves it handled.
LEMMA ReadNextHandled ==
    ASSUME NEW s \in St, NEW b \in St, NEW op \in Op, NEW ok \in BOOLEAN,
           s.inflight \subseteq s.pending \ {op}, Handled(s, b, op, ok)
    PROVE  Handled(s, ReadNext(b), op, ok)
<1> DEFINE n == ReadNext(b)
<1>1. CASE n = [b EXCEPT !.read_buf_valid = FALSE]
  <2>1. /\ n \in St /\ n.inflight = b.inflight /\ n.pending = b.pending
        /\ n.done = b.done /\ n.stream_error = b.stream_error
    BY <1>1, ZenonT(60) DEF St
  <2> HIDE DEF n
  <2>2. Handled(s, n, op, ok)
    BY <2>1 DEF Handled, Over
  <2> QED
    BY <2>2 DEF n
<1>2. CASE /\ "READ" \notin b.pending /\ ~Over(b)
           /\ n = [b EXCEPT !.read_buf_valid = FALSE, !.done = @ \ {"READ"},
                            !.pending = @ \cup {"READ"}, !.inflight = @ \cup {"READ"}]
  <2>1. /\ n \in St /\ n.inflight = b.inflight \cup {"READ"} /\ n.pending = b.pending \cup {"READ"}
        /\ n.done = b.done \ {"READ"} /\ n.stream_error = b.stream_error
    <3>1. n = [done |-> b.done \ {"READ"}, pending |-> b.pending \cup {"READ"},
               inflight |-> b.inflight \cup {"READ"}, stream_error |-> b.stream_error,
               read_buf_valid |-> FALSE]
      BY <1>2, ZenonT(60) DEF St
    <3>2. /\ b.done \ {"READ"} \in SUBSET Op /\ b.pending \cup {"READ"} \in SUBSET Op
          /\ b.inflight \cup {"READ"} \in SUBSET Op /\ b.stream_error \in BOOLEAN
      BY DEF St, Op
    <3> HIDE DEF n
    <3> QED
      BY <3>1, <3>2 DEF St
  <2> HIDE DEF n
  <2>2. ok /\ ~Over(s)
    BY <1>2 DEF Handled
  <2>3. b.inflight \ s.inflight \subseteq b.pending /\ "FINISH" \notin b.pending
    BY <1>2 DEF Handled, Over
  <2>4. b.inflight \ s.inflight = {} /\ b.inflight = s.inflight /\ b.pending = s.pending \ {op}
    BY <1>2, <2>3, SMTT(60) DEF Handled
  <2>5. n.inflight \ s.inflight = {"READ"}
    BY <1>2, <2>1, <2>4
  <2>6. Handled(s, n, op, ok)
    BY <1>2, <2>1, <2>2, <2>4, <2>5 DEF Handled, Over
  <2> QED
    BY <2>6 DEF n
<1> QED
  BY <1>1, <1>2, ReadNextCases, ZenonT(60)

\* ProcessEvent with HandleRead: at most one operation is started, the status
\* after a failure or the next read otherwise.
LEMMA ProcessEventHandles ==
    ASSUME NEW s \in St, NEW op \in Op, NEW ok \in BOOLEAN,
           op # "SHUTDOWN", op \in s.pending, s.inflight \subseteq s.pending \ {op}
    PROVE  Handled(s, ProcessEvent(s, op, ok), op, ok)
<1> DEFINE a == IF ok THEN s ELSE Issue(s, "FINISH")
           b == [a EXCEPT !.pending = @ \ {op}, !.done = @ \cup {op}, !.stream_error = @ \/ ~ok]
           n == ProcessEvent(s, op, ok)
<1> SUFFICES Handled(s, n, op, ok)
  OBVIOUS
<1>1. \/ a = s /\ (ok \/ Over(s))
      \/ /\ ~ok /\ "FINISH" \notin s.pending /\ ~Over(s)
         /\ a = [s EXCEPT !.done = @ \ {"FINISH"}, !.pending = @ \cup {"FINISH"}, !.inflight = @ \cup {"FINISH"}]
  BY IssueCases, ZenonT(60) DEF Op, Over
<1> HIDE DEF a
<1>2. a \in St
  BY <1>1, ZenonT(60) DEF St, Op
<1>3. /\ b \in St /\ b.inflight = a.inflight /\ b.pending = a.pending \ {op}
      /\ b.done = a.done \cup {op} /\ b.stream_error = (a.stream_error \/ ~ok)
  BY <1>2, ZenonT(60) DEF St
<1> HIDE DEF b
<1>4. Handled(s, b, op, ok)
  <2>1. CASE a = s /\ (ok \/ Over(s))
    BY <1>3, <2>1 DEF Handled, Over
  <2>2. CASE /\ ~ok /\ "FINISH" \notin s.pending /\ ~Over(s)
             /\ a = [s EXCEPT !.done = @ \ {"FINISH"}, !.pending = @ \cup {"FINISH"}, !.inflight = @ \cup {"FINISH"}]
    <3>1. /\ a.inflight = s.inflight \cup {"FINISH"} /\ a.pending = s.pending \cup {"FINISH"}
          /\ a.done = s.done \ {"FINISH"} /\ a.stream_error = s.stream_error
      BY <2>2 DEF St
    <3>2. op # "FINISH"
      BY <2>2
    <3> QED
      BY <1>3, <2>2, <3>1, <3>2 DEF Handled, Over
  <2> QED
    BY <1>1, <2>1, <2>2
<1>5. n = CASE op = "READ" /\ HasReadCallback -> ReadNext(b)
            [] op = "READ" /\ ~HasReadCallback -> [b EXCEPT !.read_buf_valid = ok]
            [] OTHER -> b
  BY DEF ProcessEvent, a, b
<1> HIDE DEF n
<1>6. n = ReadNext(b) \/ n = [b EXCEPT !.read_buf_valid = ok] \/ n = b
  BY <1>5
<1>7. CASE n = b
  BY <1>4, <1>7
<1>8. CASE n = [b EXCEPT !.read_buf_valid = ok]
  <2>1. /\ n \in St /\ n.inflight = b.inflight /\ n.pending = b.pending
        /\ n.done = b.done /\ n.stream_error = b.stream_error
    BY <1>3, <1>8 DEF St
  <2> QED
    BY <1>4, <2>1 DEF Handled, Over
<1>9. CASE n = ReadNext(b)
  BY <1>3, <1>4, <1>9, ReadNextHandled
<1> QED
  BY <1>6, <1>7, <1>8, <1>9

-----------------------------------------------------------------------------
(***************************************************************************)
(* The completion queue.                                                   *)
(***************************************************************************)

OpsOf(q) == {q[i].op : i \in DOMAIN q}

Distinct(q) == \A i, j \in DOMAIN q : q[i].op = q[j].op => i = j

\* Taking the first completion of a queue removes its operation.
LEMMA TailQueue ==
    ASSUME NEW q \in Seq(Event), q # << >>, Distinct(q)
    PROVE  /\ Head(q) \in Event /\ Tail(q) \in Seq(Event)
           /\ 1 \in DOMAIN q /\ q[1] = Head(q)
           /\ \A i \in DOMAIN Tail(q) : i + 1 \in DOMAIN q /\ Tail(q)[i] = q[i + 1]
           /\ Head(q).op \in OpsOf(q)
           /\ OpsOf(Tail(q)) = OpsOf(q) \ {Head(q).op}
           /\ Distinct(Tail(q))
<1>1. /\ Len(q) \in Nat /\ Len(q) > 0 /\ DOMAIN q = 1 .. Len(q)
      /\ Head(q) \in Event /\ Head(q) = q[1] /\ Tail(q) \in Seq(Event)
  OBVIOUS
<1>2. /\ DOMAIN Tail(q) = 1 .. Len(q) - 1
      /\ \A i \in 1 .. Len(q) - 1 : Tail(q)[i] = q[i + 1]
  BY <1>1
<1>3. \A i \in DOMAIN Tail(q) : i \in Nat /\ i > 0 /\ i + 1 \in DOMAIN q /\ Tail(q)[i] = q[i + 1]
  BY <1>1, <1>2
<1>4. \A j \in DOMAIN q : j # 1 => j - 1 \in DOMAIN Tail(q) /\ Tail(q)[j - 1] = q[j]
  BY <1>1, <1>2
<1>5. OpsOf(Tail(q)) \subseteq OpsOf(q) \ {Head(q).op}
  BY <1>1, <1>3 DEF OpsOf, Distinct
<1>6. OpsOf(q) \ {Head(q).op} \subseteq OpsOf(Tail(q))
  BY <1>1, <1>4, SMTT(60) DEF OpsOf
<1>7. Distinct(Tail(q))
  BY <1>3 DEF Distinct
<1>8. 1 \in DOMAIN q /\ Head(q).op \in OpsOf(q)
  BY <1>1 DEF OpsOf
<1> QED
  BY <1>1, <1>3, <1>5, <1>6, <1>7, <1>8

\* A completion of an operation that has none in the queue.
LEMMA AppendQueue ==
    ASSUME NEW q \in Seq(Event), NEW e \in Event, Distinct(q), e.op \notin OpsOf(q)
    PROVE  /\ Append(q, e) \in Seq(Event)
           /\ \A i \in DOMAIN Append(q, e) : (i \in DOMAIN q /\ Append(q, e)[i] = q[i]) \/ Append(q, e)[i] = e
           /\ OpsOf(Append(q, e)) = OpsOf(q) \cup {e.op}
           /\ Distinct(Append(q, e))
<1> DEFINE r == Append(q, e)
<1>1. /\ Len(q) \in Nat /\ DOMAIN q = 1 .. Len(q)
      /\ r \in Seq(Event) /\ DOMAIN r = 1 .. Len(q) + 1
      /\ r[Len(q) + 1] = e /\ \A i \in 1 .. Len(q) : r[i] = q[i]
  OBVIOUS
<1> HIDE DEF r
<1>2. \A i \in DOMAIN r : (i \in DOMAIN q /\ r[i] = q[i]) \/ (i = Len(q) + 1 /\ r[i] = e)
  BY <1>1
<1>3. DOMAIN q \subseteq DOMAIN r /\ Len(q) + 1 \in DOMAIN r
  BY <1>1
<1>4. OpsOf(r) = OpsOf(q) \cup {e.op}
  <2>1. OpsOf(r) \subseteq OpsOf(q) \cup {e.op}
    BY <1>2 DEF OpsOf
  <2>2. OpsOf(q) \cup {e.op} \subseteq OpsOf(r)
    BY <1>1, <1>3 DEF OpsOf
  <2> QED
    BY <2>1, <2>2
<1>5. Distinct(r)
  BY <1>2 DEF Distinct, OpsOf
<1> QED
  BY <1>1, <1>2, <1>4, <1>5 DEF r

\* PendingExact in these words, now and after a step.
LEMMA PendingExactOps ==
    /\ PendingExact <=> /\ st.pending \ {"SHUTDOWN"} = st.inflight \cup OpsOf(cq)
                        /\ st.inflight \cap OpsOf(cq) = {}
                        /\ Distinct(cq)
    /\ PendingExact' <=> /\ st'.pending \ {"SHUTDOWN"} = st'.inflight \cup OpsOf(cq')
                         /\ st'.inflight \cap OpsOf(cq') = {}
                         /\ Distinct(cq')
BY DEF PendingExact, Queued, OpsOf, Distinct

-----------------------------------------------------------------------------
(***************************************************************************)
(* The invariant.                                                          *)
(***************************************************************************)

\* The constructor establishes it.
LEMMA InitIInv == Init => IInv
<1> SUFFICES ASSUME Init PROVE IInv
  OBVIOUS
<1> DEFINE s0 == [done |-> {}, pending |-> {"START"}, stream_error |-> FALSE,
                  read_buf_valid |-> FALSE, inflight |-> {"START"}]
<1>1. s0 \in St /\ s0.pending = {"START"} /\ s0.inflight = {"START"} /\ s0.done = {} /\ s0.stream_error = FALSE
  BY DEF St, Op
<1>2. st = ReadNext(s0)
  BY DEF Init
<1> HIDE DEF s0
<1>3. /\ st \in St /\ st.pending = {"START", "READ"} /\ st.inflight = {"START", "READ"}
      /\ st.done = {} /\ st.stream_error = FALSE
  <2>1. ~Over(s0) /\ "READ" \notin s0.pending
    BY <1>1 DEF Over
  <2>2. st = [s0 EXCEPT !.read_buf_valid = FALSE, !.done = @ \ {"READ"},
                        !.pending = @ \cup {"READ"}, !.inflight = @ \cup {"READ"}]
    BY <1>1, <1>2, <2>1, ReadNextCases, ZenonT(60)
  <2> QED
    BY <1>1, <2>2, ZenonT(60) DEF St, Op
<1>4. cq = << >> /\ cq \in Seq(Event) /\ DOMAIN cq = {} /\ OpsOf(cq) = {} /\ Distinct(cq)
  BY DEF Init, OpsOf, Distinct
<1>5. TypeOK
  <2>1. call \in [fn : Sync \cup Poll \cup {"none", "gone", "destroy"}, timed : BOOLEAN]
    BY DEF Init, Idle
  <2>2. reads \in [calls : Nat, ended : BOOLEAN]
    BY DEF Init
  <2>3. /\ cq_shutdown \in BOOLEAN /\ up \in BOOLEAN /\ cancelled \in BOOLEAN /\ started \in BOOLEAN
        /\ submitted = 0 /\ accepted = 0 /\ confirmed = 0
    BY ZenonT(60) DEF Init
  <2> QED
    BY <1>3, <1>4, <2>1, <2>2, <2>3 DEF TypeOK, St, Event
<1>6. PendingExact
  BY <1>3, <1>4, PendingExactOps
<1>7. ShutdownKnown /\ ErrorKnown /\ FailuresFinal /\ ReadsOver
  BY <1>3, <1>4 DEF Init, ShutdownKnown, ErrorKnown, FailuresFinal, ReadsOver
<1>8. WriteAccounted
  BY <1>3, <1>4 DEF Init, WriteAccounted
<1> QED
  BY <1>5, <1>6, <1>7, <1>8 DEF IInv

\* Issuing WRITE, WRITES_DONE or FINISH on behalf of the user.
LEMMA IssueStep ==
    ASSUME IInv, NEW op \in {"WRITE", "WRITES_DONE", "FINISH"},
           st' = Issue(st, op), CountWrite(op),
           call' \in [fn : Sync \cup Poll \cup {"none", "gone", "destroy"}, timed : BOOLEAN],
           UNCHANGED <<grpcVars, reads, started, accepted, confirmed>>
    PROVE  IInv'
<1> USE DEF grpcVars
<1>0. st \in St /\ op \in Op
  BY DEF IInv, TypeOK, St, Op
<1>1. CASE IssueError(st, op) # "OK" /\ st' = st
  <2>1. submitted' = submitted
    BY <1>1 DEF CountWrite
  <2> QED
    BY <1>1, <2>1 DEF IInv, TypeOK, PendingExact, Queued, ShutdownKnown, ErrorKnown,
                      FailuresFinal, WriteAccounted, ReadsOver, Over
<1>2. CASE /\ IssueError(st, op) = "OK" /\ op \notin st.pending /\ ~Over(st)
           /\ st' = [st EXCEPT !.done = @ \ {op}, !.pending = @ \cup {op}, !.inflight = @ \cup {op}]
  <2>1. /\ st' \in St /\ st'.done = st.done \ {op} /\ st'.pending = st.pending \cup {op}
        /\ st'.inflight = st.inflight \cup {op} /\ st'.stream_error = st.stream_error
    <3>1. st.done \ {op} \subseteq Op /\ st.pending \cup {op} \subseteq Op /\ st.inflight \cup {op} \subseteq Op
      BY <1>0 DEF St
    <3> QED
      BY <1>0, <1>2, <3>1, ZenonT(60) DEF St
  <2>2. ~st.stream_error /\ ~cq_shutdown /\ ~reads.ended
    BY <1>2 DEF IInv, ErrorKnown, ShutdownKnown, ReadsOver, Over, TypeOK
  <2>3. submitted' = IF op = "WRITE" THEN submitted + 1 ELSE submitted
    BY <1>2 DEF CountWrite
  <2>4. op = "WRITE" => submitted = accepted
    BY <1>2, <2>2 DEF IInv, WriteAccounted
  <2>5. op \notin OpsOf(cq)
    BY <1>2, PendingExactOps DEF IInv
  <2>6. TypeOK'
    <3>1. /\ submitted' \in Nat /\ confirmed <= accepted /\ accepted <= submitted' /\ submitted' <= accepted + 1
      BY <2>3, <2>4 DEF IInv, TypeOK
    <3> QED
      BY <2>1, <3>1 DEF IInv, TypeOK, St
  <2>7. PendingExact'
    BY <2>1, <2>5, PendingExactOps DEF IInv
  <2>8. ShutdownKnown' /\ ErrorKnown' /\ FailuresFinal' /\ ReadsOver'
    BY <2>1, <2>2 DEF IInv, ShutdownKnown, ErrorKnown, FailuresFinal, ReadsOver
  <2>9. WriteAccounted'
    <3>1. CASE op = "WRITE"
      BY <2>1, <2>3, <2>4, <2>5, <3>1 DEF WriteAccounted, OpsOf
    <3>2. CASE op # "WRITE"
      BY <2>1, <2>3, <3>2 DEF IInv, WriteAccounted
    <3> QED
      BY <3>1, <3>2
  <2> QED
    BY <2>6, <2>7, <2>8, <2>9 DEF IInv
<1> QED
  BY <1>0, <1>1, <1>2, IssueCases, ZenonT(60)

\* What GotEvent does to the client: it handles the first completion.
LEMMA GotEventHandles ==
    ASSUME IInv, GotEvent
    PROVE  /\ cq # << >> /\ cq' = Tail(cq)
           /\ Head(cq) \in Event /\ Head(cq).op \in OpsOf(cq) /\ Head(cq).op # "SHUTDOWN"
           /\ Handled(st, st', Head(cq).op, Head(cq).ok)
<1> DEFINE e == Head(cq)
           s == ProcessEvent(st, e.op, e.ok)
<1>1. cq # << >> /\ cq' = Tail(cq) /\ st' \in {s, TakeRead(s)}
  BY DEF GotEvent
<1>2. st \in St /\ cq \in Seq(Event) /\ Distinct(cq)
  BY PendingExactOps DEF IInv, TypeOK, St, Event
<1>3. e \in Event /\ e.op \in OpsOf(cq)
  BY <1>1, <1>2, TailQueue
<1> HIDE DEF e
<1>4. /\ e.op \in Op /\ e.ok \in BOOLEAN /\ e.op \in st.pending /\ e.op # "SHUTDOWN"
      /\ st.inflight \subseteq st.pending \ {e.op}
  BY <1>3, PendingExactOps DEF IInv, Event
<1>5. Handled(st, s, e.op, e.ok)
  BY <1>2, <1>4, ProcessEventHandles
<1> HIDE DEF s
<1>6. Handled(st, TakeRead(s), e.op, e.ok)
  <2>1. s \in St
    BY <1>5 DEF Handled
  <2> QED
    BY <1>2, <1>4, <1>5, <2>1, ReadNextHandled DEF TakeRead
<1>7. Handled(st, st', e.op, e.ok)
  BY <1>1, <1>5, <1>6
<1> QED
  BY <1>1, <1>3, <1>4, <1>7 DEF e

\* A completion is taken from the queue.
LEMMA GotEventStep == IInv /\ GotEvent => IInv'
<1> SUFFICES ASSUME IInv, GotEvent PROVE IInv'
  OBVIOUS
<1> DEFINE e == Head(cq)
           new == st'.inflight \ st.inflight
<1>1. /\ cq # << >> /\ cq' = Tail(cq) /\ e \in Event /\ e.op \in OpsOf(cq) /\ e.op # "SHUTDOWN"
      /\ Handled(st, st', e.op, e.ok)
  BY GotEventHandles
<1>2. st \in St /\ cq \in Seq(Event) /\ Distinct(cq)
  BY PendingExactOps DEF IInv, TypeOK, St, Event
<1>3. /\ cq' \in Seq(Event) /\ 1 \in DOMAIN cq /\ cq[1] = e
      /\ \A i \in DOMAIN cq' : i + 1 \in DOMAIN cq /\ cq'[i] = cq[i + 1]
      /\ OpsOf(cq') = OpsOf(cq) \ {e.op} /\ Distinct(cq')
  BY <1>1, <1>2, TailQueue
<1>4. /\ UNCHANGED <<cq_shutdown, up, cancelled, submitted, accepted>>
      /\ reads' = IF e.op = "READ" /\ HasReadCallback THEN [calls |-> reads.calls + 1, ended |-> ~e.ok] ELSE reads
      /\ started' = (started \/ (e.op = "START" /\ e.ok))
      /\ confirmed' = confirmed \/ (confirmed' = submitted /\ e.op = "WRITE" /\ e.ok)
      /\ call' = call \/ call' = Idle
  BY DEF GotEvent, Return, OpOf
<1> HIDE DEF e
<1>5. /\ st' \in St /\ st.inflight \subseteq st'.inflight
      /\ new \subseteq {"FINISH"} \/ new \subseteq {"READ"}
      /\ st'.pending = (st.pending \ {e.op}) \cup new /\ new \cap (st.pending \ {e.op}) = {}
      /\ Over(st) => new = {} /\ Over(st')
      /\ ~e.ok => "READ" \notin new /\ Over(st')
      /\ "SHUTDOWN" \in st.done \cup st.pending => "SHUTDOWN" \in st'.done \cup st'.pending
      /\ st'.stream_error = (st.stream_error \/ ~e.ok)
  BY <1>1 DEF Handled
<1>6. e.op = "WRITE" /\ e.ok => accepted = submitted
  BY <1>3 DEF IInv, WriteAccounted
<1>7. ~e.ok => ~up
  BY <1>3 DEF IInv, FailuresFinal
<1>8. TypeOK'
  <2>1. call' \in [fn : Sync \cup Poll \cup {"none", "gone", "destroy"}, timed : BOOLEAN]
    <3>1. Idle \in [fn : Sync \cup Poll \cup {"none", "gone", "destroy"}, timed : BOOLEAN]
      BY DEF Idle
    <3>2. call \in [fn : Sync \cup Poll \cup {"none", "gone", "destroy"}, timed : BOOLEAN]
      BY DEF IInv, TypeOK
    <3> QED
      BY <1>4, <3>1, <3>2
  <2>2. reads' \in [calls : Nat, ended : BOOLEAN]
    <3>1. e.ok \in BOOLEAN /\ reads \in [calls : Nat, ended : BOOLEAN] /\ reads.calls \in Nat
      BY <1>1 DEF Event, IInv, TypeOK
    <3> QED
      BY <1>4, <3>1
  <2>3. /\ confirmed' \in Nat /\ confirmed' <= accepted'
        /\ accepted' <= submitted' /\ submitted' <= accepted' + 1 /\ submitted' \in Nat /\ accepted' \in Nat
    BY <1>4, <1>6 DEF IInv, TypeOK
  <2>4. started' \in BOOLEAN /\ cq_shutdown' \in BOOLEAN /\ up' \in BOOLEAN /\ cancelled' \in BOOLEAN
    BY <1>4 DEF IInv, TypeOK
  <2> QED
    BY <1>3, <1>5, <2>1, <2>2, <2>3, <2>4, ZenonT(60) DEF TypeOK, St, Event
<1>9. PendingExact'
  <2>1. /\ st.pending \ {"SHUTDOWN"} = st.inflight \cup OpsOf(cq) /\ st.inflight \cap OpsOf(cq) = {}
    BY PendingExactOps DEF IInv
  <2>2. st'.inflight = st.inflight \cup new /\ "SHUTDOWN" \notin new
    BY <1>5
  <2>3. st'.pending \ {"SHUTDOWN"} = st'.inflight \cup OpsOf(cq')
    BY <1>1, <1>3, <1>5, <2>1, <2>2
  <2>4. new \cap OpsOf(cq') = {}
    BY <1>3, <1>5, <2>1
  <2>5. st'.inflight \cap OpsOf(cq') = {}
    BY <1>3, <2>1, <2>2, <2>4
  <2> QED
    BY <1>3, <2>3, <2>5, PendingExactOps
<1>10. ShutdownKnown'
  BY <1>4, <1>5 DEF IInv, ShutdownKnown
<1>11. ErrorKnown'
  BY <1>4, <1>5, <1>7, ZenonT(60) DEF IInv, ErrorKnown
<1>12. FailuresFinal'
  BY <1>3, <1>4 DEF IInv, FailuresFinal
<1>13. WriteAccounted'
  <2>1. "WRITE" \notin new
    BY <1>5
  <2>2. "WRITE" \in st'.inflight => submitted' = accepted' + 1
    BY <1>4, <2>1 DEF IInv, WriteAccounted
  <2>3. \A i \in DOMAIN cq' : cq'[i].op = "WRITE" /\ cq'[i].ok => accepted' = submitted'
    BY <1>3, <1>4 DEF IInv, WriteAccounted
  <2>4. "WRITE" \notin st'.pending /\ ~st'.stream_error => accepted' = submitted'
    BY <1>4, <1>5, <1>6, ZenonT(60) DEF IInv, WriteAccounted
  <2> QED
    BY <2>2, <2>3, <2>4 DEF WriteAccounted
<1>14. ReadsOver'
  <2>1. CASE e.op = "READ" /\ HasReadCallback
    <3>1. reads'.ended = ~e.ok
      BY <1>4, <2>1
    <3> QED
      BY <1>5, <2>1, <3>1, ZenonT(60) DEF ReadsOver
  <2>2. CASE ~(e.op = "READ" /\ HasReadCallback)
    BY <1>4, <1>5, <2>2 DEF IInv, ReadsOver
  <2> QED
    BY <2>1, <2>2
<1> QED
  BY <1>8, <1>9, <1>10, <1>11, <1>12, <1>13, <1>14 DEF IInv

\* gRPC completes an operation.
LEMMA CompleteStep ==
    ASSUME IInv, NEW op \in Op, NEW ok \in BOOLEAN, Complete(op, ok)
    PROVE  IInv'
<1> DEFINE e == [op |-> op, ok |-> ok]
<1>1. /\ op \in st.inflight /\ (IF op = "FINISH" THEN ~up ELSE ok = up)
      /\ st' = [st EXCEPT !.inflight = @ \ {op}] /\ cq' = Append(cq, e)
      /\ accepted' = IF op = "WRITE" /\ ok THEN submitted ELSE accepted
      /\ UNCHANGED <<cq_shutdown, up, cancelled, call, result, reads, started, submitted, confirmed>>
  BY DEF Complete
<1>2. st \in St /\ cq \in Seq(Event) /\ Distinct(cq)
  BY PendingExactOps DEF IInv, TypeOK, St, Event
<1>3. e \in Event /\ e.op = op /\ e.ok = ok
  BY DEF Event
<1>4. op \notin OpsOf(cq)
  BY <1>1, PendingExactOps DEF IInv
<1>5. /\ cq' \in Seq(Event) /\ OpsOf(cq') = OpsOf(cq) \cup {op} /\ Distinct(cq')
      /\ \A i \in DOMAIN cq' : (i \in DOMAIN cq /\ cq'[i] = cq[i]) \/ cq'[i] = e
  BY <1>1, <1>2, <1>3, <1>4, AppendQueue
<1> HIDE DEF e
<1>6. /\ st' \in St /\ st'.done = st.done /\ st'.pending = st.pending
      /\ st'.inflight = st.inflight \ {op} /\ st'.stream_error = st.stream_error
  BY <1>1, <1>2 DEF St
<1>7. TypeOK'
  <2>1. /\ accepted' \in Nat /\ confirmed' <= accepted' /\ accepted' <= submitted' /\ submitted' <= accepted' + 1
    BY <1>1 DEF IInv, TypeOK
  <2> QED
    BY <1>1, <1>5, <1>6, <2>1, ZenonT(60) DEF IInv, TypeOK, St, Event
<1>8. PendingExact'
  BY <1>1, <1>4, <1>5, <1>6, PendingExactOps DEF IInv
<1>9. ShutdownKnown' /\ ErrorKnown' /\ ReadsOver'
  BY <1>1, <1>6 DEF IInv, ShutdownKnown, ErrorKnown, ReadsOver, Over
<1>10. FailuresFinal'
  <2>1. ~ok => ~up
    BY <1>1
  <2> QED
    BY <1>1, <1>3, <1>5, <2>1 DEF IInv, FailuresFinal
<1>11. WriteAccounted'
  <2>1. CASE op = "WRITE"
    <3>1. \A i \in DOMAIN cq : cq[i].op # "WRITE"
      BY <1>4, <2>1 DEF OpsOf
    <3>2. "WRITE" \in st.pending
      BY <1>1, <2>1, PendingExactOps DEF IInv
    <3> QED
      BY <1>1, <1>3, <1>5, <1>6, <2>1, <3>1, <3>2 DEF WriteAccounted
  <2>2. CASE op # "WRITE"
    BY <1>1, <1>3, <1>5, <1>6, <2>2 DEF IInv, WriteAccounted
  <2> QED
    BY <2>1, <2>2
<1> QED
  BY <1>7, <1>8, <1>9, <1>10, <1>11 DEF IInv

\* Steps that leave the operations alone and may set SHUTDOWN.
LEMMA FlagStep ==
    ASSUME IInv, UNCHANGED <<cq, reads, historyVars>>,
           st' \in St, st'.inflight = st.inflight, st'.stream_error = st.stream_error,
           st.done \subseteq st'.done, st'.done \subseteq st.done \cup {"SHUTDOWN"},
           st.pending \subseteq st'.pending, st'.pending \subseteq st.pending \cup {"SHUTDOWN"},
           cq_shutdown' => cq_shutdown \/ "SHUTDOWN" \in st'.done \cup st'.pending,
           up' => up, cq_shutdown' \in BOOLEAN, up' \in BOOLEAN, cancelled' \in BOOLEAN,
           call' \in [fn : Sync \cup Poll \cup {"none", "gone", "destroy"}, timed : BOOLEAN]
    PROVE  IInv'
<1>1. TypeOK'
  BY DEF IInv, TypeOK, St, historyVars
<1>2. PendingExact'
  <2>1. st'.pending \ {"SHUTDOWN"} = st.pending \ {"SHUTDOWN"}
    OBVIOUS
  <2> QED
    BY <2>1, PendingExactOps DEF IInv
<1>3. Over(st) => Over(st')
  BY DEF Over
<1>4. ShutdownKnown' /\ ErrorKnown' /\ FailuresFinal' /\ ReadsOver'
  BY <1>3 DEF IInv, ShutdownKnown, ErrorKnown, FailuresFinal, ReadsOver
<1>5. WriteAccounted'
  BY DEF IInv, WriteAccounted, historyVars
<1> QED
  BY <1>1, <1>2, <1>4, <1>5 DEF IInv

CallType == [fn : Sync \cup Poll \cup {"none", "gone", "destroy"}, timed : BOOLEAN]

\* Every step preserves the invariant.
LEMMA NextIInv == IInv /\ [Next]_vars => IInv'
<1> SUFFICES ASSUME IInv, [Next]_vars PROVE IInv'
  OBVIOUS
<1> USE DEF grpcVars, CallType
<1>1. /\ st \in St /\ call \in CallType
      /\ cq_shutdown \in BOOLEAN /\ up \in BOOLEAN /\ cancelled \in BOOLEAN
  BY DEF IInv, TypeOK, St
<1>2. Idle \in CallType /\ Gone \in CallType /\ [fn |-> "destroy", timed |-> TRUE] \in CallType
  BY DEF Idle, Gone
<1>3. \A fn \in Sync \cup Poll : [fn |-> fn, timed |-> fn \notin Untimed] \in CallType
  OBVIOUS
<1>4. \A fn \in Usage : OpOf(fn) \in {"WRITE", "WRITES_DONE", "FINISH"}
  BY DEF OpOf
<1> HIDE DEF CallType
<1>5. ASSUME NEW fn \in Usage, DoAsync(fn) PROVE IInv'
  BY <1>2, <1>4, <1>5, IssueStep DEF DoAsync, Return, CallType
<1>6. ASSUME NEW fn \in Usage, DoSync(fn) PROVE IInv'
  <2>1. call' \in CallType
    BY <1>2, <1>3, <1>6 DEF DoSync, Return
  <2> QED
    BY <1>4, <1>6, <2>1, IssueStep DEF DoSync, CallType
<1>7. ASSUME NEW fn \in Usage, DoPoll(fn) PROVE IInv'
  <2>1. call' \in CallType
    BY <1>2, <1>3, <1>7 DEF DoPoll, Return
  <2> QED
    BY <1>1, <1>7, <2>1, FlagStep DEF DoPoll, CallType
<1>8. ASSUME st' = IF "SHUTDOWN" \in st.done THEN st ELSE [st EXCEPT !.pending = @ \cup {"SHUTDOWN"}]
      PROVE  /\ st' \in St /\ st'.inflight = st.inflight /\ st'.stream_error = st.stream_error
             /\ st'.done = st.done /\ st.pending \subseteq st'.pending
             /\ st'.pending \subseteq st.pending \cup {"SHUTDOWN"} /\ "SHUTDOWN" \in st'.done \cup st'.pending
  <2>1. CASE "SHUTDOWN" \in st.done
    BY <1>1, <1>8, <2>1
  <2>2. CASE "SHUTDOWN" \notin st.done
    BY <1>1, <1>8, <2>2 DEF St, Op
  <2> QED
    BY <2>1, <2>2
<1>9. CASE DoShutdown
  BY <1>1, <1>2, <1>8, <1>9, FlagStep DEF DoShutdown, Shutdown, Return, CallType
<1>10. CASE Destroy
  BY <1>1, <1>2, <1>8, <1>10, FlagStep DEF Destroy, Shutdown, CallType
<1>11. CASE GotEvent
  BY <1>11, GotEventStep
<1>12. CASE Timeout
  BY <1>1, <1>2, <1>12, FlagStep DEF Timeout, NoEvent, Return, CallType
<1>13. CASE GotShutdown
  <2>1. /\ st' \in St /\ st'.inflight = st.inflight /\ st'.stream_error = st.stream_error
        /\ st'.done = st.done \cup {"SHUTDOWN"} /\ st'.pending = st.pending
    BY <1>1, <1>13 DEF GotShutdown, St, Op
  <2> QED
    BY <1>1, <1>2, <1>13, <2>1, FlagStep DEF GotShutdown, NoEvent, Return, CallType
<1>14. CASE TryCancel
  BY <1>1, <1>14, FlagStep DEF TryCancel, CallType
<1>15. CASE Break
  BY <1>1, <1>15, FlagStep, ZenonT(60) DEF Break, CallType
<1>16. ASSUME NEW op \in Op, NEW ok \in BOOLEAN, Complete(op, ok) PROVE IInv'
  BY <1>16, CompleteStep
<1>17. CASE UNCHANGED vars
  BY <1>1, <1>17, FlagStep DEF vars, CallType, historyVars
<1> QED
  BY <1>5, <1>6, <1>7, <1>9, <1>10, <1>11, <1>12, <1>13, <1>14, <1>15, <1>16, <1>17
     DEF Next, User, Progress, Grpc

\* The invariant holds in every state.
LEMMA Invariance == Spec => []IInv
BY InitIInv, NextIInv, PTL DEF Spec

\* However completions succeed, fail and overtake each other, the pending flags
\* of the client tell exactly which completions gRPC owes (DoAsync, ProcessEvent).
THEOREM PendingIsExact == Spec => []PendingExact
<1>1. IInv => PendingExact
  BY DEF IInv
<1> QED
  BY <1>1, Invariance, PTL

-----------------------------------------------------------------------------
(***************************************************************************)
(* What a step may never do.                                               *)
(***************************************************************************)

\* Only GotEvent and the issuing calls start operations.
LEMMA StartedBy ==
    ASSUME IInv, [Next]_vars, st'.inflight \ st.inflight # {}
    PROVE  \/ GotEvent
           \/ \E op \in {"WRITE", "WRITES_DONE", "FINISH"} : st' = Issue(st, op)
<1>1. \A fn : OpOf(fn) \in {"WRITE", "WRITES_DONE", "FINISH"}
  BY DEF OpOf
<1>2. st \in St
  BY DEF IInv, TypeOK, St
<1>3. ASSUME NEW fn \in Usage, DoAsync(fn) \/ DoSync(fn) PROVE st' = Issue(st, OpOf(fn))
  BY <1>3 DEF DoAsync, DoSync
<1>4. ASSUME NEW fn \in Usage, DoPoll(fn) PROVE FALSE
  BY <1>4 DEF DoPoll
<1>5. CASE DoShutdown \/ Destroy \/ GotShutdown
  BY <1>2, <1>5 DEF DoShutdown, Destroy, GotShutdown, Shutdown, St
<1>6. CASE Timeout \/ TryCancel \/ Break \/ UNCHANGED vars
  BY <1>6 DEF Timeout, TryCancel, Break, vars
<1>7. ASSUME NEW op \in Op, NEW ok \in BOOLEAN, Complete(op, ok) PROVE FALSE
  BY <1>2, <1>7 DEF Complete, St
<1> QED
  BY <1>1, <1>3, <1>4, <1>5, <1>6, <1>7 DEF Next, User, Progress, Grpc

\* Nothing is started on a queue that was shut down or on a stream whose status
\* was requested, and the status is requested alone (DoAsync, ReadNext).
THEOREM NothingStartsAfterFinish == Spec => NothingAfterFinish
<1> DEFINE new == st'.inflight \ st.inflight
           A == /\ cq_shutdown \/ "FINISH" \in st.done \cup st.pending => new = {}
                /\ "FINISH" \in new => new = {"FINISH"}
<1>1. IInv /\ [Next]_vars => A
  <2> SUFFICES ASSUME IInv, [Next]_vars, new # {} PROVE A
    OBVIOUS
  <2>1. st \in St /\ (cq_shutdown \/ "FINISH" \in st.done \cup st.pending => Over(st))
    BY DEF IInv, TypeOK, St, ShutdownKnown, Over
  <2>2. CASE GotEvent
    BY <2>1, <2>2, GotEventHandles, SMTT(60) DEF Handled
  <2>3. ASSUME NEW op \in {"WRITE", "WRITES_DONE", "FINISH"}, st' = Issue(st, op) PROVE A
    <3>1. op \in Op
      BY DEF Op
    <3>2. CASE st' = st
      BY <3>2
    <3>3. CASE ~Over(st) /\ st' = [st EXCEPT !.done = @ \ {op}, !.pending = @ \cup {op}, !.inflight = @ \cup {op}]
      <4>1. st'.inflight = st.inflight \cup {op}
        BY <2>1, <3>3 DEF St
      <4> QED
        BY <2>1, <3>3, <4>1
    <3> QED
      BY <2>1, <2>3, <3>1, <3>2, <3>3, IssueCases, ZenonT(60)
  <2> QED
    BY <2>2, <2>3, StartedBy
<1>2. IInv /\ [Next]_vars => [A]_vars
  BY <1>1
<1> QED
  BY <1>2, Invariance, PTL DEF Spec, NothingAfterFinish

\* Once the read callback was given nullptr it is not called again (HandleRead).
THEOREM OneEndOfReads == Spec => NoReadAfterEnd
<1>1. IInv /\ [Next]_vars => [reads.ended => reads' = reads]_vars
  <2> SUFFICES ASSUME IInv, [Next]_vars, reads.ended PROVE reads' = reads
    OBVIOUS
  <2>1. CASE GotEvent
    <3>1. Head(cq).op \in st.pending
      BY <2>1, GotEventHandles, PendingExactOps DEF IInv
    <3>2. Head(cq).op # "READ"
      BY <3>1 DEF IInv, ReadsOver
    <3> QED
      BY <2>1, <3>2 DEF GotEvent
  <2>2. CASE ~GotEvent
    BY <2>2, ZenonT(60) DEF Next, User, Progress, Grpc, DoAsync, DoSync, DoPoll, DoShutdown, Destroy, Timeout,
                GotShutdown, NoEvent, TryCancel, Break, Complete, vars
  <2> QED
    BY <2>1, <2>2
<1> QED
  BY <1>1, Invariance, PTL DEF Spec, NoReadAfterEnd

-----------------------------------------------------------------------------
(***************************************************************************)
(* The refinement.                                                         *)
(***************************************************************************)

\* A duplex client is a message stream: every step is one of MessageStream's, or
\* leaves the stream as it is.
THEOREM DuplexImplementsStream == Spec => ImplementsStream
<1>1. Init => Stream!StreamInit
  <2> SUFFICES ASSUME Init PROVE ~st.stream_error /\ st.stream_error \in BOOLEAN
    BY ZenonT(60) DEF Init, Stream!StreamInit
  <2> QED
    BY InitIInv DEF IInv, ErrorKnown, TypeOK, Init
<1>2. IInv /\ [Next]_vars => [Stream!StreamNext]_(Stream!streamVars)
  <2> SUFFICES ASSUME IInv, [Next]_vars PROVE [Stream!StreamNext]_(Stream!streamVars)
    OBVIOUS
  <2> USE DEF Stream!StreamNext, Stream!streamVars
  <2>1. st \in St /\ submitted \in Nat /\ accepted \in Nat
    BY DEF IInv, TypeOK, St
  <2>2. ASSUME NEW op \in {"WRITE", "WRITES_DONE", "FINISH"}, st' = Issue(st, op), CountWrite(op),
               UNCHANGED <<accepted, confirmed>>
        PROVE  [Stream!StreamNext]_(Stream!streamVars)
    <3>1. op \in Op
      BY DEF Op
    <3>2. CASE IssueError(st, op) # "OK" /\ st' = st
      BY <2>2, <3>2 DEF CountWrite
    <3>3. CASE /\ IssueError(st, op) = "OK" /\ op \notin st.pending /\ ~Over(st)
               /\ st' = [st EXCEPT !.done = @ \ {op}, !.pending = @ \cup {op}, !.inflight = @ \cup {op}]
      <4>1. st'.stream_error = st.stream_error /\ ~st.stream_error
        BY <2>1, <3>3 DEF St, IInv, ErrorKnown
      <4>2. CASE op = "WRITE"
        <5>1. submitted = accepted /\ submitted' = submitted + 1
          BY <2>2, <3>3, <4>1, <4>2 DEF IInv, WriteAccounted, CountWrite
        <5> QED
          BY <2>2, <4>1, <5>1 DEF Stream!Submit
      <4>3. CASE op # "WRITE"
        BY <2>2, <4>1, <4>3 DEF CountWrite
      <4> QED
        BY <4>2, <4>3
    <3> QED
      BY <2>1, <2>2, <3>1, <3>2, <3>3, IssueCases, ZenonT(60)
  <2>3. ASSUME NEW fn \in Usage, DoAsync(fn) \/ DoSync(fn) PROVE [Stream!StreamNext]_(Stream!streamVars)
    <3>1. OpOf(fn) \in {"WRITE", "WRITES_DONE", "FINISH"}
      BY DEF OpOf
    <3> QED
      BY <2>2, <2>3, <3>1 DEF DoAsync, DoSync
  <2>4. CASE GotEvent
    <3> DEFINE e == Head(cq)
    <3>1. /\ st'.stream_error = (st.stream_error \/ ~e.ok) /\ e.ok \in BOOLEAN /\ st.stream_error \in BOOLEAN
      BY <2>1, <2>4, GotEventHandles DEF Handled, Event, St
    <3>2. /\ UNCHANGED <<submitted, accepted>>
          /\ confirmed' = confirmed \/ (confirmed' = submitted /\ e.op = "WRITE" /\ e.ok)
      BY <2>4 DEF GotEvent, OpOf
    <3>3. e.op = "WRITE" /\ e.ok => accepted = submitted
      <4>1. cq \in Seq(Event) /\ cq # << >> /\ Distinct(cq)
        BY <2>4, GotEventHandles, PendingExactOps DEF IInv, TypeOK, Event
      <4>2. 1 \in DOMAIN cq /\ cq[1] = e
        BY <4>1, TailQueue
      <4> QED
        BY <4>2 DEF IInv, WriteAccounted
    <3> HIDE DEF e
    <3>4. CASE e.ok
      BY <3>1, <3>2, <3>3, <3>4 DEF Stream!Confirm
    <3>5. CASE ~e.ok
      BY <3>1, <3>2, <3>5, ZenonT(60) DEF Stream!Close
    <3> QED
      BY <3>1, <3>4, <3>5
  <2>5. ASSUME NEW op \in Op, NEW ok \in BOOLEAN, Complete(op, ok) PROVE [Stream!StreamNext]_(Stream!streamVars)
    <3>1. /\ st'.stream_error = st.stream_error /\ UNCHANGED <<submitted, confirmed>>
          /\ accepted' = IF op = "WRITE" /\ ok THEN submitted ELSE accepted
      BY <2>1, <2>5 DEF Complete, St
    <3>2. CASE op = "WRITE" /\ ok
      <4>1. up /\ "WRITE" \in st.inflight
        BY <2>5, <3>2, ZenonT(60) DEF Complete, IInv, TypeOK
      <4>2. ~st.stream_error /\ submitted = accepted + 1
        BY <4>1 DEF IInv, ErrorKnown, WriteAccounted
      <4> QED
        BY <2>1, <3>1, <3>2, <4>2 DEF Stream!Accept
    <3>3. CASE ~(op = "WRITE" /\ ok)
      BY <3>1, <3>3
    <3> QED
      BY <3>2, <3>3
  <2>6. CASE DoShutdown \/ Destroy \/ GotShutdown
    <3>1. st'.stream_error = st.stream_error /\ UNCHANGED historyVars
      BY <2>1, <2>6 DEF DoShutdown, Destroy, GotShutdown, NoEvent, Shutdown, St
    <3> QED
      BY <3>1 DEF historyVars
  <2>7. CASE Timeout \/ TryCancel \/ Break \/ UNCHANGED vars \/ \E fn \in Usage : DoPoll(fn)
    <3>1. UNCHANGED <<st, historyVars>>
      BY <2>7 DEF Timeout, NoEvent, TryCancel, Break, vars, DoPoll
    <3> QED
      BY <3>1 DEF historyVars
  <2> QED
    BY <2>3, <2>4, <2>5, <2>6, <2>7 DEF Next, User, Progress, Grpc
<1> QED
  BY <1>1, <1>2, Invariance, PTL DEF Spec, ImplementsStream, Stream!StreamSpec

=============================================================================
