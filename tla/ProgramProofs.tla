---------------------------- MODULE ProgramProofs ----------------------------
(***************************************************************************)
(* How the program starts and how it ends: the command line, whatever its  *)
(* length and its words, and the order in which ~CollectorService stops    *)
(* what it has started.                                                    *)
(***************************************************************************)
EXTENDS Lifecycle, OptionParser, WellFoundedInduction, TLAPS

USE SMTT(60)

-----------------------------------------------------------------------------
(***************************************************************************)
(* The order of ~CollectorService keeps the system inspector alive for as  *)
(* long as anything uses it, whatever the number of polls for Sensor and   *)
(* the frames of a stack trace.                                            *)
(***************************************************************************)

\* The steps of the destructor after a thread was joined or the server closed.
AfterExporter == {"clean up", "stop handlers", "hung", "exited"}
AfterNotifier == AfterExporter \cup {"stop exporter", "join exporter"}
AfterServer == AfterNotifier \cup {"cancel", "stop notifier", "join notifier"}
AfterLoader == AfterServer \cup {"close server"}

\* The steps of the threads.
Steps == {"none", "pause", "work", "done", "reset", "wait", "poll", "open", "start", "finish"}

\* The steps from which the inspector's going away can be seen.
AfterInspector == {"stop handlers", "hung", "exited", "aborting", "crashed", "killed"}

\* What the destructor has ended stays ended, and the inspector goes last.  The stop
\* of the signal handlers may end in a crash, when all of that has been ended too.
IInv ==
    /\ thread \in [Loops -> [pc : Steps, stop : BOOLEAN]]
    /\ server \in [open : BOOLEAN, busy : BOOLEAN]
    /\ main \in AfterLoader => thread["loader"].pc = "none"
    /\ main \in AfterServer => ~server.open /\ ~server.busy
    /\ main \in AfterNotifier => thread["notifier"].pc = "none"
    /\ main \in AfterExporter => thread["exporter"].pc = "none"
    /\ inspector = "gone" =>
          /\ main \in AfterInspector /\ ~server.open /\ ~server.busy
          /\ thread["loader"].pc = "none" /\ thread["notifier"].pc = "none" /\ thread["exporter"].pc = "none"

-----------------------------------------------------------------------------
\* Nothing runs at first.
LEMMA InitIInv == Init => IInv
BY DEF Init, IInv, Loops, Steps, AfterLoader, AfterServer, AfterNotifier, AfterExporter

\* A step of a thread that was started: it is not joined by it.
LEMMA GotoStep ==
    ASSUME IInv, NEW t \in Loops, NEW pc \in Steps, thread[t].pc # "none", Goto(t, pc),
           UNCHANGED <<main, inspector, server>>
    PROVE  IInv'
<1>1. /\ thread[t].pc # "none" /\ thread' \in [Loops -> [pc : Steps, stop : BOOLEAN]]
      /\ \A u \in Loops \ {t} : thread'[u] = thread[u]
  BY DEF IInv, Goto
<1>2. "loader" \in Loops /\ "notifier" \in Loops /\ "exporter" \in Loops
  BY DEF Loops
<1> QED
  BY <1>1, <1>2 DEF IInv

\* Every step of the main thread keeps the order.
LEMMA MainIInv == IInv /\ MainStep => IInv'
<1> SUFFICES ASSUME IInv, MainStep PROVE IInv'
  OBVIOUS
<1> USE DEF AfterLoader, AfterServer, AfterNotifier, AfterExporter, AfterInspector, Loops, Steps
<1>1. CASE Connect
  BY <1>1, ZenonT(60) DEF Connect, Fatal, IInv
<1>2. CASE RegisterHandlers
  BY <1>2, ZenonT(60) DEF RegisterHandlers, IInv
<1>3. CASE InitKernel
  BY <1>3, ZenonT(60) DEF InitKernel, SetupThrows, IInv
<1>4. CASE AbortHandler
  BY <1>4, ZenonT(60) DEF AbortHandler, IInv
<1>5. ASSUME NEW t \in Loops, StartThread(t), UNCHANGED <<inspector, server>>,
             main' \notin AfterLoader, main \notin AfterInspector
      PROVE  IInv'
  <2>1. thread' \in [Loops -> [pc : Steps, stop : BOOLEAN]]
    BY <1>5, ZenonT(60) DEF StartThread, IInv
  <2> QED
    BY <1>5, <2>1, ZenonT(60) DEF IInv
<1>5a. CASE StartLoader \/ StartNotifier \/ StartExporter
  BY <1>5, <1>5a, ZenonT(60) DEF StartLoader, StartNotifier, StartExporter, Main
<1>6. CASE StartInspector
  BY <1>6, ZenonT(60) DEF StartInspector, Main, IInv
<1>7. CASE LeaveRun
  BY <1>7, ZenonT(60) DEF LeaveRun, Main, IInv
<1>8. CASE StopLoader
  BY <1>8, ZenonT(60) DEF StopLoader, StopThread, Main, IInv
<1>9. CASE Join("loader", "join loader", "close server")
  BY <1>9, ZenonT(60) DEF Join, Main, IInv
<1>10. CASE CloseServer
  BY <1>10, ZenonT(60) DEF CloseServer, Main, IInv
<1>11. CASE Cancel
  BY <1>11, ZenonT(60) DEF Cancel, Main, IInv
<1>12. CASE StopNotifier
  BY <1>12, ZenonT(60) DEF StopNotifier, StopThread, Main, IInv
<1>13. CASE Join("notifier", "join notifier", "stop exporter")
  BY <1>13, ZenonT(60) DEF Join, Main, IInv
<1>14. CASE StopExporter
  BY <1>14, ZenonT(60) DEF StopExporter, StopThread, Main, IInv
<1>15. CASE Join("exporter", "join exporter", "clean up")
  BY <1>15, ZenonT(60) DEF Join, Main, IInv
<1>16. CASE CleanUp
  BY <1>16, ZenonT(60) DEF CleanUp, Main, IInv
<1>17. CASE StopHandlers
  <2>1. PICK next \in {"exited", "hung", "aborting"} : Main("stop handlers", next)
    BY <1>17, ZenonT(60) DEF StopHandlers
  <2>2. UNCHANGED <<thread, inspector, server>>
    BY <1>17, ZenonT(60) DEF StopHandlers
  <2> QED
    BY <2>1, <2>2, ZenonT(60) DEF Main, IInv
<1> QED
  BY <1>1, <1>2, <1>3, <1>4, <1>5a, <1>6, <1>7, <1>8, <1>9, <1>10, <1>11, <1>12, <1>13, <1>14, <1>15, <1>16, <1>17,
     ZenonT(60) DEF MainStep, Destructor

\* Neither the threads nor requests run again once they were ended.
LEMMA NextIInv == IInv /\ [Next]_vars => IInv'
<1> SUFFICES ASSUME IInv, [Next]_vars PROVE IInv'
  OBVIOUS
<1>0. "loader" \in Loops /\ "notifier" \in Loops /\ "exporter" \in Loops
  BY DEF Loops
<1>1. CASE MainStep
  BY <1>1, MainIInv
<1>2. CASE Terminate
  BY <1>2, ZenonT(60) DEF Terminate, IInv, AfterLoader, AfterServer, AfterNotifier, AfterExporter,
     AfterInspector, Ended
<1>3. ASSUME NEW t \in Loops, Loop(t) PROVE IInv'
  BY <1>3, GotoStep DEF Loop, ThreadOnly, At, Steps
<1>4. CASE Notifier
  <2>1. CASE Pause
    BY <1>0, <2>1, GotoStep DEF Pause, ThreadOnly, At, Steps
  <2>2. CASE ResetClientContext
    BY <1>0, <2>2, GotoStep, ZenonT(60) DEF ResetClientContext, ThreadOnly, At, Steps
  <2>3. CASE WaitForConnectionReady
    BY <1>0, <2>3, GotoStep DEF WaitForConnectionReady, WaitForChannelReady, ThreadOnly, At, Steps
  <2>4. CASE OpenStream
    BY <1>0, <2>4, GotoStep DEF OpenStream, ThreadOnly, At, Steps
  <2>5. CASE RunSingleReturns \/ WaitUntilWriterStarted
    BY <1>0, <2>5, GotoStep DEF RunSingleReturns, ReturnFromRunSingle, WaitUntilWriterStarted, ThreadOnly, At, Steps
  <2>6. CASE Finish
    BY <1>0, <2>6, GotoStep DEF Finish, ThreadOnly, At, Steps
  <2> QED
    BY <1>4, <2>1, <2>2, <2>3, <2>4, <2>5, <2>6 DEF Notifier
<1>5. CASE Request
  BY <1>5, ZenonT(60) DEF Request, IInv
<1>6. CASE Response
  BY <1>6, ZenonT(60) DEF Response, IInv
<1>7. CASE Network \/ StreamFails
  BY <1>7 DEF Network, StreamFails, IInv
<1>8. CASE UNCHANGED vars
  BY <1>8 DEF vars, IInv
<1>9. CASE WriteFails
  BY <1>0, <1>9, GotoStep DEF WriteFails, ReturnFromRunSingle, ThreadOnly, At, Steps
<1>10. CASE HandleEvent \/ EventHandled
  BY <1>10, ZenonT(60) DEF HandleEvent, EventHandled, Main, IInv, AfterLoader, AfterServer, AfterNotifier,
     AfterExporter, AfterInspector
<1> QED
  BY <1>0, <1>1, <1>2, <1>3, <1>4, <1>5, <1>6, <1>7, <1>8, <1>9, <1>10 DEF Next

\* Whatever the threads, Sensor and requests do, nothing uses the system
\* inspector when CleanUp frees it (CollectorService::~CollectorService).
THEOREM InspectorIsFreedLast == Spec => []InspectorOutlivesUsers
<1>1. IInv => InspectorOutlivesUsers
  BY ZenonT(60) DEF IInv, InspectorOutlivesUsers, Loops
<1> QED
  BY <1>1, InitIInv, NextIInv, PTL DEF Spec

-----------------------------------------------------------------------------
(***************************************************************************)
(* The command line.                                                       *)
(***************************************************************************)

IsOption(k) == k \in 1 .. Len(argv) /\ argv[k].form \in {"long", "short"}

\* What the check of the k-th word returns, in either walk.
StatusAt(k) ==
    IF Index(argv[k]) = "collector-config" THEN CheckConfiguration(Argument(k)).status
    ELSE IF Index(argv[k]) = "collection-method" THEN "OK"
    ELSE IF Index(argv[k]) = "grpc-server" THEN CheckGrpcServer(Argument(k)).status
    ELSE "NONE"

\* The word after an option and its argument.
Jump(k) == IF Accepts(k) THEN k + 2 ELSE k + 1

\* A walk that has passed the options at S is at e.
Path(S, e) ==
    /\ \A k \in S : IsOption(k) /\ StatusAt(k) # "ILLEGAL" /\ k < e /\ Jump(k) \in S \cup {e}
    /\ 1 \in S \cup {e}
    /\ \A k \in S \cup {e} : k = 1 \/ \E j \in S : Jump(j) = k

\* No walk goes beyond e.
Over(e) == ~IsOption(e) \/ StatusAt(e) = "ILLEGAL"

\* tally is how many options there are before each word of a walk.
Tallied(S, e, tally) ==
    /\ tally[1] = 0
    /\ \A k \in S \cup {e} : tally[k] <= tally[e]
    /\ \A k \in S : tally[Jump(k)] = tally[k] + Len(argv[k].names)

\* The last of the later ones or, if there are none, of the earlier ones.
Latest(later, earlier) == IF later # {} THEN Last(later) ELSE Last(earlier)

\* CollectorArgs after a walk that has passed S, if the walk before it has passed R.
Held(S, R) ==
    /\ args.grpc = IF Servers(S) = {} /\ Servers(R) = {} THEN "none"
                   ELSE Argument(Latest(Servers(S), Servers(R))).id
    /\ args.config = IF Given("collector-config", S) = {} /\ Given("collector-config", R) = {} THEN "none"
                     ELSE Argument(Latest(Given("collector-config", S), Given("collector-config", R))).id
    /\ args.method = IF Given("collection-method", S) = {} /\ Given("collection-method", R) = {} THEN "none"
                     ELSE ParseCollectionMethod(
                            Argument(Latest(Given("collection-method", S), Given("collection-method", R))))

\* The options at S are stored.
Buffered(S) == \A k \in S : Stored(Index(argv[k]))

\* S is the set of words that start an option: see OptionPlaces.
Solves(S) ==
    /\ S \in SUBSET DOMAIN argv
    /\ \A k \in DOMAIN argv :
         k \in S <=> /\ argv[k].form \in {"long", "short"}
                     /\ \/ k = 1
                        \/ k - 1 \in S /\ ~Accepts(k - 1)
                        \/ k - 2 \in S /\ Accepts(k - 2)

Counting ==
    \E p \in Nat \ {0}, S \in SUBSET DOMAIN argv, tally \in [Nat -> Nat] :
        p = pos /\ Path(S, p) /\ Tallied(S, p, tally) /\ buffer_max = 1 + tally[p] /\ Held(S, {})

Storing ==
    \E R \in SUBSET DOMAIN argv, e \in Nat \ {0}, tally \in [Nat -> Nat], S \in SUBSET DOMAIN argv, p \in Nat \ {0} :
        /\ Path(R, e) /\ Over(e) /\ Tallied(R, e, tally) /\ buffer_max = 1 + tally[e]
        /\ p = pos /\ p \in R \cup {e} /\ Len(buffer) = tally[p]
        /\ Path(S, p) /\ Held(S, R) /\ Buffered(S)

AllStored ==
    \E S \in SUBSET DOMAIN argv : Solves(S) /\ Held(S, S) /\ Buffered(S)
        /\ \A k \in S : StatusAt(k) # "ILLEGAL"

ArgsInv ==
    /\ argv \in Seq(Words) /\ pos \in Nat \ {0} /\ buffer_max \in Nat /\ err \in BOOLEAN
    /\ buffer \in Seq([index : Known \cup {"unknown"}, name : STRING])
    /\ DOMAIN args = {"method", "config", "grpc", "message"}
    /\ walk \in {"count", "store", "parsed", "exited", "running"}
    /\ walk = "count" => ~err /\ buffer = << >> /\ Counting
    /\ walk = "store" => ~err /\ Storing
    /\ ~Walking => Len(buffer) < buffer_max /\ (err \/ AllStored)
    /\ walk = "running" => ~err /\ ~Stored("help") /\ ~Stored("unknown")
    /\ err \/ walk = "exited" => args.message # ""

-----------------------------------------------------------------------------
\* What depends on the words only does not change.
LEMMA SameWords ==
    ASSUME argv' = argv
    PROVE  /\ \A k : IsOption(k)' = IsOption(k) /\ Argument(k)' = Argument(k)
           /\ \A k : StatusAt(k)' = StatusAt(k)
           /\ \A k : Accepts(k)' = Accepts(k)
           /\ \A k : Jump(k)' = Jump(k)
<1>1. \A k : IsOption(k)' = IsOption(k)
    BY Zenon DEF IsOption
<1>2. \A k : Argument(k)' = Argument(k)
    BY Zenon DEF Argument
<1>3. \A k : StatusAt(k)' = StatusAt(k)
    BY <1>2, Zenon DEF StatusAt
<1>4. \A k : Accepts(k)' = Accepts(k)
    BY Zenon DEF Accepts
<1>5. \A k : Jump(k)' = Jump(k)
    BY <1>4, Zenon DEF Jump
<1> QED
    BY <1>1, <1>2, <1>3, <1>4, <1>5, Zenon

\* So do the walks over them.
LEMMA SameWalks ==
    ASSUME argv' = argv, NEW S, NEW e, NEW tally
    PROVE  /\ (Path(S, e)' <=> Path(S, e))
           /\ (Over(e)' <=> Over(e))
           /\ (Tallied(S, e, tally)' <=> Tallied(S, e, tally))
           /\ (Solves(S)' <=> Solves(S))
           /\ Servers(S)' = Servers(S)
           /\ \A index : Given(index, S)' = Given(index, S)
<1>1. (Path(S, e)' <=> Path(S, e))
    BY SameWords DEF Path
<1>2. (Over(e)' <=> Over(e))
    BY SameWords, Zenon DEF Over
<1>3. (Tallied(S, e, tally)' <=> Tallied(S, e, tally))
    BY SameWords DEF Tallied
<1>4. (Solves(S)' <=> Solves(S))
    BY SameWords DEF Solves
<1>5. \A index : Given(index, S)' = Given(index, S)
    BY SameWords DEF Given
<1>6. Servers(S)' = Servers(S)
  <2>1. Given("grpc-server", S)' = Given("grpc-server", S)
    BY <1>5, Zenon
  <2>2. \A k : k \in Servers(S)' <=> k \in Servers(S)
    <3> TAKE k
    <3>1. Argument(k)' = Argument(k)
      BY SameWords, Zenon
    <3> QED
      BY <2>1, <3>1, Zenon DEF Servers
  <2> QED
    BY <2>2, Zenon
<1> QED
    BY <1>1, <1>2, <1>3, <1>4, <1>5, <1>6, Zenon

\* The verdicts on the argument of an option.
LEMMA ConfigurationVerdict ==
    ASSUME NEW text
    PROVE  LET v == CheckConfiguration(text)
           IN  /\ v.status = "OK" <=> text # NoArg /\ text.json
               /\ v.status = "ILLEGAL" <=> text # NoArg /\ ~text.json
               /\ v.status = "ILLEGAL" => v.message # ""
BY Zenon DEF CheckConfiguration, Verdict

\* The checks of a server end in one of three ways, and a refusal says why.
LEMMA ServerVerdict ==
    ASSUME NEW text
    PROVE  LET v == CheckGrpcServer(text)
           IN  /\ v.status \in {"OK", "ILLEGAL", "IGNORE"}
               /\ v.status = "IGNORE" <=> text = NoArg \/ text.id = ""
               /\ v.status = "ILLEGAL" => v.message # ""
<1>1. CASE text = NoArg \/ text.id = ""
    BY <1>1, Zenon DEF CheckGrpcServer, Verdict
<1>2. CASE ~(text = NoArg \/ text.id = "")
  <2>1. CheckGrpcServer(text) \in {Verdict("ILLEGAL", "too long"), Verdict("ILLEGAL", "malformed"),
            Verdict("ILLEGAL", "missing host"), Verdict("ILLEGAL", "missing port"), Verdict("OK", "")}
    BY <1>2, Zenon DEF CheckGrpcServer
  <2>2. \A s, m : Verdict(s, m).status = s /\ Verdict(s, m).message = m
    BY Zenon DEF Verdict
  <2>3. "too long" # "" /\ "malformed" # "" /\ "missing host" # "" /\ "missing port" # ""
    BY Zenon
  <2>4. \/ CheckGrpcServer(text).status = "ILLEGAL" /\ CheckGrpcServer(text).message # ""
        \/ CheckGrpcServer(text).status = "OK"
    <3>1. ASSUME NEW m, m # "", CheckGrpcServer(text) = Verdict("ILLEGAL", m)
          PROVE  CheckGrpcServer(text).status = "ILLEGAL" /\ CheckGrpcServer(text).message # ""
      BY <2>2, <3>1, Zenon
    <3>2. CASE CheckGrpcServer(text) = Verdict("OK", "")
      BY <2>2, <3>2, Zenon
    <3> QED
      BY <2>1, <2>3, <3>1, <3>2, Zenon
  <2>5. "OK" # "ILLEGAL" /\ "OK" # "IGNORE" /\ "ILLEGAL" # "IGNORE"
    BY Zenon
  <2> QED
    BY <1>2, <2>4, <2>5, Zenon
<1> QED
    BY <1>1, <1>2, Zenon

\* The fields of CollectorArgs.
Fields == {"method", "config", "grpc", "message"}

\* What each of the checks does to CollectorArgs.
LEMMA MethodChecked ==
    ASSUME NEW a, DOMAIN a = Fields, NEW text, NEW msg
    PROVE  LET c == checkCollectionMethod(a, text, msg)
           IN  /\ c.status = "OK" /\ DOMAIN c.args = Fields
               /\ c.args.grpc = a.grpc /\ c.args.config = a.config
               /\ c.args.method = IF text = NoArg THEN a.method ELSE ParseCollectionMethod(text)
BY DEF checkCollectionMethod, Fields

\* A configuration is kept if it is accepted, and the message if it is asked for.
LEMMA ConfigChecked ==
    ASSUME NEW a, DOMAIN a = Fields, NEW text, NEW msg
    PROVE  LET c == checkCollectorConfig(a, text, msg)
               v == CheckConfiguration(text)
           IN  /\ c.status = v.status /\ DOMAIN c.args = Fields
               /\ c.args.grpc = a.grpc /\ c.args.method = a.method
               /\ c.args.config = IF v.status = "OK" THEN text.id ELSE a.config
               /\ c.args.message = IF msg THEN v.message ELSE a.message
BY Zenon DEF checkCollectorConfig, Fields

\* A server is kept if it is accepted, and the message if it is asked for.
LEMMA ServerChecked ==
    ASSUME NEW a, DOMAIN a = Fields, NEW text, NEW msg
    PROVE  LET c == checkGRPCServer(a, text, msg)
               v == CheckGrpcServer(text)
           IN  /\ c.status = v.status /\ DOMAIN c.args = Fields
               /\ c.args.config = a.config /\ c.args.method = a.method
               /\ c.args.grpc = IF v.status = "OK" THEN text.id ELSE a.grpc
               /\ c.args.message = IF msg THEN v.message ELSE a.message
BY Zenon DEF checkGRPCServer, Fields

\* The walk that prints errors keeps the message of a check.
LEMMA MessageKept ==
    ASSUME NEW a, DOMAIN a = Fields, NEW text, Msg
    PROVE  /\ checkCollectorConfig(a, text, Msg).args.message = CheckConfiguration(text).message
           /\ checkGRPCServer(a, text, Msg).args.message = CheckGrpcServer(text).message
BY Zenon DEF checkCollectorConfig, checkGRPCServer, Fields

\* Any of the checks: its status is that of the word, in either walk, and it sets
\* the value of its option if it is accepted.
LEMMA Checked ==
    ASSUME DOMAIN args = Fields, NEW c, c = check_arg(Index(argv[pos]), args, Argument(pos))
    PROVE  /\ c.status = StatusAt(pos) /\ DOMAIN c.args = Fields
           /\ c.args.grpc = IF Index(argv[pos]) = "grpc-server" /\ StatusAt(pos) = "OK" THEN Argument(pos).id
                            ELSE args.grpc
           /\ c.args.config = IF Index(argv[pos]) = "collector-config" /\ StatusAt(pos) = "OK" THEN Argument(pos).id
                              ELSE args.config
           /\ c.args.method = IF Index(argv[pos]) = "collection-method" /\ Argument(pos) # NoArg
                              THEN ParseCollectionMethod(Argument(pos)) ELSE args.method
           /\ Msg /\ StatusAt(pos) = "ILLEGAL" => c.args.message # ""
<1>1. CASE Index(argv[pos]) = "collector-config"
  <2>1. c = checkCollectorConfig(args, Argument(pos), Msg) /\ StatusAt(pos) = CheckConfiguration(Argument(pos)).status
    BY <1>1, Zenon DEF check_arg, StatusAt
  <2>2. Index(argv[pos]) # "grpc-server" /\ Index(argv[pos]) # "collection-method"
    BY <1>1
  <2>3. StatusAt(pos) = "ILLEGAL" => CheckConfiguration(Argument(pos)).message # ""
    BY <2>1, ConfigurationVerdict, Zenon
  <2>4. ASSUME Msg PROVE c.args.message = CheckConfiguration(Argument(pos)).message
    BY <2>1, <2>4, MessageKept, Zenon
  <2>5. /\ c.status = StatusAt(pos) /\ DOMAIN c.args = Fields
        /\ c.args.grpc = IF Index(argv[pos]) = "grpc-server" /\ StatusAt(pos) = "OK" THEN Argument(pos).id
                         ELSE args.grpc
        /\ c.args.config = IF Index(argv[pos]) = "collector-config" /\ StatusAt(pos) = "OK" THEN Argument(pos).id
                           ELSE args.config
        /\ c.args.method = IF Index(argv[pos]) = "collection-method" /\ Argument(pos) # NoArg
                           THEN ParseCollectionMethod(Argument(pos)) ELSE args.method
    BY <1>1, <2>1, <2>2, ConfigChecked
  <2> QED
    BY <2>3, <2>4, <2>5, Zenon
<1>2. CASE Index(argv[pos]) = "collection-method"
  <2>1. c = checkCollectionMethod(args, Argument(pos), Msg) /\ StatusAt(pos) = "OK"
    BY <1>2, Zenon DEF check_arg, StatusAt
  <2>2. Index(argv[pos]) # "grpc-server" /\ Index(argv[pos]) # "collector-config" /\ "OK" # "ILLEGAL"
    BY <1>2
  <2> QED
    BY <1>2, <2>1, <2>2, MethodChecked
<1>3. CASE Index(argv[pos]) = "grpc-server"
  <2>1. c = checkGRPCServer(args, Argument(pos), Msg) /\ StatusAt(pos) = CheckGrpcServer(Argument(pos)).status
    BY <1>3, Zenon DEF check_arg, StatusAt
  <2>2. Index(argv[pos]) # "collection-method" /\ Index(argv[pos]) # "collector-config"
    BY <1>3
  <2>3. StatusAt(pos) = "ILLEGAL" => CheckGrpcServer(Argument(pos)).message # ""
    BY <2>1, ServerVerdict, Zenon
  <2>4. ASSUME Msg PROVE c.args.message = CheckGrpcServer(Argument(pos)).message
    BY <2>1, <2>4, MessageKept, Zenon
  <2>5. /\ c.status = StatusAt(pos) /\ DOMAIN c.args = Fields
        /\ c.args.grpc = IF Index(argv[pos]) = "grpc-server" /\ StatusAt(pos) = "OK" THEN Argument(pos).id
                         ELSE args.grpc
        /\ c.args.config = IF Index(argv[pos]) = "collector-config" /\ StatusAt(pos) = "OK" THEN Argument(pos).id
                           ELSE args.config
        /\ c.args.method = IF Index(argv[pos]) = "collection-method" /\ Argument(pos) # NoArg
                           THEN ParseCollectionMethod(Argument(pos)) ELSE args.method
    BY <1>3, <2>1, <2>2, ServerChecked
  <2> QED
    BY <2>3, <2>4, <2>5, Zenon
<1>4. CASE Index(argv[pos]) \notin {"collector-config", "collection-method", "grpc-server"}
  <2>1. c = [status |-> "NONE", args |-> args] /\ StatusAt(pos) = "NONE"
    BY <1>4, Zenon DEF check_arg, StatusAt
  <2>2. c.status = "NONE" /\ c.args = args /\ "NONE" # "ILLEGAL"
    BY <2>1
  <2> QED
    BY <1>4, <2>1, <2>2, Zenon
<1> QED
    BY <1>1, <1>2, <1>3, <1>4, Zenon

\* An option takes the next word as its argument if the check accepts it.
LEMMA TakesNext ==
    ASSUME NEW k
    PROVE  Accepts(k) <=> StatusAt(k) = "OK" /\ argv[k].attached = NoArg /\ Argument(k) # NoArg
<1>1. argv[k].attached = NoArg => Argument(k) = IF k < Len(argv) THEN argv[k + 1].text ELSE NoArg
    BY Zenon DEF Argument
<1>2. CheckConfiguration(Argument(k)).status = "OK" <=> Argument(k) # NoArg /\ Argument(k).json
    BY ConfigurationVerdict, Zenon
<1>3. CASE argv[k].attached = NoArg
  <2>1. Accepts(k) <=> /\ Argument(k) # NoArg
                       /\ \/ Index(argv[k]) = "collection-method"
                          \/ Index(argv[k]) = "collector-config" /\ Argument(k).json
                          \/ Index(argv[k]) = "grpc-server" /\ CheckGrpcServer(Argument(k)).status = "OK"
    BY <1>1, <1>3, Zenon DEF Accepts
  <2> QED
    BY <1>2, <1>3, <2>1, Zenon DEF StatusAt
<1>4. CASE argv[k].attached # NoArg
    BY <1>4, Zenon DEF Accepts
<1> QED
    BY <1>3, <1>4, Zenon

\* A parameter of argv.
LEMMA ParamStep ==
    ASSUME ArgsInv, Param
    PROVE  /\ IsOption(pos) /\ argv' = argv /\ Walking /\ DOMAIN args' = Fields
           /\ args'.grpc = IF Index(argv[pos]) = "grpc-server" /\ StatusAt(pos) = "OK" THEN Argument(pos).id
                           ELSE args.grpc
           /\ args'.config = IF Index(argv[pos]) = "collector-config" /\ StatusAt(pos) = "OK" THEN Argument(pos).id
                             ELSE args.config
           /\ args'.method = IF Index(argv[pos]) = "collection-method" /\ Argument(pos) # NoArg
                             THEN ParseCollectionMethod(Argument(pos)) ELSE args.method
           /\ walk = "store" /\ StatusAt(pos) = "ILLEGAL" => args'.message # ""
           /\ IF StatusAt(pos) = "ILLEGAL"
              THEN /\ walk' = IF walk = "count" THEN "store" ELSE "parsed"
                   /\ err' = (walk = "store") /\ pos' = 1
                   /\ UNCHANGED <<buffer_max, buffer>>
              ELSE /\ pos' = Jump(pos) /\ UNCHANGED <<walk, err>>
                   /\ walk = "count" => buffer_max' = buffer_max + Len(Options(argv[pos])) /\ UNCHANGED buffer
                   /\ walk # "count" => buffer' = buffer \o Options(argv[pos]) /\ UNCHANGED buffer_max
<1> DEFINE c == check_arg(Index(argv[pos]), args, Argument(pos))
<1>1. Optarg(argv[pos]) = Argument(pos)
    BY Zenon DEF Optarg, Argument, have_more_args
<1>2. pos \in Nat \ {0} /\ pos <= Len(argv) /\ DOMAIN args = Fields /\ argv \in Seq(Words)
    BY Zenon DEF ArgsInv, Param, Fields
<1>3. IsOption(pos)
  <2>1. pos \in 1 .. Len(argv)
    BY <1>2
  <2> QED
    BY <2>1, Zenon DEF IsOption, Param
<1>4. args' = c.args /\ argv' = argv /\ Walking
    BY <1>1, Zenon DEF Param
<1>5. c.status = StatusAt(pos)
    BY <1>2, Checked, Zenon
<1>6. CASE StatusAt(pos) = "ILLEGAL"
  <2>1. /\ walk' = IF walk = "count" THEN "store" ELSE "parsed"
        /\ err' = (walk = "store") /\ pos' = 1
        /\ UNCHANGED <<buffer_max, buffer>>
    BY <1>1, <1>5, <1>6, Zenon DEF Param
  <2> QED
    BY <1>2, <1>3, <1>4, <1>6, <2>1, Checked, Zenon DEF Msg
<1>7. CASE StatusAt(pos) # "ILLEGAL"
  <2>1. /\ pos' = pos + (IF StatusAt(pos) = "OK" /\ argv[pos].attached = NoArg /\ Argument(pos) # NoArg THEN 2 ELSE 1)
        /\ UNCHANGED <<walk, err>>
        /\ IF walk = "count" THEN Count(Options(argv[pos])) ELSE Store(Options(argv[pos]))
    BY <1>1, <1>5, <1>7, Zenon DEF Param
  <2>2. pos' = Jump(pos)
    BY <2>1, TakesNext, Zenon DEF Jump
  <2> QED
    BY <1>2, <1>3, <1>4, <1>7, <2>1, <2>2, Checked, Zenon DEF Count, Store
<1> QED
    BY <1>6, <1>7, Zenon

-----------------------------------------------------------------------------
\* A walk goes forwards, by one word or two.
LEMMA JumpsAhead ==
    ASSUME NEW k \in Nat
    PROVE  Jump(k) \in Nat /\ k < Jump(k) /\ Jump(k) = IF Accepts(k) THEN k + 2 ELSE k + 1
<1>1. Jump(k) = IF Accepts(k) THEN k + 2 ELSE k + 1
    BY Zenon DEF Jump
<1>2. CASE Accepts(k)
    BY <1>1, <1>2
<1>3. CASE ~Accepts(k)
    BY <1>1, <1>3
<1> QED
    BY <1>2, <1>3, Zenon

\* A walk starts at the first word and goes on over an option.
LEMMA PathStart == Path({}, 1)
BY Zenon DEF Path

\* A walk that is at an option which is not refused goes on over it.
LEMMA PathStep ==
    ASSUME NEW S \in SUBSET Nat, NEW p \in Nat, Path(S, p), IsOption(p), StatusAt(p) # "ILLEGAL"
    PROVE  Path(S \cup {p}, Jump(p))
<1> DEFINE T == S \cup {p}
<1>1. Jump(p) \in Nat /\ p < Jump(p)
    BY JumpsAhead, Zenon
<1>2. ASSUME NEW k \in T
      PROVE  IsOption(k) /\ StatusAt(k) # "ILLEGAL" /\ k < Jump(p) /\ Jump(k) \in T \cup {Jump(p)}
  <2>1. CASE k \in S
    <3>1. IsOption(k) /\ StatusAt(k) # "ILLEGAL" /\ k < p /\ Jump(k) \in S \cup {p}
      BY <2>1, Zenon DEF Path
    <3>2. k < Jump(p)
      BY <1>1, <2>1, <3>1
    <3> QED
      BY <3>1, <3>2, Zenon
  <2>2. CASE k = p
    BY <1>1, <2>2, Zenon
  <2> QED
    BY <2>1, <2>2, Zenon
<1>3. 1 \in T \cup {Jump(p)}
    BY Zenon DEF Path
<1>4. ASSUME NEW k \in T \cup {Jump(p)}
      PROVE  k = 1 \/ \E j \in T : Jump(j) = k
  <2>1. CASE k \in S \cup {p}
    BY <2>1, Zenon DEF Path
  <2>2. CASE k = Jump(p)
    BY <2>2, Zenon
  <2> QED
    BY <2>1, <2>2, Zenon
<1> QED
    BY <1>2, <1>3, <1>4, Zenon DEF Path

\* t is f but for j.
Moved(t, f, j, v) == t \in [Nat -> Nat] /\ t[j] = v /\ \A k \in Nat \ {j} : t[k] = f[k]

\* An update of a function changes it at one place.
LEMMA Updated ==
    ASSUME NEW f \in [Nat -> Nat], NEW j \in Nat, NEW v \in Nat
    PROVE  Moved([f EXCEPT ![j] = v], f, j, v)
BY DEF Moved

\* The tally of a walk, once it has passed one more option.
LEMMA TallyStep ==
    ASSUME NEW S \in SUBSET Nat, NEW p \in Nat \ {0}, NEW tally \in [Nat -> Nat],
           Path(S, p), Tallied(S, p, tally),
           NEW J, J = Jump(p), NEW n \in Nat, n = Len(argv[p].names),
           NEW t, Moved(t, tally, J, tally[p] + n)
    PROVE  Tallied(S \cup {p}, J, t)
<1>1. J \in Nat /\ p < J
    BY JumpsAhead, Zenon
<1>2. n \in Nat /\ tally[p] \in Nat
    BY Zenon
<1>3. t \in [Nat -> Nat] /\ t[J] = tally[p] + n /\ \A k \in Nat \ {J} : t[k] = tally[k]
    BY Zenon DEF Moved
<1>4. t[1] = 0
  <2>1. 1 \in Nat \ {J}
    BY <1>1
  <2> QED
    BY <1>3, <2>1, Zenon DEF Tallied
<1>5. \A k \in S \cup {p} : k \in Nat \ {J} /\ t[k] = tally[k] /\ tally[k] <= tally[p]
  <2> TAKE k \in S \cup {p}
  <2>1. k < p \/ k = p
    BY Zenon DEF Path
  <2>2. \A x, y, z \in Nat : (x < y \/ x = y) /\ y < z => x # z
    OBVIOUS
  <2>3. k \in Nat \ {J}
    BY <1>1, <2>1, <2>2, Zenon
  <2> QED
    BY <1>3, <2>3, Zenon DEF Tallied
<1>6. \A k \in S \cup {p} \cup {J} : t[k] <= t[J]
  <2> TAKE k \in S \cup {p} \cup {J}
  <2>1. CASE k \in S \cup {p}
    <3>1. tally[k] \in Nat
      BY <1>5, <2>1, Zenon
    <3>2. t[k] = tally[k] /\ tally[k] <= tally[p]
      BY <1>5, <2>1, Zenon
    <3>3. t[J] = tally[p] + n
      BY <1>3, Zenon
    <3>4. \A x, y, z \in Nat : x <= y => x <= y + z
      OBVIOUS
    <3>5. tally[k] <= tally[p] + n
      BY <1>2, <3>1, <3>2, <3>4, Zenon
    <3> QED
      BY <3>2, <3>3, <3>5, Zenon
  <2>2. CASE k = J
    <3>1. t[J] \in Nat
      BY <1>1, <1>3, Zenon
    <3>2. \A x \in Nat : x <= x
      OBVIOUS
    <3> QED
      BY <2>2, <3>1, <3>2, Zenon
  <2> QED
    BY <2>1, <2>2, Zenon
<1>7. \A k \in S \cup {p} : t[Jump(k)] = t[k] + Len(argv[k].names)
  <2> TAKE k \in S \cup {p}
  <2>1. CASE k \in S
    <3>1. Jump(k) \in S \cup {p}
      BY <2>1, Zenon DEF Path
    <3>2. t[Jump(k)] = tally[Jump(k)] /\ t[k] = tally[k]
      BY <1>5, <3>1, Zenon
    <3> QED
      BY <2>1, <3>2, Zenon DEF Tallied
  <2>2. CASE k = p
    <3>1. t[p] = tally[p]
      BY <1>5, Zenon
    <3> QED
      BY <1>3, <2>2, <3>1, Zenon
  <2> QED
    BY <2>1, <2>2, Zenon
<1> QED
    BY <1>4, <1>6, <1>7, Zenon DEF Tallied

\* There is one set of words that start an option: two of them would have a first
\* word on which they differ.
LEMMA OneSolution ==
    ASSUME NEW S, NEW T, Solves(S), Solves(T), argv \in Seq(Words)
    PROVE  S = T
<1> DEFINE D == {k \in DOMAIN argv : (k \in S) # (k \in T)}
<1>1. DOMAIN argv \in SUBSET Nat /\ S \in SUBSET DOMAIN argv /\ T \in SUBSET DOMAIN argv
    BY DEF Solves
<1>2. ASSUME NEW m \in D, \A k \in D : ~(k < m)
      PROVE  FALSE
  <2>1. m \in Nat
    BY <1>1
  <2>2. \A k \in Int : k < m => (k \in S <=> k \in T)
    BY <1>1, <1>2
  <2>3. m - 1 \in S <=> m - 1 \in T
    BY <2>1, <2>2
  <2>4. m - 2 \in S <=> m - 2 \in T
    BY <2>1, <2>2
  <2>5. m \in S <=> m \in T
    BY <2>3, <2>4, Zenon DEF Solves
  <2> QED
    BY <2>5
<1>3. D = {}
  <2> SUFFICES ASSUME D # {} PROVE FALSE
    BY Zenon
  <2>1. D \in SUBSET Nat
    BY <1>1, Zenon
  <2>2. PICK m \in D : \A k \in D : ~ (<<k, m>> \in OpToRel(<, Nat))
    BY <2>1, NatLessThanWellFounded, WFMin, Zenon
  <2>3. \A k \in D : ~(k < m)
    BY <2>1, <2>2, Zenon DEF OpToRel
  <2> QED
    BY <1>2, <2>3, Zenon
<1> QED
    BY <1>1, <1>3

\* A walk that ends at a word that is no option has passed all of the options.
LEMMA PathSolves ==
    ASSUME argv \in Seq(Words), NEW S \in SUBSET DOMAIN argv, NEW e, Path(S, e), ~IsOption(e)
    PROVE  Solves(S)
<1>1. DOMAIN argv = 1 .. Len(argv) /\ Len(argv) \in Nat
    OBVIOUS
<1>2. ASSUME NEW k \in DOMAIN argv, k \in S
      PROVE  /\ argv[k].form \in {"long", "short"}
             /\ k = 1 \/ (k - 1 \in S /\ ~Accepts(k - 1)) \/ (k - 2 \in S /\ Accepts(k - 2))
  <2>1. argv[k].form \in {"long", "short"} /\ (k = 1 \/ \E j \in S : Jump(j) = k)
    BY <1>2, Zenon DEF Path, IsOption
  <2>2. ASSUME NEW j \in S, Jump(j) = k
        PROVE  (k - 1 \in S /\ ~Accepts(k - 1)) \/ (k - 2 \in S /\ Accepts(k - 2))
    <3>1. j \in Nat
      BY <1>1
    <3>2. k = IF Accepts(j) THEN j + 2 ELSE j + 1
      BY <2>2, <3>1, JumpsAhead, Zenon
    <3>3. CASE Accepts(j)
      <4>1. k - 2 = j
        BY <3>1, <3>2, <3>3
      <4> QED
        BY <3>3, <4>1, Zenon
    <3>4. CASE ~Accepts(j)
      <4>1. k - 1 = j
        BY <3>1, <3>2, <3>4
      <4> QED
        BY <3>4, <4>1, Zenon
    <3> QED
      BY <3>3, <3>4, Zenon
  <2> QED
    BY <2>1, <2>2, Zenon
<1>3. ASSUME NEW k \in DOMAIN argv, argv[k].form \in {"long", "short"},
             k = 1 \/ (k - 1 \in S /\ ~Accepts(k - 1)) \/ (k - 2 \in S /\ Accepts(k - 2))
      PROVE  k \in S
  <2>1. IsOption(k) /\ k # e
    BY <1>1, <1>3, Zenon DEF IsOption
  <2>2. CASE k = 1
    BY <2>1, <2>2, Zenon DEF Path
  <2>3. ASSUME NEW j \in S, Jump(j) = k
        PROVE  k \in S
    BY <2>1, <2>3, Zenon DEF Path
  <2>4. CASE k - 1 \in S /\ ~Accepts(k - 1)
    <3>1. k - 1 \in Nat /\ k = (k - 1) + 1
      BY <1>1, <2>4
    <3> QED
      BY <2>3, <2>4, <3>1, JumpsAhead, Zenon
  <2>5. CASE k - 2 \in S /\ Accepts(k - 2)
    <3>1. k - 2 \in Nat /\ k = (k - 2) + 2
      BY <1>1, <2>5
    <3> QED
      BY <2>3, <2>5, <3>1, JumpsAhead, Zenon
  <2> QED
    BY <1>3, <2>2, <2>4, <2>5, Zenon
<1> QED
    BY <1>2, <1>3, Zenon DEF Solves

-----------------------------------------------------------------------------
\* The last of a set of words is the largest.
LEMMA LastIsLargest ==
    ASSUME NEW T \in SUBSET Nat, NEW p \in T, \A j \in T : j <= p
    PROVE  Last(T) = p
<1>1. Last(T) \in T /\ \A j \in T : j <= Last(T)
    BY Zenon DEF Last
<1>2. p <= Last(T) /\ Last(T) <= p /\ p \in Nat /\ Last(T) \in Nat
    BY <1>1, Zenon
<1> QED
    BY <1>2

\* The options with an argument, once the walk has passed one more.
LEMMA GivenStep ==
    ASSUME NEW S \in SUBSET Nat, NEW p \in Nat, Path(S, p), NEW index
    PROVE  /\ Given(index, S \cup {p}) = IF Index(argv[p]) = index /\ Argument(p) # NoArg
                                         THEN Given(index, S) \cup {p} ELSE Given(index, S)
           /\ Index(argv[p]) = index /\ Argument(p) # NoArg => Last(Given(index, S \cup {p})) = p
<1>1. Given(index, S \cup {p}) = IF Index(argv[p]) = index /\ Argument(p) # NoArg
                                 THEN Given(index, S) \cup {p} ELSE Given(index, S)
    BY DEF Given
<1>2. ASSUME Index(argv[p]) = index, Argument(p) # NoArg
      PROVE  Last(Given(index, S \cup {p})) = p
  <2>1. Given(index, S \cup {p}) \in SUBSET (S \cup {p}) /\ p \in Given(index, S \cup {p})
    BY <1>2, Zenon DEF Given
  <2>2. \A j \in S \cup {p} : j <= p
    BY DEF Path
  <2> QED
    BY <2>1, <2>2, LastIsLargest, Zenon
<1> QED
    BY <1>1, <1>2, Zenon

\* The servers, once the walk has passed one more option.
LEMMA ServersStep ==
    ASSUME NEW S \in SUBSET Nat, NEW p \in Nat, Path(S, p)
    PROVE  LET takes == Index(argv[p]) = "grpc-server" /\ Argument(p) # NoArg /\ Argument(p).id # ""
           IN  /\ Servers(S \cup {p}) = IF takes THEN Servers(S) \cup {p} ELSE Servers(S)
               /\ takes => Last(Servers(S \cup {p})) = p
<1> DEFINE takes == Index(argv[p]) = "grpc-server" /\ Argument(p) # NoArg /\ Argument(p).id # ""
<1>1. \A k : k \in Servers(S \cup {p}) <=> k \in Servers(S) \/ (k = p /\ takes)
    BY Zenon DEF Servers, Given
<1>2. ASSUME takes
      PROVE  Last(Servers(S \cup {p})) = p
  <2>1. Servers(S \cup {p}) \in SUBSET (S \cup {p}) /\ p \in Servers(S \cup {p})
    BY <1>2, Zenon DEF Servers, Given
  <2>2. \A j \in S \cup {p} : j <= p
    BY DEF Path
  <2> QED
    BY <2>1, <2>2, LastIsLargest, Zenon
<1> HIDE DEF takes
<1>3. Servers(S \cup {p}) = IF takes THEN Servers(S) \cup {p} ELSE Servers(S)
    BY <1>1
<1> QED
    BY <1>2, <1>3, Zenon DEF takes

\* CollectorArgs holds what it held if its values do not change.
LEMMA HeldSame ==
    ASSUME argv' = argv, args'.grpc = args.grpc, args'.config = args.config, args'.method = args.method,
           NEW S, NEW R, Held(S, R)
    PROVE  Held(S, R)'
<1>1. /\ Servers(S)' = Servers(S) /\ Servers(R)' = Servers(R)
      /\ \A index : Given(index, S)' = Given(index, S) /\ Given(index, R)' = Given(index, R)
    BY SameWalks, Zenon
<1>2. \A k : Argument(k)' = Argument(k)
    BY SameWords, Zenon
<1> QED
    BY <1>1, <1>2, Zenon DEF Held

\* After an option it holds the option's value.
LEMMA HeldStep ==
    ASSUME argv' = argv, NEW S \in SUBSET Nat, NEW p \in Nat, NEW R, Path(S, p), Held(S, R),
           StatusAt(p) # "ILLEGAL",
           args'.grpc = IF Index(argv[p]) = "grpc-server" /\ StatusAt(p) = "OK" THEN Argument(p).id ELSE args.grpc,
           args'.config = IF Index(argv[p]) = "collector-config" /\ StatusAt(p) = "OK" THEN Argument(p).id
                          ELSE args.config,
           args'.method = IF Index(argv[p]) = "collection-method" /\ Argument(p) # NoArg
                          THEN ParseCollectionMethod(Argument(p)) ELSE args.method
    PROVE  Held(S \cup {p}, R)'
<1> DEFINE T == S \cup {p}
<1>1. /\ Servers(T)' = Servers(T) /\ Servers(R)' = Servers(R)
      /\ \A index : Given(index, T)' = Given(index, T) /\ Given(index, R)' = Given(index, R)
    BY SameWalks, Zenon
<1>2. \A k : Argument(k)' = Argument(k)
    BY SameWords, Zenon
<1>3. args'.grpc = IF Servers(T) = {} /\ Servers(R) = {} THEN "none"
                   ELSE Argument(Latest(Servers(T), Servers(R))).id
  <2> DEFINE takes == Index(argv[p]) = "grpc-server" /\ Argument(p) # NoArg /\ Argument(p).id # ""
  <2>1. Index(argv[p]) = "grpc-server" /\ StatusAt(p) = "OK" <=> takes
    <3>1. CASE Index(argv[p]) = "grpc-server"
      <4>1. StatusAt(p) = CheckGrpcServer(Argument(p)).status
        BY <3>1 DEF StatusAt
      <4>2. "OK" # "IGNORE"
        BY Zenon
      <4> QED
        BY <3>1, <4>1, <4>2, ServerVerdict, Zenon
    <3> QED
      BY <3>1, Zenon
  <2>2. CASE takes
    <3>1. Servers(T) # {} /\ Last(Servers(T)) = p
      BY <2>2, ServersStep, Zenon
    <3>2. args'.grpc = Argument(p).id
      BY <2>1, <2>2, Zenon
    <3> QED
      BY <3>1, <3>2, Zenon DEF Latest
  <2>3. CASE ~takes
    <3>1. Servers(T) = Servers(S)
      BY <2>3, ServersStep, Zenon
    <3>2. args'.grpc = args.grpc
      BY <2>1, <2>3, Zenon
    <3> QED
      BY <3>1, <3>2, Zenon DEF Held
  <2> QED
    BY <2>2, <2>3, Zenon
<1>4. args'.config = IF Given("collector-config", T) = {} /\ Given("collector-config", R) = {} THEN "none"
                     ELSE Argument(Latest(Given("collector-config", T), Given("collector-config", R))).id
  <2> DEFINE takes == Index(argv[p]) = "collector-config" /\ Argument(p) # NoArg
  <2>1. Index(argv[p]) = "collector-config" /\ StatusAt(p) = "OK" <=> takes
    BY ConfigurationVerdict, Zenon DEF StatusAt
  <2>2. CASE takes
    <3>1. p \in Given("collector-config", T) /\ Last(Given("collector-config", T)) = p
      BY <2>2, GivenStep, Zenon DEF Given
    <3>2. args'.config = Argument(p).id
      BY <2>1, <2>2, Zenon
    <3> QED
      BY <3>1, <3>2, Zenon DEF Latest
  <2>3. CASE ~takes
    <3>1. Given("collector-config", T) = Given("collector-config", S)
      BY <2>3, GivenStep, Zenon
    <3>2. args'.config = args.config
      BY <2>1, <2>3, Zenon
    <3> QED
      BY <3>1, <3>2, Zenon DEF Held
  <2> QED
    BY <2>2, <2>3, Zenon
<1>5. args'.method = IF Given("collection-method", T) = {} /\ Given("collection-method", R) = {} THEN "none"
                     ELSE ParseCollectionMethod(
                            Argument(Latest(Given("collection-method", T), Given("collection-method", R))))
  <2> DEFINE takes == Index(argv[p]) = "collection-method" /\ Argument(p) # NoArg
  <2>1. CASE takes
    <3>1. p \in Given("collection-method", T) /\ Last(Given("collection-method", T)) = p
      BY <2>1, GivenStep, Zenon DEF Given
    <3>2. args'.method = ParseCollectionMethod(Argument(p))
      BY <2>1, Zenon
    <3> QED
      BY <3>1, <3>2, Zenon DEF Latest
  <2>2. CASE ~takes
    <3>1. Given("collection-method", T) = Given("collection-method", S)
      BY <2>2, GivenStep, Zenon
    <3>2. args'.method = args.method
      BY <2>2, Zenon
    <3> QED
      BY <3>1, <3>2, Zenon DEF Held
  <2> QED
    BY <2>1, <2>2, Zenon
<1> QED
    BY <1>1, <1>2, <1>3, <1>4, <1>5, Zenon DEF Held

\* When a walk ends, CollectorArgs holds its values as those of the walk before.
LEMMA HeldOver ==
    ASSUME NEW S, Held(S, {})
    PROVE  Held({}, S)
<1>1. Servers({}) = {} /\ \A index : Given(index, {}) = {}
    BY Zenon DEF Servers, Given
<1> QED
    BY <1>1, Zenon DEF Held, Latest

-----------------------------------------------------------------------------
\* A sequence of names makes a sequence of options.
LEMMA NamesToOptions ==
    ASSUME NEW s \in Seq(STRING), s # << >>, NEW x \in Known \cup {"unknown"}
    PROVE  LET o == [j \in DOMAIN s |-> [index |-> x, name |-> s[j]]]
           IN  /\ Len(s) \in Nat /\ Len(s) > 0
               /\ o \in Seq([index : Known \cup {"unknown"}, name : STRING])
               /\ Len(o) = Len(s) /\ o[1].index = x
<1> DEFINE o == [j \in DOMAIN s |-> [index |-> x, name |-> s[j]]]
<1>1. Len(s) \in Nat /\ Len(s) > 0 /\ DOMAIN s = 1 .. Len(s)
    OBVIOUS
<1>2. DOMAIN o = 1 .. Len(s)
    BY <1>1
<1>3. \A j \in 1 .. Len(s) : o[j] \in [index : Known \cup {"unknown"}, name : STRING]
    BY <1>1
<1>4. o \in [1 .. Len(s) -> [index : Known \cup {"unknown"}, name : STRING]]
    BY <1>1, <1>3
<1>5. o[1].index = x
    BY <1>1
<1> HIDE DEF o
<1>6. o \in Seq([index : Known \cup {"unknown"}, name : STRING]) /\ Len(o) = Len(s)
  <2>1. \A X, n, f : n \in Nat /\ f \in [1 .. n -> X] => f \in Seq(X) /\ Len(f) = n
    OBVIOUS
  <2> QED
    BY <1>1, <1>4, <2>1, Zenon
<1> QED
    BY <1>1, <1>5, <1>6, Zenon DEF o

\* The words have names, and the options of a word are as many.
LEMMA WordOptions ==
    ASSUME argv \in Seq(Words), NEW k, IsOption(k)
    PROVE  LET options == Options(argv[k])
           IN  /\ Len(argv[k].names) \in Nat /\ Len(argv[k].names) > 0
               /\ options \in Seq([index : Known \cup {"unknown"}, name : STRING])
               /\ Len(options) = Len(argv[k].names) /\ options[1].index = Index(argv[k])
<1>1. argv[k] \in Words /\ argv[k].form \in {"long", "short"}
    BY DEF IsOption
<1>2. argv[k].names \in Seq(STRING) /\ argv[k].names # << >>
    BY <1>1, WordsAssumption, Zenon
<1>3. Index(argv[k]) \in Known \cup {"unknown"}
    BY Zenon DEF Index
<1> QED
    BY <1>2, <1>3, NamesToOptions, Zenon DEF Options

\* c is b and then o.
Appends(c, b, o, O) ==
    /\ c \in Seq(O) /\ Len(c) = Len(b) + Len(o)
    /\ \A i \in DOMAIN b : i \in DOMAIN c /\ c[i] = b[i]
    /\ \E i \in DOMAIN c : c[i] = o[1]

\* The elements of two sequences, one after the other.
LEMMA Appended ==
    ASSUME NEW O, NEW b \in Seq(O), NEW o \in Seq(O), Len(o) > 0
    PROVE  Appends(b \o o, b, o, O)
<1>1. Len(b) + 1 \in DOMAIN (b \o o) /\ (b \o o)[Len(b) + 1] = o[1]
    OBVIOUS
<1>2. /\ b \o o \in Seq(O) /\ Len(b \o o) = Len(b) + Len(o)
      /\ \A i \in DOMAIN b : i \in DOMAIN (b \o o) /\ (b \o o)[i] = b[i]
    OBVIOUS
<1> QED
    BY <1>1, <1>2, Zenon DEF Appends

\* Storing the options of a word keeps the ones that are stored.
LEMMA BufferedStep ==
    ASSUME argv' = argv, argv \in Seq(Words), NEW S, NEW p, IsOption(p), Buffered(S),
           buffer \in Seq([index : Known \cup {"unknown"}, name : STRING]),
           buffer' = buffer \o Options(argv[p])
    PROVE  /\ buffer' \in Seq([index : Known \cup {"unknown"}, name : STRING])
           /\ Len(buffer') = Len(buffer) + Len(argv[p].names) /\ Buffered(S \cup {p})'
<1> DEFINE O == [index : Known \cup {"unknown"}, name : STRING]
<1>1. /\ Options(argv[p]) \in Seq(O) /\ Len(Options(argv[p])) > 0
      /\ Len(Options(argv[p])) = Len(argv[p].names) /\ Options(argv[p])[1].index = Index(argv[p])
    BY WordOptions, Zenon
<1>2. Appends(buffer', buffer, Options(argv[p]), O)
  <2> HIDE DEF O
  <2>1. Appends(buffer \o Options(argv[p]), buffer, Options(argv[p]), O)
    <3>1. buffer \in Seq(O)
      BY Zenon DEF O
    <3> QED
      BY <1>1, <3>1, Appended, Zenon
  <2> QED
    BY <2>1, Zenon
<1> HIDE DEF O
<1>3. /\ buffer' \in Seq(O) /\ Len(buffer') = Len(buffer) + Len(argv[p].names)
      /\ \A i \in DOMAIN buffer : i \in DOMAIN buffer' /\ buffer'[i] = buffer[i]
      /\ \E i \in DOMAIN buffer' : buffer'[i] = Options(argv[p])[1]
    BY <1>1, <1>2, Zenon DEF Appends
<1>4. ASSUME NEW k \in S \cup {p}
      PROVE  Stored(Index(argv[k]))'
  <2>1. CASE k \in S
    <3>1. PICK i \in DOMAIN buffer : buffer[i].index = Index(argv[k])
      BY <2>1, Zenon DEF Buffered, Stored
    <3> QED
      BY <1>3, <3>1, Zenon DEF Stored
  <2>2. CASE k = p
    BY <1>1, <1>3, <2>2, Zenon DEF Stored
  <2> QED
    BY <2>1, <2>2, Zenon
<1> QED
    BY <1>3, <1>4, Zenon DEF Buffered, O

-----------------------------------------------------------------------------
(***************************************************************************)
(* The steps.                                                              *)
(***************************************************************************)

\* Sets of words are sets of numbers, and an option is one of the words.
LEMMA WordPlaces ==
    ASSUME ArgsInv
    PROVE  /\ argv \in Seq(Words) /\ SUBSET DOMAIN argv \subseteq SUBSET Nat
           /\ \A k : IsOption(k) => k \in DOMAIN argv
           /\ pos \in Nat /\ pos \in Nat \ {0}
<1>1. argv \in Seq(Words) /\ pos \in Nat \ {0}
    BY Zenon DEF ArgsInv
<1>2. DOMAIN argv = 1 .. Len(argv) /\ 1 .. Len(argv) \subseteq Nat
    BY <1>1
<1> QED
    BY <1>1, <1>2, Zenon DEF IsOption

\* The first walk counts an option.
LEMMA CountParam ==
    ASSUME ArgsInv, Param, walk = "count", StatusAt(pos) # "ILLEGAL"
    PROVE  Counting' /\ buffer_max' \in Nat
<1>1. PICK p \in Nat \ {0}, S \in SUBSET DOMAIN argv, tally \in [Nat -> Nat] :
        p = pos /\ Path(S, p) /\ Tallied(S, p, tally) /\ buffer_max = 1 + tally[p] /\ Held(S, {})
    BY Zenon DEF ArgsInv, Counting
<1>2. IsOption(p) /\ argv' = argv /\ pos' = Jump(p) /\ buffer_max' = buffer_max + Len(Options(argv[p]))
    BY <1>1, ParamStep, Zenon
<1>3. PICK n \in Nat : n = Len(argv[p].names) /\ n = Len(Options(argv[p]))
    BY <1>2, WordPlaces, WordOptions, Zenon
<1> DEFINE T == S \cup {p}
<1>4. S \in SUBSET Nat /\ p \in Nat /\ T \in SUBSET DOMAIN argv
    BY <1>2, WordPlaces, Zenon
<1>5. tally[p] \in Nat /\ Jump(p) \in Nat \ {0}
  <2>1. \A x, y \in Nat : x < y => y # 0
    OBVIOUS
  <2> QED
    BY <1>4, <2>1, JumpsAhead, Zenon
<1>6. PICK J \in Nat \ {0} : J = Jump(p)
    BY <1>5, Zenon
<1>7. tally[p] + n \in Nat /\ (1 + tally[p]) + n = 1 + (tally[p] + n) /\ 1 + (tally[p] + n) \in Nat
  <2>1. \A i, j \in Nat : i + j \in Nat /\ (1 + i) + j = 1 + (i + j) /\ 1 + (i + j) \in Nat
    OBVIOUS
  <2> QED
    BY <1>5, <2>1, Zenon
<1>8. PICK t : Moved(t, tally, J, tally[p] + n)
    BY <1>6, <1>7, Updated, Zenon
<1>9. t \in [Nat -> Nat] /\ Tallied(T, J, t) /\ t[J] = tally[p] + n
    BY <1>1, <1>3, <1>4, <1>6, <1>8, TallyStep, Zenon DEF Moved
<1>10. Path(T, J)
    BY <1>1, <1>2, <1>4, <1>6, PathStep, Zenon
<1>11. Path(T, J)' /\ Tallied(T, J, t)'
    BY <1>2, <1>9, <1>10, SameWalks, Zenon
<1>12. Held(T, {})'
  <2>1. /\ args'.grpc = IF Index(argv[p]) = "grpc-server" /\ StatusAt(p) = "OK" THEN Argument(p).id ELSE args.grpc
        /\ args'.config = IF Index(argv[p]) = "collector-config" /\ StatusAt(p) = "OK" THEN Argument(p).id
                          ELSE args.config
        /\ args'.method = IF Index(argv[p]) = "collection-method" /\ Argument(p) # NoArg
                          THEN ParseCollectionMethod(Argument(p)) ELSE args.method
    BY <1>1, ParamStep, Zenon
  <2> QED
    BY <1>1, <1>2, <1>4, <2>1, HeldStep, Zenon
<1>13. buffer_max' = 1 + t[J] /\ J = pos'
    BY <1>1, <1>2, <1>3, <1>6, <1>7, <1>9, Zenon
<1>14. T \in SUBSET DOMAIN argv'
    BY <1>2, <1>4, Zenon
<1>15. Counting'
    BY <1>9, <1>11, <1>12, <1>13, <1>14, Zenon DEF Counting
<1> QED
    BY <1>7, <1>9, <1>13, <1>15, Zenon

\* The first walk ends, at a word that is not an option or is refused.
LEMMA CountEnds ==
    ASSUME ArgsInv, walk = "count", Over(pos), pos' = 1, UNCHANGED <<argv, buffer, buffer_max>>,
           args'.grpc = args.grpc, args'.config = args.config, args'.method = args.method
    PROVE  Storing'
<1>1. PICK p \in Nat \ {0}, S \in SUBSET DOMAIN argv, tally \in [Nat -> Nat] :
        p = pos /\ Path(S, p) /\ Tallied(S, p, tally) /\ buffer_max = 1 + tally[p] /\ Held(S, {})
    BY Zenon DEF ArgsInv, Counting
<1>2. Path(S, p) /\ Over(p) /\ Tallied(S, p, tally) /\ 1 \in S \cup {p} /\ tally[1] = 0
    BY <1>1, Zenon DEF Path, Tallied
<1>3. Len(buffer) = 0
  <2>1. buffer = << >>
    BY Zenon DEF ArgsInv
  <2> QED
    BY <2>1
<1>4. Held({}, S)'
    BY <1>1, HeldOver, HeldSame, Zenon
<1>5. Path(S, p)' /\ Over(p)' /\ Tallied(S, p, tally)'
    BY <1>2, SameWalks, Zenon
<1>6. Path({}, 1)' /\ Buffered({})'
    BY Zenon DEF Path, Buffered
<1>7. Len(buffer') = tally[1] /\ buffer_max' = 1 + tally[p] /\ 1 = pos'
    BY <1>1, <1>2, <1>3, Zenon
<1>8. S \in SUBSET DOMAIN argv' /\ {} \in SUBSET DOMAIN argv' /\ 1 \in Nat \ {0}
    OBVIOUS
<1> QED
    BY <1>2, <1>4, <1>5, <1>6, <1>7, <1>8, Zenon DEF Storing

\* What the second walk has stored fits, at every word of it.
LEMMA StoringFits ==
    ASSUME ArgsInv, walk = "store"
    PROVE  Len(buffer) < buffer_max
<1>1. PICK R \in SUBSET DOMAIN argv, e \in Nat \ {0}, tally \in [Nat -> Nat], S \in SUBSET DOMAIN argv, p \in Nat \ {0} :
        /\ Path(R, e) /\ Over(e) /\ Tallied(R, e, tally) /\ buffer_max = 1 + tally[e]
        /\ p = pos /\ p \in R \cup {e} /\ Len(buffer) = tally[p]
        /\ Path(S, p) /\ Held(S, R) /\ Buffered(S)
    BY Zenon DEF ArgsInv, Storing
<1>2. tally[p] <= tally[e] /\ tally[p] \in Nat /\ tally[e] \in Nat
    BY <1>1, Zenon DEF Tallied
<1>3. \A x, y \in Nat : x <= y => x < 1 + y
    OBVIOUS
<1> QED
    BY <1>1, <1>2, <1>3, Zenon

\* The second walk stores an option, which the first one has counted.
LEMMA StoreParam ==
    ASSUME ArgsInv, Param, walk = "store", StatusAt(pos) # "ILLEGAL"
    PROVE  Storing' /\ buffer' \in Seq([index : Known \cup {"unknown"}, name : STRING])
<1>1. PICK R \in SUBSET DOMAIN argv, e \in Nat \ {0}, tally \in [Nat -> Nat], S \in SUBSET DOMAIN argv, p \in Nat \ {0} :
        /\ Path(R, e) /\ Over(e) /\ Tallied(R, e, tally) /\ buffer_max = 1 + tally[e]
        /\ p = pos /\ p \in R \cup {e} /\ Len(buffer) = tally[p]
        /\ Path(S, p) /\ Held(S, R) /\ Buffered(S)
    BY Zenon DEF ArgsInv, Storing
<1>2. /\ IsOption(p) /\ argv' = argv /\ pos' = Jump(p) /\ StatusAt(p) # "ILLEGAL"
      /\ buffer' = buffer \o Options(argv[p]) /\ buffer_max' = buffer_max
  <2>1. walk # "count"
    OBVIOUS
  <2> QED
    BY <1>1, <2>1, ParamStep, Zenon
<1>3. p \in R
    BY <1>1, <1>2, Zenon DEF Over
<1>4. PICK J \in R \cup {e} : J = Jump(p)
    BY <1>1, <1>3, Zenon DEF Path
<1> DEFINE T == S \cup {p}
<1>5. S \in SUBSET Nat /\ p \in Nat /\ T \in SUBSET DOMAIN argv
    BY <1>2, WordPlaces, Zenon
<1>6. J \in Nat \ {0}
  <2>1. \A x, y \in Nat : x < y => y # 0
    OBVIOUS
  <2> QED
    BY <1>4, <1>5, <2>1, JumpsAhead, Zenon
<1>7. Path(R, e)' /\ Over(e)' /\ Tallied(R, e, tally)'
    BY <1>1, <1>2, SameWalks, Zenon
<1>8. Path(T, J)'
  <2>1. Path(T, J)
    BY <1>1, <1>2, <1>4, <1>5, PathStep, Zenon
  <2> QED
    BY <1>2, <2>1, SameWalks, Zenon
<1>9. Held(T, R)'
  <2>1. /\ args'.grpc = IF Index(argv[p]) = "grpc-server" /\ StatusAt(p) = "OK" THEN Argument(p).id ELSE args.grpc
        /\ args'.config = IF Index(argv[p]) = "collector-config" /\ StatusAt(p) = "OK" THEN Argument(p).id
                          ELSE args.config
        /\ args'.method = IF Index(argv[p]) = "collection-method" /\ Argument(p) # NoArg
                          THEN ParseCollectionMethod(Argument(p)) ELSE args.method
    BY <1>1, ParamStep, Zenon
  <2> QED
    BY <1>1, <1>2, <1>5, <2>1, HeldStep, Zenon
<1>10. /\ buffer' \in Seq([index : Known \cup {"unknown"}, name : STRING])
       /\ Len(buffer') = Len(buffer) + Len(argv[p].names) /\ Buffered(T)'
  <2>1. buffer \in Seq([index : Known \cup {"unknown"}, name : STRING]) /\ argv \in Seq(Words)
    BY Zenon DEF ArgsInv
  <2> QED
    BY <1>1, <1>2, <2>1, BufferedStep, Zenon
<1>11. Len(buffer') = tally[J] /\ buffer_max' = 1 + tally[e] /\ J = pos'
    BY <1>1, <1>2, <1>3, <1>4, <1>10, Zenon DEF Tallied
<1>12. R \in SUBSET DOMAIN argv' /\ T \in SUBSET DOMAIN argv'
    BY <1>2, <1>5, Zenon
<1>13. Storing'
    BY <1>4, <1>6, <1>7, <1>8, <1>9, <1>10, <1>11, <1>12, Zenon DEF Storing
<1> QED
    BY <1>10, <1>13, Zenon

\* The second walk ends at a word that is no option: both have passed them all.
LEMMA StoreEnds ==
    ASSUME ArgsInv, walk = "store", ~IsOption(pos), UNCHANGED <<argv, buffer, args>>
    PROVE  AllStored'
<1>1. PICK R \in SUBSET DOMAIN argv, e \in Nat \ {0}, tally \in [Nat -> Nat], S \in SUBSET DOMAIN argv, p \in Nat \ {0} :
        /\ Path(R, e) /\ Over(e) /\ Tallied(R, e, tally) /\ buffer_max = 1 + tally[e]
        /\ p = pos /\ p \in R \cup {e} /\ Len(buffer) = tally[p]
        /\ Path(S, p) /\ Held(S, R) /\ Buffered(S)
    BY Zenon DEF ArgsInv, Storing
<1>2. p = e /\ ~IsOption(e)
    BY <1>1, Zenon DEF Path
<1>3. Solves(R) /\ Solves(S)
    BY <1>1, <1>2, WordPlaces, PathSolves, Zenon
<1>4. S = R
    BY <1>3, WordPlaces, OneSolution, Zenon
<1>5. Solves(S)' /\ Held(S, S)'
  <2>1. Held(S, S) /\ args'.grpc = args.grpc /\ args'.config = args.config /\ args'.method = args.method
    BY <1>1, <1>4, Zenon
  <2>2. Held(S, S)'
    BY <2>1, HeldSame, Zenon
  <2> QED
    BY <1>3, <2>2, SameWalks, Zenon
<1>6. Buffered(S)'
    BY <1>1, Zenon DEF Buffered, Stored
<1>7. \A k \in S : (StatusAt(k) # "ILLEGAL")'
  <2>1. \A k \in S : StatusAt(k) # "ILLEGAL"
    BY <1>1, Zenon DEF Path
  <2> QED
    BY <2>1, SameWords, Zenon
<1>8. S \in SUBSET DOMAIN argv'
    BY Zenon
<1> QED
    BY <1>5, <1>6, <1>7, <1>8, Zenon DEF AllStored

\* Once argv is parsed it stays so.
LEMMA AllStoredSame ==
    ASSUME AllStored, UNCHANGED <<argv, buffer>>,
           args'.grpc = args.grpc, args'.config = args.config, args'.method = args.method
    PROVE  AllStored'
<1>1. PICK S \in SUBSET DOMAIN argv : Solves(S) /\ Held(S, S) /\ Buffered(S) /\ \A k \in S : StatusAt(k) # "ILLEGAL"
    BY Zenon DEF AllStored
<1>2. Solves(S)' /\ Held(S, S)'
    BY <1>1, SameWalks, HeldSame, Zenon
<1>3. Buffered(S)'
    BY <1>1, Zenon DEF Buffered, Stored
<1>4. \A k \in S : (StatusAt(k) # "ILLEGAL")'
    BY <1>1, SameWords, Zenon
<1>5. S \in SUBSET DOMAIN argv'
    BY Zenon
<1> QED
    BY <1>2, <1>3, <1>4, <1>5, Zenon DEF AllStored

-----------------------------------------------------------------------------
\* The first walk starts with nothing counted.
LEMMA ArgsStart == ArgsInit => ArgsInv
<1> SUFFICES ASSUME ArgsInit PROVE ArgsInv
    BY Zenon
<1>1. argv \in Seq(Words)
  <2>1. PICK n \in 0 .. MaxWords : argv \in [1 .. n -> Words]
    BY Zenon DEF ArgsInit
  <2>2. n \in Nat
    BY <2>1, WordsAssumption
  <2> QED
    BY <2>1, <2>2
<1>2. /\ pos = 1 /\ 1 \in Nat \ {0} /\ buffer_max = 1 /\ buffer = << >> /\ err = FALSE /\ walk = "count"
      /\ DOMAIN args = {"method", "config", "grpc", "message"}
      /\ args.method = "none" /\ args.config = "none" /\ args.grpc = "none"
  <2>1. 1 \in Nat \ {0}
    OBVIOUS
  <2> QED
    BY <2>1, Zenon DEF ArgsInit
<1>3. Counting
  <2> DEFINE tally == [k \in Nat |-> 0]
  <2>1. tally \in [Nat -> Nat] /\ tally[1] = 0 /\ 1 = 1 + tally[1] /\ tally[1] <= tally[1]
    OBVIOUS
  <2> HIDE DEF tally
  <2>2. Tallied({}, 1, tally)
    BY <2>1, Zenon DEF Tallied
  <2>3. Held({}, {})
    <3>1. Servers({}) = {} /\ \A index : Given(index, {}) = {}
      BY Zenon DEF Servers, Given
    <3> QED
      BY <1>2, <3>1, Zenon DEF Held
  <2>4. {} \in SUBSET DOMAIN argv
    BY Zenon
  <2>5. 1 = pos /\ buffer_max = 1 + tally[1]
    BY <1>2, <2>1, Zenon
  <2> QED
    BY <1>2, <2>1, <2>2, <2>3, <2>4, <2>5, PathStart, Zenon DEF Counting
<1>4. buffer \in Seq([index : Known \cup {"unknown"}, name : STRING]) /\ buffer_max \in Nat
    BY <1>2
<1>5. walk \notin {"store", "parsed", "exited", "running"} /\ Walking
    BY <1>2, Zenon DEF Walking
<1> QED
    BY <1>1, <1>2, <1>3, <1>4, <1>5, Zenon DEF ArgsInv

\* Every step of the walks, of CollectorArgs::parse and of main keeps the invariant.
LEMMA ArgsStep == ArgsInv /\ [ArgsNext]_argsVars => ArgsInv'
<1> SUFFICES ASSUME ArgsInv, [ArgsNext]_argsVars PROVE ArgsInv'
    BY Zenon
<1> DEFINE Bufs == Seq([index : Known \cup {"unknown"}, name : STRING])
<1>0. /\ argv \in Seq(Words) /\ pos \in Nat \ {0} /\ buffer_max \in Nat /\ err \in BOOLEAN
      /\ buffer \in Bufs /\ DOMAIN args = Fields
    BY Zenon DEF ArgsInv, Fields
<1> HIDE DEF Bufs
<1>1. ASSUME Param, StatusAt(pos) # "ILLEGAL"
      PROVE  ArgsInv'
  <2>1. /\ IsOption(pos) /\ argv' = argv /\ DOMAIN args' = Fields /\ walk' = walk /\ err' = err /\ pos' = Jump(pos)
        /\ walk = "count" => UNCHANGED buffer
        /\ walk # "count" => UNCHANGED buffer_max
        /\ walk \in {"count", "store"}
    BY <1>1, ParamStep, Zenon DEF Walking
  <2>2. pos' \in Nat \ {0}
    <3>1. \A x, y \in Nat : x < y => y \in Nat \ {0}
      OBVIOUS
    <3> QED
      BY <1>0, <2>1, <3>1, JumpsAhead, Zenon
  <2>3. Walking' /\ walk' \notin {"parsed", "exited", "running"} /\ "count" # "store"
    BY <2>1, Zenon DEF Walking
  <2>4. ~err'
    BY <2>1, Zenon DEF ArgsInv
  <2>5. CASE walk = "count"
    <3>1. Counting' /\ buffer_max' \in Nat /\ buffer' = << >>
      BY <1>1, <2>1, <2>5, CountParam, Zenon DEF ArgsInv
    <3> QED
      BY <1>0, <2>1, <2>2, <2>3, <2>4, <2>5, <3>1, Zenon DEF ArgsInv, Fields, Bufs
  <2>6. CASE walk = "store"
    <3>1. Storing' /\ buffer' \in Bufs
      BY <1>1, <2>6, StoreParam, Zenon DEF Bufs
    <3>2. buffer_max' \in Nat
      BY <1>0, <2>1, <2>3, <2>6, Zenon
    <3> QED
      BY <1>0, <2>1, <2>2, <2>3, <2>4, <2>6, <3>1, <3>2, Zenon DEF ArgsInv, Fields, Bufs
  <2> QED
    BY <2>1, <2>5, <2>6, Zenon
<1>2. ASSUME Param, StatusAt(pos) = "ILLEGAL"
      PROVE  ArgsInv'
  <2>1. /\ IsOption(pos) /\ argv' = argv /\ DOMAIN args' = Fields /\ pos' = 1 /\ UNCHANGED <<buffer_max, buffer>>
        /\ walk' = IF walk = "count" THEN "store" ELSE "parsed"
        /\ err' = (walk = "store")
        /\ walk \in {"count", "store"}
        /\ walk = "store" => args'.message # ""
    BY <1>2, ParamStep, Zenon DEF Walking
  <2>2. pos' \in Nat \ {0}
    <3>1. 1 \in Nat \ {0}
      OBVIOUS
    <3> QED
      BY <2>1, <3>1, Zenon
  <2>3. args'.grpc = args.grpc /\ args'.config = args.config /\ args'.method = args.method
    <3>1. StatusAt(pos) # "OK"
      BY <1>2
    <3>2. Index(argv[pos]) # "collection-method"
      <4>1. Index(argv[pos]) = "collection-method" => StatusAt(pos) = "OK"
        BY DEF StatusAt
      <4> QED
        BY <3>1, <4>1, Zenon
    <3> QED
      BY <1>2, <3>1, <3>2, ParamStep, Zenon
  <2>4. CASE walk = "count"
    <3>1. Storing'
      BY <1>2, <2>1, <2>3, <2>4, CountEnds, Zenon DEF Over
    <3>2. ~err' /\ walk' = "store" /\ err' \in BOOLEAN
      BY <2>1, <2>4, Zenon
    <3>3. Walking' /\ walk' \notin {"count", "parsed", "exited", "running"}
      BY <3>2, Zenon DEF Walking
    <3> QED
      BY <1>0, <2>1, <2>2, <3>1, <3>2, <3>3, Zenon DEF ArgsInv, Fields, Bufs
  <2>5. CASE walk = "store"
    <3>1. Len(buffer') < buffer_max'
      BY <2>1, <2>5, StoringFits, Zenon
    <3>2. err' /\ walk' = "parsed" /\ err' \in BOOLEAN
      BY <2>1, <2>5, Zenon
    <3>3. walk' \notin {"count", "store", "exited", "running"}
      BY <3>2, Zenon
    <3> QED
      BY <1>0, <2>1, <2>2, <2>5, <3>1, <3>2, <3>3, Zenon DEF ArgsInv, Fields, Bufs
  <2> QED
    BY <2>1, <2>4, <2>5, Zenon
<1>3. ASSUME Finished
      PROVE  ArgsInv'
  <2>1. /\ UNCHANGED <<argv, buffer_max, buffer, err, args>> /\ pos' = 1
        /\ walk' = IF walk = "count" THEN "store" ELSE "parsed"
        /\ walk \in {"count", "store"}
    BY <1>3, Zenon DEF Finished, Walking
  <2>2. pos' \in Nat \ {0}
    BY <2>1
  <2>3. ~IsOption(pos)
    <3>1. IsOption(pos) => pos <= Len(argv)
      BY <1>0 DEF IsOption
    <3>2. argv[pos].form \in {"plain", "end"} => argv[pos].form \notin {"long", "short"}
      BY Zenon
    <3> QED
      BY <1>3, <3>1, <3>2, Zenon DEF Finished, IsOption
  <2>4. ~err
    BY <2>1, Zenon DEF ArgsInv
  <2>5. CASE walk = "count"
    <3>1. Storing'
      BY <2>1, <2>3, <2>5, CountEnds, Zenon DEF Over
    <3>2. ~err' /\ walk' = "store"
      BY <2>1, <2>4, <2>5, Zenon
    <3>3. Walking' /\ walk' \notin {"count", "parsed", "exited", "running"}
      BY <3>2, Zenon DEF Walking
    <3> QED
      BY <1>0, <2>1, <2>2, <3>1, <3>2, <3>3, Zenon DEF ArgsInv, Fields, Bufs
  <2>6. CASE walk = "store"
    <3>1. Len(buffer') < buffer_max' /\ AllStored'
      BY <2>1, <2>3, <2>6, StoringFits, StoreEnds, Zenon
    <3>2. ~err' /\ walk' = "parsed"
      BY <2>1, <2>4, <2>6
    <3>3. walk' \notin {"count", "store", "exited", "running"}
      BY <3>2, Zenon
    <3> QED
      BY <1>0, <2>1, <2>2, <3>1, <3>2, <3>3, Zenon DEF ArgsInv, Fields, Bufs
  <2> QED
    BY <2>1, <2>5, <2>6, Zenon
<1>4. ASSUME ParseArgs
      PROVE  ArgsInv'
  <2>1. /\ UNCHANGED <<argv, pos, buffer_max, buffer, err>> /\ walk = "parsed"
        /\ walk' = IF Parsed.ok THEN "running" ELSE "exited"
        /\ args' = [args EXCEPT !.message = Parsed.message]
    BY <1>4, Zenon DEF ParseArgs
  <2>2. /\ DOMAIN args' = Fields /\ args'.message = Parsed.message
        /\ args'.grpc = args.grpc /\ args'.config = args.config /\ args'.method = args.method
    BY <1>0, <2>1 DEF Fields
  <2>3. Len(buffer) < buffer_max /\ (err \/ AllStored)
    BY <2>1, Zenon DEF ArgsInv, Walking
  <2>4. Len(buffer') < buffer_max' /\ (err' \/ AllStored')
    BY <2>1, <2>2, <2>3, AllStoredSame, Zenon
  <2>5. walk' \in {"running", "exited"} /\ walk' \notin {"count", "store", "parsed"}
    BY <2>1, Zenon
  <2>6. walk' = "running" => ~err' /\ ~Stored("help")' /\ ~Stored("unknown")'
    <3>1. walk' = "running" => Parsed.ok
      BY <2>1
    <3>2. Parsed.ok => ~err /\ ~Stored("help") /\ ~Stored("unknown")
      BY DEF Parsed
    <3> QED
      BY <2>1, <3>1, <3>2, Zenon DEF Stored
  <2>7. err' \/ walk' = "exited" => args'.message # ""
    <3>1. err => args.message # "" /\ Parsed.message = args.message
      BY Zenon DEF ArgsInv, Parsed
    <3>2. walk' = "exited" => ~Parsed.ok
      BY <2>1
    <3>3. ~err /\ ~Parsed.ok => Parsed.message \in {"usage", "unknown option"}
      BY Zenon DEF Parsed
    <3>4. Parsed.message \in {"usage", "unknown option"} => Parsed.message # ""
      BY Zenon
    <3> QED
      BY <2>1, <2>2, <3>1, <3>2, <3>3, <3>4, Zenon
  <2> QED
    BY <1>0, <2>1, <2>2, <2>4, <2>5, <2>6, <2>7, Zenon DEF ArgsInv, Fields, Bufs
<1>5. ASSUME UNCHANGED argsVars
      PROVE  ArgsInv'
  <2>1. UNCHANGED <<argv, walk, pos, buffer_max, buffer, err, args>>
    BY <1>5, Zenon DEF argsVars
  <2>2. Counting => Counting'
    <3>1. \A S : Held(S, {}) => Held(S, {})'
      BY <2>1, HeldSame, Zenon
    <3> QED
      BY <2>1, <3>1, SameWalks, Zenon DEF Counting
  <2>3. Storing => Storing'
    <3>1. \A S, R : Held(S, R) => Held(S, R)'
      BY <2>1, HeldSame, Zenon
    <3>2. \A S : Buffered(S) => Buffered(S)'
      BY <2>1, Zenon DEF Buffered, Stored
    <3>3. ASSUME NEW R \in SUBSET DOMAIN argv, NEW e \in Nat \ {0}, NEW tally \in [Nat -> Nat],
                 NEW S \in SUBSET DOMAIN argv, NEW p \in Nat \ {0},
                 Path(R, e), Over(e), Tallied(R, e, tally), buffer_max = 1 + tally[e],
                 p = pos, p \in R \cup {e}, Len(buffer) = tally[p], Path(S, p), Held(S, R), Buffered(S)
          PROVE  Storing'
      <4>1. Path(R, e)' /\ Over(e)' /\ Tallied(R, e, tally)' /\ Path(S, p)'
        BY <2>1, <3>3, SameWalks, Zenon
      <4>2. /\ buffer_max' = 1 + tally[e] /\ p = pos' /\ Len(buffer') = tally[p]
            /\ R \in SUBSET DOMAIN argv' /\ S \in SUBSET DOMAIN argv'
        BY <2>1, <3>3, Zenon
      <4> QED
        BY <3>1, <3>2, <3>3, <4>1, <4>2, Zenon DEF Storing
    <3> QED
      BY <3>3, Zenon DEF Storing
  <2>4. AllStored => AllStored'
    BY <2>1, AllStoredSame, Zenon
  <2>5. \A index : Stored(index)' <=> Stored(index)
    BY <2>1, Zenon DEF Stored
  <2> QED
    BY <2>1, <2>2, <2>3, <2>4, <2>5, Zenon DEF ArgsInv, Walking
<1> QED
    BY <1>1, <1>2, <1>3, <1>4, <1>5, Zenon DEF ArgsNext

\* The invariant bounds the buffer, and the options it finds stored are the ones
\* that the command line has.
LEMMA ArgsInvSound == ArgsInv => CommandLineSound
<1> SUFFICES ASSUME ArgsInv PROVE CommandLineSound
    BY Zenon
<1>1. BufferSuffices
  <2>1. CASE walk = "count"
    <3>1. PICK p \in Nat \ {0}, tally \in [Nat -> Nat] : buffer_max = 1 + tally[p]
      BY <2>1, Zenon DEF ArgsInv, Counting
    <3>2. Len(buffer) = 0
      <4>1. buffer = << >>
        BY <2>1, Zenon DEF ArgsInv
      <4> QED
        BY <4>1
    <3>3. tally[p] \in Nat
      BY Zenon
    <3>4. \A x \in Nat : 0 < 1 + x
      OBVIOUS
    <3> QED
      BY <3>1, <3>2, <3>3, <3>4, Zenon DEF BufferSuffices
  <2>2. CASE walk = "store"
    BY <2>2, StoringFits, Zenon DEF BufferSuffices
  <2>3. CASE ~Walking
    BY <2>3, Zenon DEF ArgsInv, BufferSuffices
  <2> QED
    BY <2>1, <2>2, <2>3, Zenon DEF Walking
<1>2. FailureExplained
    BY Zenon DEF ArgsInv, FailureExplained
<1>3. CommandLineHonoured
  <2> SUFFICES ASSUME walk = "running" PROVE CommandLineHonoured
    BY Zenon DEF CommandLineHonoured
  <2>1. ~err /\ ~Stored("help") /\ ~Stored("unknown") /\ ~Walking
    BY Zenon DEF ArgsInv, Walking
  <2>2. PICK S \in SUBSET DOMAIN argv : Solves(S) /\ Held(S, S) /\ Buffered(S) /\ \A k \in S : StatusAt(k) # "ILLEGAL"
    BY <2>1, Zenon DEF ArgsInv, AllStored
  <2>3. OptionPlaces = S
    <3>1. Solves(OptionPlaces)
      BY <2>2, Zenon DEF OptionPlaces, Solves
    <3> QED
      BY <2>2, <3>1, OneSolution, WordPlaces, Zenon
  <2>4. \A k \in S : Index(argv[k]) \notin {"help", "unknown"}
    BY <2>1, <2>2, Zenon DEF Buffered
  <2>5. \A k \in Servers(S) : CheckGrpcServer(Argument(k)).status = "OK"
    <3> TAKE k \in Servers(S)
    <3>1. k \in S /\ Index(argv[k]) = "grpc-server" /\ Argument(k) # NoArg /\ Argument(k).id # ""
      BY Zenon DEF Servers, Given
    <3>2. StatusAt(k) = CheckGrpcServer(Argument(k)).status
      BY <3>1, Zenon DEF StatusAt
    <3> QED
      BY <2>2, <3>1, <3>2, ServerVerdict, Zenon
  <2>6. \A k \in Given("collector-config", S) : Argument(k).json
    <3> TAKE k \in Given("collector-config", S)
    <3>1. k \in S /\ Index(argv[k]) = "collector-config" /\ Argument(k) # NoArg
      BY Zenon DEF Given
    <3>2. StatusAt(k) = CheckConfiguration(Argument(k)).status
      BY <3>1, Zenon DEF StatusAt
    <3> QED
      BY <2>2, <3>1, <3>2, ConfigurationVerdict, Zenon
  <2>7. \A T : Latest(T, T) = Last(T)
    BY Zenon DEF Latest
  <2>8. /\ args.grpc = IF Servers(S) = {} THEN "none" ELSE Argument(Last(Servers(S))).id
        /\ args.config = IF Given("collector-config", S) = {} THEN "none"
                         ELSE Argument(Last(Given("collector-config", S))).id
        /\ args.method = IF Given("collection-method", S) = {} THEN "none"
                         ELSE ParseCollectionMethod(Argument(Last(Given("collection-method", S))))
    BY <2>2, <2>7, Zenon DEF Held
  <2> QED
    BY <2>3, <2>4, <2>5, <2>6, <2>8, Zenon DEF CommandLineHonoured
<1> QED
    BY <1>1, <1>2, <1>3, Zenon DEF CommandLineSound

\* However the words of a command line, of any length, are mistaken for options and
\* arguments: the second walk of option::Parser over them stores no more options
\* than the first one counted, so that the buffer of CollectorArgs::parse suffices;
\* a refused command line has a message; and on an accepted one every option is
\* known and well formed and the last value of each is the one that is used.
THEOREM CommandLineIsSound == ArgsSpec => []CommandLineSound
<1>1. ArgsInit => ArgsInv
    BY ArgsStart
<1>2. ArgsInv /\ [ArgsNext]_argsVars => ArgsInv'
    BY ArgsStep
<1>3. ArgsInv => CommandLineSound
    BY ArgsInvSound
<1> QED
    BY <1>1, <1>2, <1>3, PTL DEF ArgsSpec

=============================================================================
