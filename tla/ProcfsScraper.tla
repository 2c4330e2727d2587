---------------------------- MODULE ProcfsScraper ----------------------------
(***************************************************************************)
(* One scrape after another of /proc (ProcfsScraper.cpp) while processes   *)
(* open, share and close sockets, exit and are reaped.  The directory is   *)
(* read process by process: its container and network namespace, the       *)
(* sockets among its file descriptors and, for the first sockets of a      *)
(* container in a namespace, the two tables of that namespace; what was    *)
(* read is joined at the end.                                              *)
(*                                                                         *)
(* A process is its pid.  A socket is its inode; Sockets maps it to its    *)
(* line in a table: [family, listen, lport, rport, local, relevant], where *)
(* local is an address or AnyAddress.  The file descriptors of a process    *)
(* and one table are read at once; a process keeps its namespace.           *)
(***************************************************************************)
EXTENDS Naturals

CONSTANTS
    Container,      \* [pid -> the container that its cgroup names, or NoContainer]
    Namespace,      \* [pid -> network namespace]
    Sockets,        \* [inode -> the line of its table]
    NoTcp6,         \* namespaces without a table net/tcp6
    NoContainer,
    AnyAddress,     \* the address of a socket that listens on any interface
    ListenEndpoints, \* whether the caller asks for the listening endpoints
    MaxChanges,     \* bound on what the processes do
    MaxScrapes      \* bound on the number of scrapes

Process == DOMAIN Container
Inode == DOMAIN Sockets

ScraperAssumption ==
    /\ Process \subseteq Nat /\ DOMAIN Namespace = Process /\ ListenEndpoints \in BOOLEAN
    /\ \A s \in Inode : Sockets[s].family \in {"IPV4", "IPV6"}

ASSUME HostAssumption == ScraperAssumption

VARIABLES
    proc,           \* [Process -> {"alive", "zombie", "gone"}]
    fds,            \* [Process -> SUBSET Inode]: open file descriptors
    used,           \* inodes that were in use at some time
    changes,        \* bound: what the processes did so far
    scrape,         \* the thread: [pc, pid, todo, ok, count]
    sockets,        \* sockets_by_container_and_ns: a set of [container, ns, inode, pid]
    conns,          \* conns_by_ns: [ns -> set of [inode, is_server]], for some ns
    result,         \* the two lists of a scrape: a set of [container, inode, is_server, pid]; an
                    \* endpoint has the process pid, a connection only came from it
    throughout,     \* history: the <<pid, inode>> that were open all the time since the scrape began
    sometime,       \* history: the <<pid, inode>> that were open at some time since
    dropped         \* history: namespaces whose tables could not be read as the process had gone

kernel == <<proc, fds, used, changes>>
thread == <<scrape, sockets, conns, result, dropped>>
vars == <<proc, fds, used, changes, scrape, sockets, conns, result, throughout, sometime, dropped>>

\* Who has what open.
Open(f) == UNION {{p} \X f[p] : p \in Process}

-----------------------------------------------------------------------------
(***************************************************************************)
(* The processes.                                                          *)
(***************************************************************************)

Change ==
    /\ changes < MaxChanges /\ changes' = changes + 1
    /\ throughout' = throughout \cap Open(fds') /\ sometime' = sometime \cup Open(fds')
    /\ UNCHANGED thread

OpenSocket ==
    /\ \E p \in Process, s \in Inode \ used :
        /\ proc[p] = "alive"
        /\ fds' = [fds EXCEPT ![p] = @ \cup {s}] /\ used' = used \cup {s}
    /\ UNCHANGED proc /\ Change

\* A process inherits a socket of another process of its container.
Share ==
    /\ \E p, q \in Process : \E s \in fds[p] \ fds[q] :
        /\ proc[q] = "alive" /\ Container[p] = Container[q] /\ Namespace[p] = Namespace[q]
        /\ fds' = [fds EXCEPT ![q] = @ \cup {s}]
    /\ UNCHANGED <<proc, used>> /\ Change

CloseSocket ==
    /\ \E p \in Process : \E s \in fds[p] : fds' = [fds EXCEPT ![p] = @ \ {s}]
    /\ UNCHANGED <<proc, used>> /\ Change

Exit ==
    /\ \E p \in Process :
        /\ proc[p] = "alive"
        /\ proc' = [proc EXCEPT ![p] = "zombie"] /\ fds' = [fds EXCEPT ![p] = {}]
    /\ UNCHANGED used /\ Change

Reap ==
    /\ \E p \in Process : proc[p] = "zombie" /\ proc' = [proc EXCEPT ![p] = "gone"]
    /\ UNCHANGED <<fds, used>> /\ Change

-----------------------------------------------------------------------------
(***************************************************************************)
(* The tables of a namespace.                                              *)
(***************************************************************************)

Table(n, family) ==
    {s \in UNION {fds[p] : p \in {q \in Process : Namespace[q] = n}} : Sockets[s].family = family}

\* The confidence that a port is ephemeral.
IsEphemeralPort(port) ==
    CASE port >= 49152                 -> 4
      [] port \in 32768 .. 49151       -> 3
      [] port \in 1025 .. 5000         -> 2
      [] port = 1024                   -> 1
      [] OTHER                         -> 0

LocalIsServer(line, listening) ==
    \/ \E l \in listening : l.lport = line.lport /\ l.local \in {line.local, AnyAddress}
    \/ IsEphemeralPort(line.rport) > IsEphemeralPort(line.lport)

\* ReadConnectionsFromFile: the listening sockets come first.
ReadConnectionsFromFile(n, family) ==
    LET table == Table(n, family)
        listening == {Sockets[s] : s \in {t \in table : Sockets[t].listen}}
    IN  {[inode |-> s, is_server |-> ~Sockets[s].listen /\ LocalIsServer(Sockets[s], listening)] : s \in table}

-----------------------------------------------------------------------------
(***************************************************************************)
(* ReadContainerConnections.                                               *)
(***************************************************************************)

Local == UNCHANGED <<throughout, sometime>> /\ UNCHANGED kernel

At(pc) == scrape.pc = pc

\* Faulty variant: what an earlier scrape found is not cleared.
BeginKeeping ==
    /\ At("idle") /\ scrape.count < MaxScrapes
    /\ scrape' = [scrape EXCEPT !.pc = "next", !.todo = Process, !.count = @ + 1]
    /\ result' = {} /\ dropped' = {} /\ UNCHANGED <<sockets, conns>>
    /\ throughout' = Open(fds) /\ sometime' = Open(fds)
    /\ UNCHANGED kernel

\* /proc is opened, or Scrape fails.
Begin ==
    /\ At("idle") /\ scrape.count < MaxScrapes
    /\ scrape' = [scrape EXCEPT !.pc = "next", !.todo = Process, !.count = @ + 1]
    /\ sockets' = {} /\ conns' = << >> /\ result' = {} /\ dropped' = {}
    /\ throughout' = Open(fds) /\ sometime' = Open(fds)
    /\ UNCHANGED kernel
ScrapeFails ==
    /\ At("idle") /\ scrape.count < MaxScrapes
    /\ scrape' = [scrape EXCEPT !.count = @ + 1]
    /\ UNCHANGED <<sockets, conns, result, dropped>> /\ Local

Skip(p) == scrape' = [scrape EXCEPT !.pc = "next", !.todo = @ \ {p}]

\* The state, the container and the namespace of the next process, in the order
\* of the pids; one that is
\* not alive, or not in a container, is skipped.
Identify ==
    /\ At("next")
    /\ \E p \in scrape.todo :
        /\ \A q \in scrape.todo : p <= q
        /\ IF proc[p] = "alive" /\ Container[p] # NoContainer
           THEN scrape' = [scrape EXCEPT !.pc = "fds", !.pid = p]
           ELSE Skip(p)
    /\ UNCHANGED <<sockets, conns, result, dropped>> /\ Local

Of(p) == {r \in sockets : r.container = Container[p] /\ r.ns = Namespace[p]}

\* Faulty variant: the sockets of each process are kept, also the shared ones.
NewSocketsOfEach(p) == {[container |-> Container[p], ns |-> Namespace[p], inode |-> s, pid |-> p] : s \in fds[p]}

\* An inode that is in the set already keeps its process.
NewSockets(p) ==
    {[container |-> Container[p], ns |-> Namespace[p], inode |-> s, pid |-> p] :
        s \in fds[p] \ {r.inode : r \in Of(p)}}

\* GetSocketINodes, which fails when the process is not alive any more; the tables
\* are read with the first sockets of a container in a namespace.
GetSocketINodes ==
    /\ At("fds")
    /\ LET p == scrape.pid
           first == Of(p) = {} /\ fds[p] # {} /\ Namespace[p] \notin DOMAIN conns
       IN  IF proc[p] # "alive" THEN Skip(p) /\ UNCHANGED <<sockets, conns>>
           ELSE /\ sockets' = sockets \cup NewSockets(p)
                /\ IF first
                   THEN /\ conns' = [n \in DOMAIN conns \cup {Namespace[p]} |-> IF n = Namespace[p] THEN {} ELSE conns[n]]
                        /\ scrape' = [scrape EXCEPT !.pc = "tcp", !.ok = TRUE]
                   ELSE Skip(p) /\ UNCHANGED conns
    /\ UNCHANGED <<result, dropped>> /\ Local

\* Faulty variant: the second table takes the place of the first.
ReadTableOver(family, next) ==
    LET p == scrape.pid
        n == Namespace[p]
        readable == proc[p] = "alive" /\ ~(family = "IPV6" /\ n \in NoTcp6)
    IN  /\ conns' = IF readable THEN [conns EXCEPT ![n] = ReadConnectionsFromFile(n, family)] ELSE conns
        /\ scrape' = [scrape EXCEPT !.pc = next, !.ok = @ /\ readable]
        /\ UNCHANGED <<sockets, result, dropped>> /\ Local

\* GetConnections: one table after the other; the second may be missing.
ReadTable(family, next) ==
    LET p == scrape.pid
        n == Namespace[p]
        readable == proc[p] = "alive" /\ ~(family = "IPV6" /\ n \in NoTcp6)
    IN  /\ conns' = IF readable THEN [conns EXCEPT ![n] = @ \cup ReadConnectionsFromFile(n, family)] ELSE conns
        /\ scrape' = [scrape EXCEPT !.pc = next, !.ok = @ /\ readable]
        /\ UNCHANGED <<sockets, result, dropped>> /\ Local
ReadTcp == At("tcp") /\ ReadTable("IPV4", "tcp6")
ReadTcp6 == At("tcp6") /\ ReadTable("IPV6", "check")

\* After an error the namespace is read again, to tell a process that has gone
\* from a table that is missing.
GiveUp == ~scrape.ok /\ proc[scrape.pid] # "alive"

CheckNamespace ==
    /\ At("check")
    /\ LET n == Namespace[scrape.pid]
           gone == ~scrape.ok /\ proc[scrape.pid] # "alive"
       IN  /\ conns' = IF GiveUp THEN [m \in DOMAIN conns \ {n} |-> conns[m]] ELSE conns
           /\ dropped' = IF gone THEN dropped \cup {n} ELSE dropped
    /\ Skip(scrape.pid)
    /\ UNCHANGED <<sockets, result>> /\ Local

Found(r) == IF r.ns \in DOMAIN conns THEN conns[r.ns] ELSE {}

\* IsRelevantConnection or IsRelevantEndpoint; endpoints only on request.
Wanted(s) == Sockets[s].relevant /\ (Sockets[s].listen => ListenEndpoints)

ResolveSocketInodes ==
    /\ At("next") /\ scrape.todo = {}
    /\ result' = {[container |-> r.container, inode |-> r.inode, pid |-> r.pid,
                   is_server |-> [inode |-> r.inode, is_server |-> TRUE] \in Found(r)] :
                    r \in {x \in sockets : Wanted(x.inode) /\ x.inode \in {f.inode : f \in Found(x)}}}
    /\ scrape' = [scrape EXCEPT !.pc = "done"]
    /\ UNCHANGED <<sockets, conns, dropped>> /\ Local

Return ==
    /\ At("done")
    /\ scrape' = [scrape EXCEPT !.pc = "idle"]
    /\ UNCHANGED <<sockets, conns, result, dropped>> /\ Local

-----------------------------------------------------------------------------
(***************************************************************************)
(* Specification.                                                          *)
(***************************************************************************)

\* Every process is alive and some sockets are open.
Init ==
    /\ proc = [p \in Process |-> "alive"]
    /\ fds \in [Process -> SUBSET Inode] /\ used = UNION {fds[p] : p \in Process}
    /\ \A p, q \in Process : fds[p] \cap fds[q] # {} => Container[p] = Container[q] /\ Namespace[p] = Namespace[q]
    /\ changes = 0
    /\ scrape = [pc |-> "idle", pid |-> 0, todo |-> {}, ok |-> TRUE, count |-> 0]
    /\ sockets = {} /\ conns = << >> /\ result = {} /\ dropped = {}
    /\ throughout = {} /\ sometime = {}

Next ==
    \/ OpenSocket \/ Share \/ CloseSocket \/ Exit \/ Reap
    \/ Begin \/ ScrapeFails \/ Identify \/ GetSocketINodes \/ ReadTcp \/ ReadTcp6
    \/ CheckNamespace \/ ResolveSocketInodes \/ Return

Spec == Init /\ [][Next]_vars

-----------------------------------------------------------------------------
(***************************************************************************)
(* Properties.                                                             *)
(***************************************************************************)

Reported(p, s) == \E r \in result : r.container = Container[p] /\ r.inode = s

\* What a process of a container could be expected to contribute.
Scrapable(p, s) == Container[p] # NoContainer /\ Wanted(s) /\ ~(Sockets[s].family = "IPV6" /\ Namespace[p] \in NoTcp6)

\* Whatever a scrape reports was open, in that container and under that process,
\* at some time while it was made (ProcfsScraper.cpp:446-481).
ScrapeSound ==
    At("done") => \A r \in result : <<r.pid, r.inode>> \in sometime /\ r.container = Container[r.pid]

\* A socket that was open all the time is reported, whichever processes come and
\* go around it, unless the process through which the tables of its
\* namespace were read had gone; a missing net/tcp6 alone loses nothing (ProcfsScraper.cpp:552-564).
CompleteUnlessDropped ==
    At("done") => \A o \in throughout : Scrapable(o[1], o[2]) /\ Namespace[o[1]] \notin dropped => Reported(o[1], o[2])

\* However many processes of a container have a socket open, it is reported once,
\* and under one process (ProcfsScraper.cpp:108-114).
ReportedOnce == \A r, q \in result : r.container = q.container /\ r.inode = q.inode => r = q

\* A scrape is a snapshot of all active connections: one that is there all the
\* time is reported.
SnapshotOfAll ==
    At("done") => \A o \in throughout : Scrapable(o[1], o[2]) => Reported(o[1], o[2])

=============================================================================
