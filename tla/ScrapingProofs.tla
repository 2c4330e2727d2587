---------------------------- MODULE ScrapingProofs ----------------------------
(***************************************************************************)
(* For any processes, containers, namespaces and sockets, and however they *)
(* change while /proc is read: a scrape reports a socket once, only one    *)
(* that its process had open in the meantime, and every one that was open  *)
(* all the time, unless the tables of its namespace were lost.  For any    *)
(* number of processes and objects, and whichever of the threads drops the *)
(* last reference: a pid has one Process object, and the cache leads to    *)
(* it.  For any number of sessions: a profiler that is off has the         *)
(* complete profile of its last session.                                   *)
(***************************************************************************)
EXTENDS ProcfsScraper, ProcessStore, ProfilerHandler, TLAPS

\* Zenon is the default prover here; a leaf that needs arithmetic, records or
\* function updates names SMT instead.
USE ZenonT(60)

\* p has s open, or had it since the scrape began.
Had(p, s) == <<p, s>> \in sometime \/ s \in fds[p]

\* A socket that was in use is not used again, and stays in its container and
\* namespace.
Home ==
    /\ fds \in [Process -> SUBSET Inode] /\ used \subseteq Inode /\ sometime \subseteq Process \X Inode
    /\ \A p \in Process, s \in Inode : Had(p, s) => s \in used
    /\ \A p, q \in Process, s \in Inode :
        Had(p, s) /\ Had(q, s) => Container[p] = Container[q] /\ Namespace[p] = Namespace[q]

\* What is open is in the history of the scrape that is going on.
Watched == scrape.pc # "idle" => \A p \in Process, s \in Inode : s \in fds[p] => <<p, s>> \in sometime

\* A process the scraper looks at is one.
Scraping ==
    /\ scrape \in [pc : {"idle", "next", "fds", "tcp", "tcp6", "check", "done"}, pid : Process \cup {0},
                   todo : SUBSET Process,
                   ok : BOOLEAN, count : Nat]
    /\ scrape.pc \in {"fds", "tcp", "tcp6", "check"} => scrape.pid \in Process

\* Each recorded socket was found at its process, and is there once.
Recorded ==
    /\ \A r \in sockets : /\ r.pid \in Process /\ r.inode \in Inode /\ <<r.pid, r.inode>> \in sometime
                          /\ r.container = Container[r.pid] /\ r.ns = Namespace[r.pid]
    /\ \A r, q \in sockets : r.inode = q.inode => r = q

\* And so is each that is reported.
Resulting ==
    /\ \A r \in result : <<r.pid, r.inode>> \in sometime /\ r.container = Container[r.pid]
    /\ \A r, q \in result : r.inode = q.inode => r = q

IInv == Home /\ Watched /\ Scraping /\ Recorded /\ Resulting

-----------------------------------------------------------------------------
\* Who has what open, as a relation.
LEMMA OpenPairs ==
    ASSUME NEW f \in [Process -> SUBSET Inode]
    PROVE  /\ Open(f) \subseteq Process \X Inode
           /\ \A p \in Process, s \in Inode : <<p, s>> \in Open(f) <=> s \in f[p]
BY SMTT(60) DEF Open

\* At first nothing was scraped.
LEMMA InitIInv == Init => IInv
<1> SUFFICES ASSUME Init PROVE IInv
  OBVIOUS
<1>1. Home
  BY DEF Init, Home, Had
<1>2. Watched /\ Scraping
  BY DEF Init, Watched, Scraping
<1>3. Recorded /\ Resulting
  BY DEF Init, Recorded, Resulting
<1> QED
  BY <1>1, <1>2, <1>3 DEF IInv

\* The processes may do what keeps a socket at home.
LEMMA ChangeStep ==
    ASSUME IInv, Change, fds' \in [Process -> SUBSET Inode], used \subseteq used', used' \subseteq Inode,
           \A p \in Process : \A s \in fds'[p] : s \in used',
           \A p, q \in Process, s \in Inode : s \in fds'[p] /\ (Had(q, s) \/ s \in fds'[q])
                => Container[p] = Container[q] /\ Namespace[p] = Namespace[q]
    PROVE  IInv'
<1>1. /\ sometime' = sometime \cup Open(fds') /\ UNCHANGED <<scrape, sockets, result>>
  BY DEF Change, thread
<1>2. /\ Open(fds') \subseteq Process \X Inode
      /\ \A p \in Process, s \in Inode : <<p, s>> \in Open(fds') <=> s \in fds'[p]
  BY OpenPairs
<1>3. sometime' \subseteq Process \X Inode
  BY <1>1, <1>2 DEF IInv, Home
<1>4. \A p \in Process, s \in Inode : Had(p, s)' <=> (<<p, s>> \in sometime \/ s \in fds'[p])
  BY <1>1, <1>2 DEF Had
<1>5. \A p \in Process, s \in Inode : Had(p, s)' => s \in used'
  BY <1>4 DEF IInv, Home, Had
<1>6. \A p, q \in Process, s \in Inode :
        Had(p, s)' /\ Had(q, s)' => Container[p] = Container[q] /\ Namespace[p] = Namespace[q]
  BY <1>4 DEF IInv, Home, Had
<1>7. Home'
  BY <1>3, <1>5, <1>6 DEF Home
<1>8. Watched' /\ Scraping'
  BY <1>1, <1>2 DEF IInv, Watched, Scraping
<1>9. Recorded' /\ Resulting'
  BY <1>1 DEF IInv, Recorded, Resulting
<1> QED
  BY <1>7, <1>8, <1>9 DEF IInv

\* Every step of a process does.
LEMMA ProcessesIInv == IInv /\ (OpenSocket \/ Share \/ CloseSocket \/ Exit \/ Reap) => IInv'
<1> SUFFICES ASSUME IInv, OpenSocket \/ Share \/ CloseSocket \/ Exit \/ Reap PROVE IInv'
  OBVIOUS
<1>1. /\ fds \in [Process -> SUBSET Inode] /\ used \subseteq Inode
      /\ \A p \in Process, s \in Inode : Had(p, s) => s \in used
      /\ \A p \in Process : \A s \in fds[p] : Had(p, s)
      /\ \A p, q \in Process, s \in Inode :
            Had(p, s) /\ Had(q, s) => Container[p] = Container[q] /\ Namespace[p] = Namespace[q]
  BY DEF IInv, Home, Had
<1>2. CASE OpenSocket
  <2>1. PICK p \in Process, s \in Inode \ used :
            fds' = [fds EXCEPT ![p] = @ \cup {s}] /\ used' = used \cup {s}
    BY <1>2 DEF OpenSocket
  <2>2. /\ fds' \in [Process -> SUBSET Inode] /\ fds'[p] = fds[p] \cup {s}
        /\ \A q \in Process \ {p} : fds'[q] = fds[q]
    BY <1>1, <2>1
  <2>3. Change
    BY <1>2 DEF OpenSocket
  <2>4. \A q \in Process : \A x \in fds'[q] : x \in used'
    BY <1>1, <2>1, <2>2
  <2>5. \A q, u \in Process, x \in Inode : x \in fds'[q] /\ (Had(u, x) \/ x \in fds'[u])
            => Container[q] = Container[u] /\ Namespace[q] = Namespace[u]
    BY <1>1, <2>1, <2>2, SMTT(60)
  <2> QED
    BY <1>1, <2>1, <2>2, <2>3, <2>4, <2>5, ChangeStep
<1>3. CASE Share
  <2>1. PICK p, q \in Process : \E s \in fds[p] \ fds[q] :
            /\ proc[q] = "alive" /\ Container[p] = Container[q] /\ Namespace[p] = Namespace[q]
            /\ fds' = [fds EXCEPT ![q] = @ \cup {s}]
    BY <1>3 DEF Share
  <2>2. PICK s \in fds[p] : fds' = [fds EXCEPT ![q] = @ \cup {s}]
    BY <2>1
  <2>3. /\ fds' \in [Process -> SUBSET Inode] /\ fds'[q] = fds[q] \cup {s} /\ s \in Inode
        /\ \A u \in Process \ {q} : fds'[u] = fds[u]
    BY <1>1, <2>2
  <2>4. Change /\ used' = used
    BY <1>3 DEF Share
  <2>5. \A u \in Process : \A x \in fds'[u] : x \in used'
    BY <1>1, <2>2, <2>3, <2>4
  <2>6. \A u, v \in Process, x \in Inode : x \in fds'[u] /\ (Had(v, x) \/ x \in fds'[v])
            => Container[u] = Container[v] /\ Namespace[u] = Namespace[v]
    BY <1>1, <2>1, <2>2, <2>3, SMTT(60)
  <2> QED
    BY <1>1, <2>3, <2>4, <2>5, <2>6, ChangeStep
<1>4. CASE CloseSocket \/ Exit \/ Reap
  <2>1. /\ fds' \in [Process -> SUBSET Inode] /\ used' = used /\ Change
        /\ \A p \in Process : fds'[p] \subseteq fds[p]
    BY <1>1, <1>4 DEF CloseSocket, Exit, Reap
  <2> QED
    BY <1>1, <2>1, ChangeStep
<1> QED
  BY <1>2, <1>3, <1>4

\* Steps of the scraper that neither record nor report.
LEMMA ReadingStep ==
    ASSUME IInv, UNCHANGED <<fds, used, sometime, sockets, result>>, Scraping',
           scrape'.pc # "idle" => scrape.pc # "idle"
    PROVE  IInv'
<1>1. Home'
  BY DEF IInv, Home, Had
<1>2. Watched'
  BY DEF IInv, Watched
<1>3. Recorded' /\ Resulting'
  BY DEF IInv, Recorded, Resulting
<1> QED
  BY <1>1, <1>2, <1>3 DEF IInv

\* The sockets of a process are recorded unless another process came first.
LEMMA RecordStep ==
    ASSUME IInv, scrape.pc = "fds", NEW p \in Process,
           sockets' = sockets \cup NewSockets(p), UNCHANGED <<fds, used, sometime, result>>,
           Scraping'
    PROVE  IInv'
<1>1. Home'
  BY DEF IInv, Home, Had
<1>2. Watched'
  BY DEF IInv, Watched
<1>3. /\ fds[p] \subseteq Inode /\ \A s \in fds[p] : <<p, s>> \in sometime
  BY DEF IInv, Home, Watched
<1>4. \A r \in NewSockets(p) : /\ r.pid = p /\ r.inode \in fds[p] /\ r.container = Container[p] /\ r.ns = Namespace[p]
                               /\ r = [container |-> Container[p], ns |-> Namespace[p], inode |-> r.inode, pid |-> p]
  BY SMTT(60) DEF NewSockets
<1>5. \A r \in sockets' : /\ r.pid \in Process /\ r.inode \in Inode /\ <<r.pid, r.inode>> \in sometime
                          /\ r.container = Container[r.pid] /\ r.ns = Namespace[r.pid]
  BY <1>3, <1>4 DEF IInv, Recorded
<1>6. \A r \in NewSockets(p), q \in sockets : r.inode # q.inode
  <2> SUFFICES ASSUME NEW r \in NewSockets(p), NEW q \in sockets, r.inode = q.inode PROVE FALSE
    OBVIOUS
  <2>1. Had(p, r.inode) /\ Had(q.pid, r.inode) /\ q.pid \in Process /\ r.inode \in Inode
    BY <1>3, <1>4 DEF IInv, Recorded, Had
  <2>2. q.container = Container[p] /\ q.ns = Namespace[p]
    BY <2>1 DEF IInv, Home, Recorded
  <2>3. q.inode \in {x.inode : x \in Of(p)}
    BY <2>2 DEF Of
  <2>4. r.inode \notin {x.inode : x \in Of(p)}
    BY SMTT(60) DEF NewSockets
  <2> QED
    BY <2>3, <2>4
<1>7. \A r, q \in sockets' : r.inode = q.inode => r = q
  BY <1>4, <1>6, SMTT(60) DEF IInv, Recorded
<1>8. Recorded'
  BY <1>5, <1>7 DEF Recorded
<1>9. Resulting'
  BY DEF IInv, Resulting
<1> QED
  BY <1>1, <1>2, <1>8, <1>9 DEF IInv

\* Every step of the scraper keeps each socket recorded and reported once.
LEMMA ScraperIInv ==
    ASSUME IInv,
           Begin \/ ScrapeFails \/ Identify \/ GetSocketINodes \/ ReadTcp \/ ReadTcp6
              \/ CheckNamespace \/ ResolveSocketInodes \/ Return
    PROVE  IInv'
<1> USE DEF Local, kernel, At
<1>1. CASE Begin
  <2>1. sometime' = Open(fds) /\ UNCHANGED <<fds, used>> /\ sockets' = {} /\ result' = {}
    BY <1>1 DEF Begin
  <2>2. /\ Open(fds) \subseteq Process \X Inode
        /\ \A p \in Process, s \in Inode : <<p, s>> \in Open(fds) <=> s \in fds[p]
    BY OpenPairs DEF IInv, Home
  <2>3. Home'
    BY <2>1, <2>2 DEF IInv, Home, Had
  <2>4. Watched' /\ Recorded' /\ Resulting'
    BY <2>1, <2>2 DEF Watched, Recorded, Resulting
  <2>5. Scraping'
    <3>1. scrape' = [scrape EXCEPT !.pc = "next", !.todo = Process, !.count = @ + 1]
      BY <1>1 DEF Begin
    <3>2. scrape.count + 1 \in Nat
      BY SMTT(60) DEF IInv, Scraping
    <3> QED
      BY <3>1, <3>2 DEF IInv, Scraping
  <2> QED
    BY <2>3, <2>4, <2>5 DEF IInv
<1>2. CASE ScrapeFails \/ Return
  <2>1. Scraping' /\ (scrape'.pc # "idle" => scrape.pc # "idle")
    BY <1>2, SMTT(60) DEF ScrapeFails, Return, IInv, Scraping
  <2> QED
    BY <1>2, <2>1, ReadingStep DEF ScrapeFails, Return
<1>3. CASE Identify
  <2>1. PICK p \in scrape.todo :
            scrape' = [scrape EXCEPT !.pc = "fds", !.pid = p] \/ Skip(p)
    BY <1>3 DEF Identify
  <2>2. Scraping'
    BY <2>1 DEF IInv, Scraping, Skip
  <2> QED
    BY <1>3, <2>2, ReadingStep DEF Identify
<1>4. CASE GetSocketINodes
  <2>1. scrape.pc = "fds" /\ scrape.pid \in Process /\ UNCHANGED <<fds, used, sometime, result>>
    BY <1>4 DEF GetSocketINodes, IInv, Scraping
  <2>2. \/ Skip(scrape.pid)
        \/ scrape' = [scrape EXCEPT !.pc = "tcp", !.ok = TRUE]
    BY <1>4 DEF GetSocketINodes
  <2>3. Scraping'
    BY <2>1, <2>2 DEF IInv, Scraping, Skip
  <2>4. CASE sockets' = sockets
    BY <2>1, <2>3, <2>4, ReadingStep
  <2>5. CASE sockets' = sockets \cup NewSockets(scrape.pid)
    BY <2>1, <2>3, <2>5, RecordStep
  <2> QED
    BY <1>4, <2>4, <2>5 DEF GetSocketINodes
<1>5. CASE ReadTcp \/ ReadTcp6
  <2>1. Scraping'
    BY <1>5 DEF ReadTcp, ReadTcp6, ReadTable, IInv, Scraping
  <2> QED
    BY <1>5, <2>1, ReadingStep DEF ReadTcp, ReadTcp6, ReadTable
<1>6. CASE CheckNamespace
  <2>1. Scraping'
    BY <1>6 DEF CheckNamespace, Skip, IInv, Scraping
  <2> QED
    BY <1>6, <2>1, ReadingStep DEF CheckNamespace
<1>7. CASE ResolveSocketInodes
  <2>1. UNCHANGED <<fds, used, sometime, sockets>> /\ scrape' = [scrape EXCEPT !.pc = "done"] /\ scrape.pc = "next"
    BY <1>7 DEF ResolveSocketInodes
  <2>2. Home' /\ Recorded'
    BY <2>1 DEF IInv, Home, Had, Recorded
  <2>3. Watched' /\ Scraping'
    BY <2>1 DEF IInv, Watched, Scraping
  <2>4. \A x \in result' : \E r \in sockets :
            x = [container |-> r.container, inode |-> r.inode, pid |-> r.pid,
                 is_server |-> [inode |-> r.inode, is_server |-> TRUE] \in Found(r)]
    BY <1>7 DEF ResolveSocketInodes
  <2>5. \A x \in result' : <<x.pid, x.inode>> \in sometime /\ x.container = Container[x.pid]
    <3> SUFFICES ASSUME NEW x \in result' PROVE <<x.pid, x.inode>> \in sometime /\ x.container = Container[x.pid]
      OBVIOUS
    <3>1. PICK r \in sockets :
            x = [container |-> r.container, inode |-> r.inode, pid |-> r.pid,
                 is_server |-> [inode |-> r.inode, is_server |-> TRUE] \in Found(r)]
      BY <2>4
    <3>2. x.pid = r.pid /\ x.inode = r.inode /\ x.container = r.container
      BY <3>1
    <3> QED
      BY <3>2 DEF IInv, Recorded
  <2>6. \A x, y \in result' : x.inode = y.inode => x = y
    <3> SUFFICES ASSUME NEW x \in result', NEW y \in result', x.inode = y.inode PROVE x = y
      OBVIOUS
    <3>1. PICK r \in sockets :
            x = [container |-> r.container, inode |-> r.inode, pid |-> r.pid,
                 is_server |-> [inode |-> r.inode, is_server |-> TRUE] \in Found(r)]
      BY <2>4
    <3>2. PICK q \in sockets :
            y = [container |-> q.container, inode |-> q.inode, pid |-> q.pid,
                 is_server |-> [inode |-> q.inode, is_server |-> TRUE] \in Found(q)]
      BY <2>4
    <3>3. r = q
      BY <3>1, <3>2 DEF IInv, Recorded
    <3> QED
      BY <3>1, <3>2, <3>3
  <2>7. Resulting'
    BY <2>1, <2>5, <2>6 DEF Resulting
  <2> QED
    BY <2>2, <2>3, <2>7 DEF IInv
<1> QED
  BY <1>1, <1>2, <1>3, <1>4, <1>5, <1>6, <1>7

\* And so does every step.
LEMMA NextIInv == IInv /\ [Next]_vars => IInv'
<1> SUFFICES ASSUME IInv, [Next]_vars PROVE IInv'
  OBVIOUS
<1>1. CASE UNCHANGED vars
  <2>1. UNCHANGED <<fds, used, sometime, sockets, result, scrape>>
    BY <1>1 DEF vars
  <2>2. Scraping'
    BY <2>1 DEF IInv, Scraping
  <2> QED
    BY <2>1, <2>2, ReadingStep
<1> QED
  BY <1>1, ProcessesIInv, ScraperIInv DEF Next

\* However many processes share a socket, and whatever they do while /proc is
\* read, a scrape reports it once (SocketInfo, ResolveSocketInodes).
THEOREM SocketsReportedOnce == Spec => []ReportedOnce
<1>1. IInv => ReportedOnce
  BY DEF IInv, Resulting, ReportedOnce
<1> QED
  BY <1>1, InitIInv, NextIInv, PTL DEF Spec

\* A scrape reports only what was open, at that process, while it was made
\* (ReadContainerConnections).
THEOREM ScrapesAreSound == Spec => []ScrapeSound
<1>1. IInv => ScrapeSound
  BY DEF IInv, Resulting, ScrapeSound
<1> QED
  BY <1>1, InitIInv, NextIInv, PTL DEF Spec

-----------------------------------------------------------------------------
(***************************************************************************)
(* Completeness.                                                           *)
(***************************************************************************)

Lasts(p, s) == <<p, s>> \in throughout

IsAlive(p) == proc[p] = "alive"

\* Only a live process has sockets, and what lasts is open.
Lasting ==
    /\ proc \in [Process -> {"alive", "zombie", "gone"}]
    /\ throughout \subseteq Process \X Inode
    /\ \A p \in Process, s \in Inode : Lasts(p, s) => s \in fds[p]
    /\ \A p \in Process : ~IsAlive(p) => fds[p] = {}

\* Its file descriptors were read.
LookedAt(p) == p \notin scrape.todo \/ (scrape.pc \in {"tcp", "tcp6", "check"} /\ scrape.pid = p)

\* What lasts is recorded once its process was looked at.
Recording ==
    scrape.pc # "idle" =>
        \A p \in Process, s \in Inode :
            LookedAt(p) /\ Lasts(p, s) /\ Container[p] # NoContainer
                => \E r \in sockets : r.inode = s /\ r.container = Container[p] /\ r.ns = Namespace[p]

\* What lasts in the namespace n is in the lines that were read of it.
Read(n, family) ==
    \A p \in Process, s \in Inode :
        Lasts(p, s) /\ Namespace[p] = n /\ Sockets[s].family = family => \E c \in conns[n] : c.inode = s

ReadAll(n) == Read(n, "IPV4") /\ (n \notin NoTcp6 => Read(n, "IPV6"))

Reading(n) == scrape.pc \in {"tcp", "tcp6", "check"} /\ Namespace[scrape.pid] = n

\* A namespace with recorded sockets has been read, or was given up, or is being
\* read; the tables that were read through a process that is still alive are
\* complete, whatever its other tables gave.
Tables ==
    /\ conns = [n \in DOMAIN conns |-> conns[n]]
    /\ \A r \in sockets : r.ns \in DOMAIN conns \cup dropped
    /\ \A n : Reading(n) => n \in DOMAIN conns
    /\ scrape.pc # "idle" => \A n \in DOMAIN conns : Reading(n) \/ ReadAll(n)
    /\ scrape.pc = "tcp6" /\ (scrape.ok \/ IsAlive(scrape.pid)) => Read(Namespace[scrape.pid], "IPV4")
    /\ scrape.pc = "check" /\ (scrape.ok \/ IsAlive(scrape.pid)) => ReadAll(Namespace[scrape.pid])

CInv == Lasting /\ Recording /\ Tables /\ CompleteUnlessDropped

\* At first nothing lasts.
LEMMA InitCInv == Init => CInv
<1> SUFFICES ASSUME Init PROVE CInv
  OBVIOUS
<1>1. Lasting
  BY DEF Init, Lasting, Lasts, IsAlive
<1>2. Recording /\ CompleteUnlessDropped
  BY DEF Init, Recording, CompleteUnlessDropped, At
<1>3. Tables
  BY SMTT(60) DEF Init, Tables, Reading
<1> QED
  BY <1>1, <1>2, <1>3 DEF CInv

\* Whatever the processes do, less lasts, and who has exited stays so.
LEMMA ChangeCInv ==
    ASSUME IInv, CInv, Change, fds' \in [Process -> SUBSET Inode],
           proc' \in [Process -> {"alive", "zombie", "gone"}],
           \A p \in Process : ~IsAlive(p)' => fds'[p] = {},
           \A p \in Process : IsAlive(p)' => IsAlive(p)
    PROVE  CInv'
<1>1. throughout' = throughout \cap Open(fds') /\ UNCHANGED <<scrape, sockets, conns, result, dropped>>
  BY DEF Change, thread
<1>2. \A p \in Process, s \in Inode : Lasts(p, s)' => Lasts(p, s) /\ s \in fds'[p]
  BY <1>1, OpenPairs DEF Lasts
<1>3. Lasting'
  BY <1>1, <1>2 DEF CInv, Lasting
<1>4. Recording'
  BY <1>1, <1>2, SMTT(60) DEF CInv, Recording, LookedAt
<1>5. ASSUME NEW n
      PROVE  (Read(n, "IPV4") => Read(n, "IPV4")') /\ (ReadAll(n) => ReadAll(n)') /\ (Reading(n)' <=> Reading(n))
  BY <1>1, <1>2 DEF Read, ReadAll, Reading
<1>6. Tables'
  <2>1. scrape.pc \in {"tcp6", "check"} => (IsAlive(scrape.pid)' => IsAlive(scrape.pid))
    BY <1>1 DEF IInv, Scraping, IsAlive
  <2> QED
    BY <1>1, <1>5, <2>1 DEF CInv, Tables, IsAlive
<1>7. CompleteUnlessDropped'
  BY <1>1 DEF CInv, CompleteUnlessDropped, At, Reported, Scrapable, Wanted
<1> QED
  BY <1>3, <1>4, <1>6, <1>7 DEF CInv

\* Every step of a process is of this kind.
LEMMA ProcessesCInv ==
    ASSUME IInv, CInv, OpenSocket \/ Share \/ CloseSocket \/ Exit \/ Reap
    PROVE  CInv'
<1>1. /\ fds \in [Process -> SUBSET Inode] /\ proc \in [Process -> {"alive", "zombie", "gone"}]
      /\ \A p \in Process : ~IsAlive(p) => fds[p] = {}
  BY DEF IInv, Home, CInv, Lasting
<1>2. CASE OpenSocket \/ Share \/ CloseSocket
  <2>1. UNCHANGED proc /\ Change /\ fds' \in [Process -> SUBSET Inode]
    BY <1>1, <1>2, SMTT(60) DEF OpenSocket, Share, CloseSocket
  <2>2. \A p \in Process : ~IsAlive(p) => fds'[p] = {}
    BY <1>1, <1>2 DEF OpenSocket, Share, CloseSocket, IsAlive
  <2> QED
    BY <1>1, <2>1, <2>2, ChangeCInv DEF IsAlive
<1>3. CASE Exit \/ Reap
  <2>1. Change /\ fds' \in [Process -> SUBSET Inode] /\ proc' \in [Process -> {"alive", "zombie", "gone"}]
    BY <1>1, <1>3 DEF Exit, Reap
  <2>2. \A p \in Process : IsAlive(p)' => IsAlive(p)
    BY <1>1, <1>3 DEF Exit, Reap, IsAlive
  <2>3. \A p \in Process : ~IsAlive(p)' => fds'[p] = {}
    BY <1>1, <1>3 DEF Exit, Reap, IsAlive
  <2> QED
    BY <2>1, <2>2, <2>3, ChangeCInv
<1> QED
  BY <1>2, <1>3

\* A step of the scraper that leaves the open sockets alone leaves what lasts alone,
\* and what was read if it leaves the tables alone.
LEMMA LocalCInv ==
    ASSUME CInv, Local
    PROVE  /\ Lasting' /\ \A p, s : Lasts(p, s)' <=> Lasts(p, s)
           /\ \A p : IsAlive(p)' <=> IsAlive(p)
           /\ \A n, family : conns'[n] = conns[n] => (Read(n, family)' <=> Read(n, family))
           /\ \A n : conns'[n] = conns[n] => (ReadAll(n)' <=> ReadAll(n))
<1>1. UNCHANGED <<throughout, fds, proc>>
  BY DEF Local, kernel
<1>2. Lasting'
  BY <1>1 DEF CInv, Lasting, Lasts, IsAlive
<1>3. \A p, s : Lasts(p, s)' <=> Lasts(p, s)
  BY <1>1 DEF Lasts
<1>4. \A p : IsAlive(p)' <=> IsAlive(p)
  BY <1>1 DEF IsAlive
<1>5. \A n, family : conns'[n] = conns[n] => (Read(n, family)' <=> Read(n, family))
  BY <1>3 DEF Read
<1> QED
  BY <1>2, <1>3, <1>4, <1>5 DEF ReadAll

\* A table holds what lasts in it when it is read.
LEMMA TableHoldsLasting ==
    ASSUME IInv, Lasting, NEW n, NEW family, NEW p \in Process, NEW s \in Inode,
           Lasts(p, s), Namespace[p] = n, Sockets[s].family = family
    PROVE  \E c \in ReadConnectionsFromFile(n, family) : c.inode = s
<1>1. s \in Table(n, family)
  BY DEF Lasting, Table
<1> DEFINE table == Table(n, family)
           listening == {Sockets[t] : t \in {u \in table : Sockets[u].listen}}
           line(t) == [inode |-> t, is_server |-> ~Sockets[t].listen /\ LocalIsServer(Sockets[t], listening)]
<1>2. ReadConnectionsFromFile(n, family) = {line(t) : t \in table}
  BY DEF ReadConnectionsFromFile
<1>3. line(s) \in ReadConnectionsFromFile(n, family)
  BY <1>1, <1>2
<1>4. line(s).inode = s
  OBVIOUS
<1> HIDE DEF line
<1> QED
  BY <1>3, <1>4

\* A new scrape has read nothing and recorded nothing.
LEMMA BeginCInv == IInv /\ CInv /\ Begin => CInv'
<1> SUFFICES ASSUME IInv, CInv, Begin PROVE CInv'
  OBVIOUS
<1>1. throughout' = Open(fds) /\ UNCHANGED <<proc, fds>> /\ fds \in [Process -> SUBSET Inode]
  BY DEF Begin, kernel, IInv, Home
<1>2. Lasting'
  BY <1>1, OpenPairs DEF CInv, Lasting, Lasts, IsAlive
<1>3. scrape'.pc = "next" /\ scrape'.todo = Process /\ sockets' = {} /\ conns' = << >>
  BY DEF Begin, IInv, Scraping
<1>4. Recording' /\ CompleteUnlessDropped'
  BY <1>3 DEF Recording, LookedAt, CompleteUnlessDropped, At
<1>5. Tables'
  BY <1>3, SMTT(60) DEF Tables, Reading
<1> QED
  BY <1>2, <1>4, <1>5 DEF CInv

\* The fields of the thread after its steps.
LEMMA SkipsTo ==
    ASSUME IInv
    PROVE  /\ \A p : Skip(p) => scrape'.pc = "next" /\ scrape'.todo = scrape.todo \ {p}
           /\ scrape' = [scrape EXCEPT !.pc = "tcp", !.ok = TRUE]
                => scrape'.pc = "tcp" /\ scrape'.todo = scrape.todo /\ scrape'.pid = scrape.pid
<1>1. scrape \in [pc : {"idle", "next", "fds", "tcp", "tcp6", "check", "done"}, pid : Process \cup {0},
                   todo : SUBSET Process, ok : BOOLEAN, count : Nat]
  BY DEF IInv, Scraping
<1>2. ASSUME NEW p, Skip(p) PROVE scrape'.pc = "next" /\ scrape'.todo = scrape.todo \ {p}
  BY <1>1, <1>2 DEF Skip
<1>3. ASSUME scrape' = [scrape EXCEPT !.pc = "tcp", !.ok = TRUE]
      PROVE  scrape'.pc = "tcp" /\ scrape'.todo = scrape.todo /\ scrape'.pid = scrape.pid
  BY <1>1, <1>3
<1> QED
  BY <1>2, <1>3

\* Recording the sockets of a process records all of them that last.
LEMMA GetSocketINodesRecords ==
    ASSUME IInv, CInv, GetSocketINodes
    PROVE  Recording'
<1> DEFINE p == scrape.pid
<1>1. p \in Process /\ scrape.pc = "fds" /\ scrape'.todo \in {scrape.todo, scrape.todo \ {p}} /\ Local
  <2>1. p \in Process /\ scrape.pc = "fds" /\ Local
    BY DEF GetSocketINodes, At, IInv, Scraping
  <2>2. Skip(p) \/ scrape' = [scrape EXCEPT !.pc = "tcp", !.ok = TRUE]
    BY DEF GetSocketINodes
  <2> QED
    BY <2>1, <2>2, SkipsTo
<1>2. \A q, s : Lasts(q, s)' <=> Lasts(q, s)
  BY <1>1, LocalCInv
<1>3. sockets \subseteq sockets'
  BY DEF GetSocketINodes
<1>4. ASSUME NEW s \in Inode, Lasts(p, s)
      PROVE  \E r \in sockets' : r.inode = s /\ r.container = Container[p] /\ r.ns = Namespace[p]
  <2>1. s \in fds[p] /\ IsAlive(p)
    BY <1>1, <1>4 DEF CInv, Lasting
  <2>2. sockets' = sockets \cup NewSockets(p)
    BY <2>1 DEF GetSocketINodes, IsAlive
  <2>3. CASE \E r \in Of(p) : r.inode = s
    BY <2>2, <2>3 DEF Of
  <2>4. CASE ~\E r \in Of(p) : r.inode = s
    <3> DEFINE new == [container |-> Container[p], ns |-> Namespace[p], inode |-> s, pid |-> p]
    <3>1. s \in fds[p] \ {r.inode : r \in Of(p)}
      BY <2>1, <2>4
    <3>2. new \in NewSockets(p)
      BY <3>1 DEF NewSockets
    <3> QED
      BY <2>2, <3>2, SMTT(60)
  <2> QED
    BY <2>3, <2>4
<1>5. \A q \in Process, s \in Inode :
        q \notin scrape.todo /\ Lasts(q, s) /\ Container[q] # NoContainer
            => \E r \in sockets : r.inode = s /\ r.container = Container[q] /\ r.ns = Namespace[q]
  BY <1>1 DEF CInv, Recording, LookedAt
<1>6. \A q \in Process : LookedAt(q)' => q = p \/ q \notin scrape.todo
  <2>1. CASE Skip(p)
    BY <2>1, SkipsTo, SMTT(60) DEF LookedAt
  <2>2. CASE scrape' = [scrape EXCEPT !.pc = "tcp", !.ok = TRUE]
    BY <2>2, SkipsTo DEF LookedAt
  <2> QED
    BY <2>1, <2>2 DEF GetSocketINodes
<1> HIDE DEF p
<1> QED
  BY <1>1, <1>2, <1>3, <1>4, <1>5, <1>6, SMTT(60) DEF Recording

\* A namespace with a new socket has been read, was given up, or is read next.
LEMMA GetSocketINodesTables ==
    ASSUME IInv, CInv, GetSocketINodes
    PROVE  Tables' /\ scrape'.pc # "done"
<1> DEFINE p == scrape.pid
           n == Namespace[p]
<1>1. p \in Process /\ scrape.pc = "fds" /\ Local /\ Tables /\ UNCHANGED dropped
  BY DEF GetSocketINodes, At, IInv, Scraping, CInv
<1>2. \A m : conns'[m] = conns[m] => (ReadAll(m)' <=> ReadAll(m))
  BY <1>1, LocalCInv
<1>3. \A m \in DOMAIN conns : ReadAll(m)
  BY <1>1 DEF Tables, Reading
<1>4. \A r \in NewSockets(p) : r.ns = n
  BY SMTT(60) DEF NewSockets
<1>5. CASE proc[p] # "alive"
  <2>1. scrape'.pc = "next" /\ UNCHANGED <<sockets, conns>>
    BY <1>5, SkipsTo DEF GetSocketINodes
  <2> QED
    BY <1>1, <1>2, <1>3, <2>1 DEF Tables, Reading
<1>6. CASE proc[p] = "alive" /\ Of(p) = {} /\ fds[p] # {} /\ n \notin DOMAIN conns
  <2>1. /\ conns' = [m \in DOMAIN conns \cup {n} |-> IF m = n THEN {} ELSE conns[m]]
        /\ scrape' = [scrape EXCEPT !.pc = "tcp", !.ok = TRUE]
        /\ sockets' = sockets \cup NewSockets(p)
    BY <1>6 DEF GetSocketINodes
  <2>2. scrape'.pc = "tcp" /\ scrape'.pid = p
    BY <2>1, SkipsTo
  <2>3. \A m \in DOMAIN conns : ReadAll(m)'
    BY <1>2, <1>3, <1>6, <2>1
  <2>4. \A m : Reading(m)' <=> m = n
    BY <2>2 DEF Reading
  <2> HIDE DEF p, n
  <2> QED
    BY <1>1, <1>4, <2>1, <2>2, <2>3, <2>4 DEF Tables
<1>7. CASE proc[p] = "alive" /\ ~(Of(p) = {} /\ fds[p] # {} /\ n \notin DOMAIN conns)
  <2>1. Skip(p) /\ UNCHANGED conns /\ sockets' = sockets \cup NewSockets(p)
    BY <1>7 DEF GetSocketINodes
  <2>2. scrape'.pc = "next"
    BY <2>1, SkipsTo
  <2>3. \A r \in NewSockets(p) : n \in DOMAIN conns \cup dropped
    <3>1. CASE fds[p] = {}
      BY <3>1 DEF NewSockets
    <3>2. CASE Of(p) # {}
      BY <1>1, <3>2 DEF Of, Tables
    <3> QED
      BY <1>7, <3>1, <3>2
  <2> HIDE DEF p, n
  <2> QED
    BY <1>1, <1>2, <1>3, <1>4, <2>1, <2>2, <2>3 DEF Tables, Reading
<1> QED
  BY <1>5, <1>6, <1>7

\* A table that can be read is complete, and what was read before stays.
LEMMA ReadTableReads ==
    ASSUME IInv, CInv, NEW family, NEW next, ReadTable(family, next), Reading(Namespace[scrape.pid])
    PROVE  LET n == Namespace[scrape.pid] IN
           /\ scrape'.pc = next /\ UNCHANGED <<scrape.pid, scrape.todo>>
           /\ scrape'.ok => scrape.ok /\ IsAlive(scrape.pid)
           /\ conns' = [m \in DOMAIN conns |-> conns'[m]] /\ DOMAIN conns' = DOMAIN conns
           /\ \A m \in DOMAIN conns : m # n => conns'[m] = conns[m]
           /\ \A fam : Read(n, fam) => Read(n, fam)'
           /\ IsAlive(scrape.pid) /\ ~(family = "IPV6" /\ n \in NoTcp6) => Read(n, family)'
<1> DEFINE p == scrape.pid
           n == Namespace[p]
           readable == proc[p] = "alive" /\ ~(family = "IPV6" /\ n \in NoTcp6)
<1>1. /\ conns' = IF readable THEN [conns EXCEPT ![n] = @ \cup ReadConnectionsFromFile(n, family)] ELSE conns
      /\ scrape' = [scrape EXCEPT !.pc = next, !.ok = @ /\ readable] /\ Local
  BY DEF ReadTable
<1>2. conns = [m \in DOMAIN conns |-> conns[m]] /\ n \in DOMAIN conns /\ Lasting
  BY DEF CInv, Tables
<1>3. scrape \in [pc : {"idle", "next", "fds", "tcp", "tcp6", "check", "done"}, pid : Process \cup {0},
                   todo : SUBSET Process, ok : BOOLEAN, count : Nat]
  BY DEF IInv, Scraping
<1>4. scrape'.pc = next /\ UNCHANGED <<scrape.pid, scrape.todo>> /\ (scrape'.ok => scrape.ok /\ readable)
  <2> HIDE DEF readable
  <2>1. scrape'.pc = next /\ UNCHANGED <<scrape.pid, scrape.todo>> /\ scrape'.ok = (scrape.ok /\ readable)
    BY <1>1, <1>3
  <2> QED
    BY <2>1
<1>5. /\ conns' = [m \in DOMAIN conns |-> conns'[m]] /\ DOMAIN conns' = DOMAIN conns
      /\ \A m \in DOMAIN conns : m # n => conns'[m] = conns[m]
      /\ conns[n] \subseteq conns'[n]
      /\ readable => ReadConnectionsFromFile(n, family) \subseteq conns'[n]
  <2> HIDE DEF readable, n
  <2> QED
    BY <1>1, <1>2
<1>6. \A q, s : Lasts(q, s)' <=> Lasts(q, s)
  BY <1>1, LocalCInv
<1>7. \A fam : Read(n, fam) => Read(n, fam)'
  <2> HIDE DEF n
  <2>1. n' = n
    BY <1>4 DEF n, p
  <2> QED
    BY <1>5, <1>6, <2>1 DEF Read
<1>8. readable => Read(n, family)'
  BY <1>2, <1>4, <1>5, <1>6, TableHoldsLasting, SMTT(60) DEF Read
<1> QED
  BY <1>4, <1>5, <1>7, <1>8 DEF IsAlive

\* So the tables of a namespace are read one after the other.
LEMMA ReadTablesTables ==
    ASSUME IInv, CInv, ReadTcp \/ ReadTcp6
    PROVE  Tables' /\ Recording' /\ scrape'.pc # "done"
<1> DEFINE n == Namespace[scrape.pid]
<1>1. PICK family \in {"IPV4", "IPV6"}, next \in {"tcp6", "check"} :
        /\ ReadTable(family, next) /\ scrape.pc = IF family = "IPV4" THEN "tcp" ELSE "tcp6"
        /\ next = IF family = "IPV4" THEN "tcp6" ELSE "check"
  BY DEF ReadTcp, ReadTcp6, At
<1>2. Reading(n) /\ Local /\ UNCHANGED <<sockets, dropped>> /\ Tables
  BY <1>1 DEF Reading, ReadTable, CInv
<1>3. /\ scrape'.pc = next /\ UNCHANGED <<scrape.pid, scrape.todo>>
      /\ scrape'.ok => scrape.ok /\ IsAlive(scrape.pid)
      /\ conns' = [m \in DOMAIN conns |-> conns'[m]] /\ DOMAIN conns' = DOMAIN conns
      /\ \A m \in DOMAIN conns : m # n => conns'[m] = conns[m]
      /\ \A fam : Read(n, fam) => Read(n, fam)'
      /\ IsAlive(scrape.pid) /\ ~(family = "IPV6" /\ n \in NoTcp6) => Read(n, family)'
  BY <1>1, <1>2, ReadTableReads
<1>4. /\ \A q, s : Lasts(q, s)' <=> Lasts(q, s)
      /\ \A m : conns'[m] = conns[m] => (ReadAll(m)' <=> ReadAll(m))
  BY <1>2, LocalCInv
<1>5. IsAlive(scrape.pid)' <=> IsAlive(scrape.pid)
  BY <1>2, <1>3 DEF Local, kernel, IsAlive
<1>6. \A m : Reading(m)' <=> m = n
  BY <1>1, <1>3 DEF Reading
<1>7. \A m \in DOMAIN conns : m # n => ReadAll(m)'
  BY <1>2, <1>3, <1>4, <1>1 DEF Tables, Reading
<1>8. family = "IPV4" /\ IsAlive(scrape.pid) => Read(n, "IPV4")'
  BY <1>3
<1>9. family = "IPV6" /\ IsAlive(scrape.pid) => ReadAll(n)'
  BY <1>1, <1>2, <1>3 DEF Tables, ReadAll
<1>10. Recording'
  BY <1>1, <1>2, <1>3, <1>4, SMTT(60) DEF CInv, Recording, LookedAt
<1>11. Tables'
  BY <1>1, <1>2, <1>3, <1>5, <1>6, <1>7, <1>8, <1>9 DEF Tables
<1> QED
  BY <1>1, <1>3, <1>10, <1>11

\* Tables are given up only when their process has gone without being read.
LEMMA CheckNamespaceTables ==
    ASSUME IInv, CInv, CheckNamespace
    PROVE  Tables' /\ Recording' /\ scrape'.pc # "done"
<1> DEFINE p == scrape.pid
           n == Namespace[p]
<1>1. /\ conns' = IF GiveUp THEN [m \in DOMAIN conns \ {n} |-> conns[m]] ELSE conns
      /\ dropped' = IF GiveUp THEN dropped \cup {n} ELSE dropped
      /\ scrape.pc = "check" /\ p \in Process /\ UNCHANGED sockets /\ Local /\ Tables
  BY DEF CheckNamespace, GiveUp, At, IInv, Scraping, CInv
<1>2. scrape'.pc = "next" /\ scrape'.todo = scrape.todo \ {p}
  BY SkipsTo DEF CheckNamespace
<1>3. /\ \A q, s : Lasts(q, s)' <=> Lasts(q, s)
      /\ \A m : conns'[m] = conns[m] => (ReadAll(m)' <=> ReadAll(m))
  BY <1>1, LocalCInv
<1>4. \A m \in DOMAIN conns' : m \in DOMAIN conns /\ conns'[m] = conns[m]
  BY <1>1
<1>5. \A m \in DOMAIN conns' : ReadAll(m)
  <2>1. ~GiveUp => ReadAll(n)
    BY <1>1 DEF GiveUp, Tables, IsAlive
  <2>2. \A m \in DOMAIN conns : m = n \/ ReadAll(m)
    BY <1>1 DEF Tables, Reading
  <2> QED
    BY <1>1, <2>1, <2>2
<1>6. Tables'
  <2>1. conns' = [m \in DOMAIN conns' |-> conns'[m]]
    BY <1>1 DEF Tables
  <2>2. \A r \in sockets' : r.ns \in DOMAIN conns' \cup dropped'
    BY <1>1 DEF Tables
  <2> QED
    BY <1>2, <1>3, <1>4, <1>5, <2>1, <2>2 DEF Tables, Reading
<1>7. \A q : LookedAt(q)' => LookedAt(q)
  BY <1>1, <1>2 DEF LookedAt
<1>8. Recording'
  BY <1>1, <1>3, <1>7 DEF CInv, Recording
<1> QED
  BY <1>2, <1>6, <1>8

\* A process that is skipped has no socket, or is not in a container.
LEMMA IdentifyCInv ==
    ASSUME IInv, CInv, Identify
    PROVE  Tables' /\ Recording' /\ scrape'.pc # "done"
<1>1. PICK p \in scrape.todo :
        \/ scrape' = [scrape EXCEPT !.pc = "fds", !.pid = p]
        \/ ~(proc[p] = "alive" /\ Container[p] # NoContainer) /\ Skip(p)
  BY DEF Identify
<1>2. scrape.pc = "next" /\ UNCHANGED <<sockets, conns, dropped>> /\ Local /\ Lasting /\ Tables
  BY DEF Identify, At, CInv
<1>3. p \in Process /\ scrape \in [pc : {"idle", "next", "fds", "tcp", "tcp6", "check", "done"},
                                   pid : Process \cup {0}, todo : SUBSET Process, ok : BOOLEAN, count : Nat]
  BY DEF IInv, Scraping
<1>4. \/ scrape'.pc = "fds" /\ scrape'.todo = scrape.todo
      \/ /\ scrape'.pc = "next" /\ scrape'.todo = scrape.todo \ {p}
         /\ proc[p] # "alive" \/ Container[p] = NoContainer
  <2>1. CASE scrape' = [scrape EXCEPT !.pc = "fds", !.pid = p]
    BY <1>3, <2>1
  <2>2. CASE ~(proc[p] = "alive" /\ Container[p] # NoContainer) /\ Skip(p)
    BY <2>2, SkipsTo
  <2> QED
    BY <1>1, <2>1, <2>2
<1>5. /\ \A q, s : Lasts(q, s)' <=> Lasts(q, s)
      /\ \A m : conns'[m] = conns[m] => (ReadAll(m)' <=> ReadAll(m))
  BY <1>2, LocalCInv
<1>6. Tables'
  BY <1>2, <1>4, <1>5 DEF Tables, Reading
<1>7. \A q \in Process, s \in Inode :
        LookedAt(q)' /\ Lasts(q, s) /\ Container[q] # NoContainer => LookedAt(q)
  BY <1>2, <1>3, <1>4 DEF LookedAt, Lasting, IsAlive
<1>8. Recording'
  BY <1>2, <1>5, <1>7 DEF CInv, Recording
<1> QED
  BY <1>4, <1>6, <1>8

\* A recorded socket whose line was read is reported if it is wanted.
LEMMA ResolveReports ==
    ASSUME ResolveSocketInodes, NEW r \in sockets, Wanted(r.inode), r.ns \in DOMAIN conns,
           NEW c \in conns[r.ns], c.inode = r.inode
    PROVE  \E x \in result' : x.container = r.container /\ x.inode = r.inode
<1> DEFINE wanted == {x \in sockets : Wanted(x.inode) /\ x.inode \in {f.inode : f \in Found(x)}}
           line(x) == [container |-> x.container, inode |-> x.inode, pid |-> x.pid,
                       is_server |-> [inode |-> x.inode, is_server |-> TRUE] \in Found(x)]
<1>1. result' = {line(x) : x \in wanted}
  BY DEF ResolveSocketInodes
<1>2. r \in wanted
  BY DEF Found
<1>3. line(r).container = r.container /\ line(r).inode = r.inode
  OBVIOUS
<1> HIDE DEF line, wanted
<1>4. line(r) \in result'
  BY <1>1, <1>2
<1> QED
  BY <1>3, <1>4

\* So the scrape is complete when all processes were looked at.
LEMMA ResolveCInv ==
    ASSUME IInv, CInv, ResolveSocketInodes
    PROVE  Tables' /\ Recording' /\ CompleteUnlessDropped'
<1>1. /\ scrape.pc = "next" /\ scrape.todo = {} /\ UNCHANGED <<sockets, conns, dropped>> /\ Local
      /\ Lasting /\ Tables /\ Recording
  BY DEF ResolveSocketInodes, At, CInv
<1>2. scrape'.pc = "done" /\ scrape'.todo = scrape.todo
  BY DEF ResolveSocketInodes, IInv, Scraping
<1>3. /\ \A q, s : Lasts(q, s)' <=> Lasts(q, s)
      /\ \A m : conns'[m] = conns[m] => (ReadAll(m)' <=> ReadAll(m))
  BY <1>1, LocalCInv
<1>4. Tables' /\ Recording'
  BY <1>1, <1>2, <1>3 DEF Tables, Recording, Reading, LookedAt
<1>5. ASSUME NEW o \in throughout, Scrapable(o[1], o[2]), Namespace[o[1]] \notin dropped
      PROVE  \E x \in result' : x.container = Container[o[1]] /\ x.inode = o[2]
  <2>1. PICK p \in Process, s \in Inode : o = <<p, s>>
    BY <1>1, SMTT(60) DEF Lasting
  <2>2. Lasts(p, s) /\ Scrapable(p, s) /\ Namespace[p] \notin dropped
    BY <1>5, <2>1 DEF Lasts
  <2>3. PICK r \in sockets : r.inode = s /\ r.container = Container[p] /\ r.ns = Namespace[p]
    BY <1>1, <2>2 DEF Recording, LookedAt, Scrapable
  <2>4. r.ns \in DOMAIN conns /\ ReadAll(r.ns)
    BY <1>1, <2>2, <2>3 DEF Tables, Reading
  <2>5. Sockets[s].family \in {"IPV4", "IPV6"}
    BY HostAssumption DEF ScraperAssumption
  <2>6. Read(Namespace[p], Sockets[s].family)
    BY <2>2, <2>3, <2>4, <2>5 DEF ReadAll, Scrapable
  <2>7. PICK c \in conns[r.ns] : c.inode = r.inode
    BY <2>2, <2>3, <2>6 DEF Read
  <2> QED
    BY <2>1, <2>2, <2>3, <2>4, <2>7, ResolveReports DEF Scrapable
<1>6. CompleteUnlessDropped'
  BY <1>1, <1>5 DEF CompleteUnlessDropped, Reported, Local, Scrapable, Wanted
<1> QED
  BY <1>4, <1>6

\* Every step keeps the argument.
LEMMA NextCInv == IInv /\ CInv /\ [Next]_vars => CInv'
<1> SUFFICES ASSUME IInv, CInv, [Next]_vars PROVE CInv'
  OBVIOUS
<1>1. CASE OpenSocket \/ Share \/ CloseSocket \/ Exit \/ Reap
  BY <1>1, ProcessesCInv
<1>2. CASE Begin
  BY <1>2, BeginCInv
<1>3. CASE Identify \/ GetSocketINodes \/ ReadTcp \/ ReadTcp6 \/ CheckNamespace
  <2>1. Local
    BY <1>3 DEF Identify, GetSocketINodes, ReadTcp, ReadTcp6, ReadTable, CheckNamespace
  <2>2. Tables' /\ Recording' /\ scrape'.pc # "done"
    BY <1>3, IdentifyCInv, GetSocketINodesRecords, GetSocketINodesTables, ReadTablesTables, CheckNamespaceTables
  <2> QED
    BY <2>1, <2>2, LocalCInv DEF CInv, CompleteUnlessDropped, At
<1>4. CASE ResolveSocketInodes
  BY <1>4, LocalCInv, ResolveCInv DEF CInv, ResolveSocketInodes
<1>5. CASE ScrapeFails \/ Return
  <2>1. Local /\ UNCHANGED <<sockets, conns, result, dropped>> /\ scrape'.pc = "idle"
    BY <1>5 DEF ScrapeFails, Return, At, IInv, Scraping
  <2>2. Lasting' /\ Recording' /\ CompleteUnlessDropped'
    BY <2>1, LocalCInv DEF Recording, CompleteUnlessDropped, At
  <2>3. Tables'
    BY <2>1 DEF CInv, Tables, Reading
  <2> QED
    BY <2>2, <2>3 DEF CInv
<1>6. CASE UNCHANGED vars
  BY <1>6, SMTT(60) DEF vars, CInv, Lasting, Lasts, IsAlive, Recording, LookedAt, Tables, Reading, ReadAll, Read,
              CompleteUnlessDropped, At, Reported, Scrapable, Wanted
<1> QED
  BY <1>1, <1>2, <1>3, <1>4, <1>5, <1>6 DEF Next

\* A scrape reports every socket of a container that was open all the time,
\* whichever processes come and go and whichever tables are missing, unless the
\* process through which its namespace was read has gone (ReadContainerConnections).
THEOREM ScrapesAreComplete == Spec => []CompleteUnlessDropped
<1>1. CInv => CompleteUnlessDropped
  BY DEF CInv
<1> QED
  BY <1>1, InitIInv, NextIInv, InitCInv, NextCInv, PTL DEF Spec

-----------------------------------------------------------------------------
(***************************************************************************)
(* ProcessStore and ProfilerHandler.                                       *)
(***************************************************************************)

\* The objects, for processes with the pids P.
Record(P) == [pid : P, pending : BOOLEAN, holders : SUBSET Holders, state : {"free", "live"} \cup Readers]

PidsOf(ps) == {ps[o].pid : o \in Objects}

\* An object exists until it is freed: also while a thread destroys it.
Exists(ps, o) == ps[o].state # "free"

\* The cache has an entry for exactly the objects that exist.
CacheExact ==
    /\ procs \in [Objects -> Record(PidsOf(procs))]
    /\ cache = [p \in DOMAIN cache |-> cache[p]]
    /\ \A p \in DOMAIN cache : cache[p] \in Objects /\ Exists(procs, cache[p]) /\ procs[cache[p]].pid = p
    /\ \A o \in Objects : Exists(procs, o) => procs[o].pid \in DOMAIN cache /\ cache[procs[o].pid] = o

\* The objects are what they were, but for their references and their information.
Same(ps, qs) == \A o \in Objects : qs[o].pid = ps[o].pid /\ (Exists(qs, o) <=> Exists(ps, o))

LEMMA PidsOfRecords ==
    ASSUME NEW P, NEW ps \in [Objects -> Record(P)]
    PROVE  ps \in [Objects -> Record(PidsOf(ps))]
<1>1. \A o \in Objects : ps[o] \in Record(P) /\ ps[o].pid \in PidsOf(ps)
  BY DEF PidsOf
<1> QED
  BY <1>1 DEF Record

LEMMA SameStep ==
    ASSUME CacheExact, UNCHANGED cache, NEW P, procs' \in [Objects -> Record(P)], Same(procs, procs')
    PROVE  CacheExact'
<1>1. procs' \in [Objects -> Record(PidsOf(procs'))]
  BY PidsOfRecords
<1> QED
  BY <1>1 DEF CacheExact, Same, Exists, PidsOf

\* Dropping a reference destroys an object at most; it does not free it.
LEMMA ReferKeeps ==
    ASSUME NEW P, NEW ps \in [Objects -> Record(P)], NEW holder \in Holders, NEW objects, NEW t \in Readers
    PROVE  Refer(ps, holder, objects, t) \in [Objects -> Record(P)] /\ Same(ps, Refer(ps, holder, objects, t))
<1> DEFINE holders(o) == IF o \in objects THEN ps[o].holders \cup {holder} ELSE ps[o].holders \ {holder}
           new(o) == IF ps[o].state # "live" THEN ps[o]
                     ELSE IF holders(o) = {} THEN [ps[o] EXCEPT !.holders = {}, !.state = t]
                     ELSE [ps[o] EXCEPT !.holders = holders(o)]
<1>1. Refer(ps, holder, objects, t) = [o \in Objects |-> new(o)]
  BY DEF Refer
<1>2. ASSUME NEW o \in Objects
      PROVE  new(o) \in Record(P) /\ new(o).pid = ps[o].pid /\ (new(o).state # "free" <=> ps[o].state # "free")
  <2>1. ps[o] \in Record(P) /\ t # "free" /\ t \in Readers
    BY DEF Readers
  <2>2. holders(o) \in SUBSET Holders
    BY <2>1 DEF Record
  <2> HIDE DEF holders
  <2>3. CASE ps[o].state # "live"
    BY <2>1, <2>3
  <2>4. CASE ps[o].state = "live" /\ holders(o) = {}
    <3> DEFINE emptied == [ps[o] EXCEPT !.holders = {}]
    <3>1. new(o) = [emptied EXCEPT !.state = t]
      BY <2>4
    <3>2. emptied \in Record(P) /\ emptied.pid = ps[o].pid
      BY <2>1 DEF Record
    <3> HIDE DEF new, emptied
    <3> QED
      BY <2>1, <2>4, <3>1, <3>2 DEF Record
  <2>5. CASE ps[o].state = "live" /\ holders(o) # {}
    <3>1. new(o) = [ps[o] EXCEPT !.holders = holders(o)]
      BY <2>5
    <3> HIDE DEF new
    <3> QED
      BY <2>1, <2>2, <2>5, <3>1 DEF Record
  <2> QED
    BY <2>3, <2>4, <2>5
<1> HIDE DEF new
<1> QED
  BY <1>1, <1>2 DEF Same, Exists

\* A thread that has destroyed the object of a pid erases its entry.
LEMMA DestroyStep ==
    ASSUME CacheExact, NEW t \in Readers, NEW o \in Objects, Destroy(t, o)
    PROVE  CacheExact'
<1> DEFINE P == PidsOf(procs) \cup {None}
           freed == [pid |-> None, pending |-> FALSE, holders |-> {}, state |-> "free"]
<1>1. /\ procs[o].state = t /\ procs' = [procs EXCEPT ![o] = freed]
      /\ cache' = [p \in DOMAIN cache \ {procs[o].pid} |-> cache[p]]
  BY DEF Destroy
<1>2. Exists(procs, o) /\ freed \in Record(P) /\ freed.state = "free"
  BY <1>1 DEF Exists, Readers, Record
<1>3. procs \in [Objects -> Record(P)]
  BY DEF CacheExact, Record
<1> HIDE DEF P, freed
<1>4. procs' \in [Objects -> Record(P)] /\ ~Exists(procs', o) /\ \A q \in Objects \ {o} : procs'[q] = procs[q]
  BY <1>1, <1>2, <1>3 DEF Exists
<1>5. procs' \in [Objects -> Record(PidsOf(procs'))]
  BY <1>4, PidsOfRecords
<1>6. cache[procs[o].pid] = o
  BY <1>2 DEF CacheExact
<1>7. DOMAIN cache' = DOMAIN cache \ {procs[o].pid} /\ \A p \in DOMAIN cache' : cache'[p] = cache[p]
  BY <1>1
<1>8. cache' = [p \in DOMAIN cache' |-> cache'[p]]
  BY <1>1
<1>9. \A p \in DOMAIN cache' : cache'[p] \in Objects \ {o} /\ Exists(procs, cache[p]) /\ procs[cache[p]].pid = p
  BY <1>6, <1>7 DEF CacheExact
<1>10. \A q \in Objects \ {o} : Exists(procs, q) => procs[q].pid # procs[o].pid
  BY <1>6 DEF CacheExact
<1> QED
  BY <1>4, <1>5, <1>7, <1>8, <1>9, <1>10, SMTT(60) DEF CacheExact, Exists

\* A new object is made for a pid that has none.
LEMMA FetchNewStep ==
    ASSUME CacheExact, NEW pid, pid \notin DOMAIN cache, FetchNew(pid)
    PROVE  CacheExact'
<1> DEFINE P == PidsOf(procs) \cup {pid}
           made == [pid |-> pid, pending |-> TRUE, holders |-> {"scrape"}, state |-> "live"]
<1>1. PICK o \in Objects :
        /\ procs[o].state = "free" /\ procs' = [procs EXCEPT ![o] = made]
        /\ cache' = [p \in DOMAIN cache \cup {pid} |-> IF p = pid THEN o ELSE cache[p]]
  BY DEF FetchNew
<1>2. ~Exists(procs, o) /\ made \in Record(P) /\ made.state # "free" /\ made.pid = pid
  BY <1>1 DEF Exists, Holders, Record
<1>3. procs \in [Objects -> Record(P)]
  BY DEF CacheExact, Record
<1> HIDE DEF P, made
<1>4. /\ procs' \in [Objects -> Record(P)] /\ Exists(procs', o) /\ procs'[o].pid = pid
      /\ \A q \in Objects \ {o} : procs'[q] = procs[q]
  BY <1>1, <1>2, <1>3 DEF Exists
<1>5. procs' \in [Objects -> Record(PidsOf(procs'))]
  BY <1>4, PidsOfRecords
<1>6. DOMAIN cache' = DOMAIN cache \cup {pid} /\ cache'[pid] = o /\ \A p \in DOMAIN cache : cache'[p] = cache[p]
  BY <1>1
<1>7. cache' = [p \in DOMAIN cache' |-> cache'[p]]
  BY <1>1, <1>6
<1>8. \A p \in DOMAIN cache : cache[p] # o
  BY <1>2 DEF CacheExact
<1> QED
  BY <1>4, <1>5, <1>6, <1>7, <1>8, SMTT(60) DEF CacheExact, Exists

\* What is in the cache is found there, or found to be on its way out.
LEMMA FetchStep ==
    ASSUME CacheExact, NEW pid, Fetch(pid)
    PROVE  CacheExact'
<1>1. CASE pid \notin DOMAIN cache
  BY <1>1, FetchNewStep DEF Fetch
<1>2. CASE pid \in DOMAIN cache
  <2> DEFINE o == cache[pid]
             P == PidsOf(procs)
  <2>1. FetchCached(pid) /\ UNCHANGED cache
    BY <1>2 DEF Fetch, FetchCached
  <2>2. o \in Objects /\ procs \in [Objects -> Record(P)]
    BY <1>2 DEF CacheExact
  <2>3. CASE UNCHANGED procs
    BY <2>1, <2>2, <2>3, SameStep DEF Same
  <2>4. CASE procs' = [procs EXCEPT ![o].holders = @ \cup {"scrape"}]
    <3> HIDE DEF o, P
    <3>1. procs' \in [Objects -> Record(P)] /\ Same(procs, procs')
      BY <2>2, <2>4 DEF Record, Holders, Same, Exists
    <3> QED
      BY <2>1, <3>1, SameStep
  <2> QED
    BY <2>1, <2>3, <2>4 DEF FetchCached
<1> QED
  BY <1>1, <1>2

\* Every step of every thread keeps the cache exact.
LEMMA StoreStep == CacheExact /\ [StoreNext]_storeVars => CacheExact'
<1> SUFFICES ASSUME CacheExact, [StoreNext]_storeVars PROVE CacheExact'
  OBVIOUS
<1> DEFINE P == PidsOf(procs)
<1>1. procs \in [Objects -> Record(P)]
  BY DEF CacheExact
<1> HIDE DEF P
<1>2. CASE UNCHANGED <<procs, cache>>
  BY <1>1, <1>2, SameStep DEF Same
<1>3. ASSUME NEW t \in Readers, NEW o \in Objects, Destroy(t, o) PROVE CacheExact'
  BY <1>3, DestroyStep
<1>4. CASE ResolveSocket
  BY <1>4, FetchStep DEF ResolveSocket
<1>5. ASSUME UNCHANGED cache, NEW h \in Holders, NEW objects, NEW t \in Readers, procs' = Refer(procs, h, objects, t)
      PROVE  CacheExact'
  BY <1>1, <1>5, ReferKeeps, SameStep
<1>6. ASSUME UNCHANGED cache, NEW h \in Holders, NEW h2 \in Holders, NEW objects, NEW objects2, NEW t \in Readers,
             procs' = Refer(Refer(procs, h, objects, t), h2, objects2, t)
      PROVE  CacheExact'
  <2> DEFINE ps == Refer(procs, h, objects, t)
  <2>1. ps \in [Objects -> Record(P)] /\ Same(procs, ps)
    BY <1>1, ReferKeeps
  <2> HIDE DEF ps
  <2>2. procs' \in [Objects -> Record(P)] /\ Same(ps, procs')
    BY <1>6, <2>1, ReferKeeps DEF ps
  <2> QED
    BY <1>6, <2>1, <2>2, SameStep DEF Same
<1>7. CASE Update \/ NotifierFetched
  BY <1>6, <1>7 DEF Update, NotifierFetched, Holders, Readers
<1>8. CASE ReportSent \/ InspectorFetched \/ Respond
  BY <1>5, <1>8 DEF ReportSent, InspectorFetched, Respond, Holders, Readers
<1>9. CASE CallCallback
  <2>1. UNCHANGED cache /\ (procs' = procs \/ procs' = [procs EXCEPT ![serving].pending = FALSE])
    BY <1>9 DEF CallCallback
  <2>2. CASE serving \in Objects /\ procs' = [procs EXCEPT ![serving].pending = FALSE]
    <3> DEFINE resolved == [procs[serving] EXCEPT !.pending = FALSE]
    <3>1. procs[serving] \in Record(P)
      BY <1>1, <2>2
    <3>2. resolved \in Record(P)
      BY <3>1 DEF Record
    <3>3. resolved.pid = procs[serving].pid /\ resolved.state = procs[serving].state
      BY <3>1 DEF Record
    <3> HIDE DEF resolved
    <3>4. procs' = [procs EXCEPT ![serving] = resolved]
      BY <2>2 DEF resolved
    <3>5. serving \in Objects
      BY <2>2
    <3>6. procs' \in [Objects -> Record(P)] /\ Same(procs, procs')
      BY <1>1, <3>2, <3>3, <3>4, <3>5 DEF Same, Exists
    <3> QED
      BY <2>1, <3>6, SameStep
  <2>3. CASE serving \notin Objects /\ procs' = [procs EXCEPT ![serving].pending = FALSE]
    <3>1. procs' = procs
      BY <1>1, <2>3
    <3> QED
      BY <1>2, <2>1, <3>1
  <2> QED
    BY <1>2, <2>1, <2>2, <2>3
<1>10. CASE \E t \in Readers : BeginFetch(t) \/ Access(t) \/ WaitEnds(t)
  BY <1>2, <1>10 DEF BeginFetch, Access, WaitEnds
<1>11. CASE StartScrape \/ LockCallback \/ Served \/ HandleEvent \/ Joined \/ CleanUp \/ StopRunning
  <2>1. UNCHANGED <<procs, cache>>
    BY <1>11 DEF StartScrape, LockCallback, Served, HandleEvent, Joined, CleanUp, StopRunning
  <2> QED
    BY <1>2, <2>1
<1>12. CASE UNCHANGED storeVars
  BY <1>2, <1>12 DEF storeVars
<1> QED
  BY <1>3, <1>4, <1>7, <1>8, <1>9, <1>10, <1>11, <1>12 DEF StoreNext, Events, Reader, Work

\* At first there is neither an object nor an entry.
LEMMA InitCacheExact == StoreInit => CacheExact
<1> SUFFICES ASSUME StoreInit PROVE CacheExact
  OBVIOUS
<1>1. procs \in [Objects -> Record({None})] /\ cache = << >> /\ \A o \in Objects : ~Exists(procs, o)
  BY DEF StoreInit, Record, Exists
<1>2. procs \in [Objects -> Record(PidsOf(procs))]
  BY <1>1, PidsOfRecords
<1> QED
  BY <1>1, <1>2, SMTT(60) DEF CacheExact

\* However the notifier, the introspection server and the event thread interleave,
\* a pid has one Process object, to which the cache leads while it is in use
\* (ProcessStore::Fetch, Process::~Process).
THEOREM OneProcessObject == StoreSpec => []OneObjectPerProcess
<1>1. CacheExact => OneObjectPerProcess
  BY SMTT(60) DEF CacheExact, Exists, OneObjectPerProcess, Deduplicated, CacheComplete, Live
<1> QED
  BY <1>1, InitCacheExact, StoreStep, PTL DEF StoreSpec

-----------------------------------------------------------------------------
(***************************************************************************)
(* The profilers.                                                          *)
(***************************************************************************)

Profile == [session : Nat, complete : BOOLEAN]

ProfilersOK ==
    /\ cpu \in [on : BOOLEAN, session : Nat, length : BOOLEAN, file : Profile]
    /\ heap \in [on : BOOLEAN, session : Nat, length : BOOLEAN, profile : Profile]

Complete(n) == [session |-> n, complete |-> TRUE]

Unfinished(n) == [session |-> n, complete |-> FALSE]

\* A length belongs to a file that is still there; the file is that of the session
\* that is going on, or of the last one.
CPUInv ==
    /\ cpu.length => cpu.file # NoProfile
    /\ cpu.on /\ cpu.file # NoProfile => cpu.file = Unfinished(cpu.session)
    /\ ~cpu.on /\ cpu.length => cpu.file = Complete(cpu.session)

HeapInv == ~heap.on /\ heap.length => heap.profile = Complete(heap.session)

\* What is known of profiles.
LEMMA Profiles ==
    /\ NoProfile \in Profile
    /\ \A n \in Nat : /\ Complete(n) \in Profile /\ Unfinished(n + 1) \in Profile /\ n + 1 \in Nat
                     /\ Complete(n) # NoProfile /\ Unfinished(n + 1) # NoProfile
                     /\ [Unfinished(n) EXCEPT !.complete = TRUE] = Complete(n)
<1>1. NoProfile \in Profile /\ \A n \in Nat : n + 1 \in Nat /\ n + 1 # 0
  BY SMTT(60) DEF Profile, NoProfile
<1>2. ASSUME NEW n \in Nat
      PROVE  Complete(n) \in Profile /\ Unfinished(n + 1) \in Profile
  BY <1>1 DEF Profile, Complete, Unfinished
<1>3. ASSUME NEW n \in Nat
      PROVE  Complete(n) # NoProfile /\ Unfinished(n + 1) # NoProfile
  <2>1. Complete(n).complete = TRUE /\ NoProfile.complete = FALSE /\ NoProfile.session = 0
    BY DEF NoProfile, Complete
  <2>2. Unfinished(n + 1).session = n + 1
    BY DEF Unfinished
  <2> QED
    BY <1>1, <2>1, <2>2
<1>4. ASSUME NEW n \in Nat
      PROVE  [Unfinished(n) EXCEPT !.complete = TRUE] = Complete(n)
  <2> DEFINE completed == [Unfinished(n) EXCEPT !.complete = TRUE]
  <2>1. Unfinished(n) \in Profile /\ Unfinished(n).session = n
    BY DEF Profile, Unfinished
  <2>2. completed \in Profile
    BY <2>1 DEF Profile
  <2>3. completed.session = n /\ completed.complete = TRUE
    BY <2>1 DEF Profile
  <2> HIDE DEF completed
  <2>4. completed = Complete(n)
    BY <2>2, <2>3 DEF Profile, Complete
  <2> QED
    BY <2>4 DEF completed
<1> QED
  BY <1>1, <1>2, <1>3, <1>4

LEMMA InitProfilers == ProfilerInit => ProfilersOK /\ CPUInv /\ HeapInv
<1> SUFFICES ASSUME ProfilerInit PROVE ProfilersOK /\ CPUInv /\ HeapInv
  OBVIOUS
<1>1. ProfilersOK
  BY Profiles DEF ProfilerInit, ProfilersOK
<1>2. cpu.on = FALSE /\ cpu.length = FALSE /\ heap.length = FALSE
  BY DEF ProfilerInit
<1> QED
  BY <1>1, <1>2 DEF CPUInv, HeapInv

\* The requests for the CPU profiler.
LEMMA CPUStep ==
    ASSUME ProfilersOK, CPUInv, UNCHANGED heap, StartCPU \/ StopCPU \/ EmptyCPU
    PROVE  ProfilersOK' /\ CPUInv'
<1> USE DEF ProfilersOK
<1>1. CASE UNCHANGED cpu
  BY <1>1 DEF CPUInv
<1>2. CASE ~cpu.on /\ cpu' = [cpu EXCEPT !.on = TRUE, !.session = @ + 1, !.file = Unfinished(cpu.session + 1)]
  <2>1. cpu.session + 1 \in Nat /\ Unfinished(cpu.session + 1) \in Profile /\ Unfinished(cpu.session + 1) # NoProfile
    BY Profiles
  <2>2. ProfilersOK'
    BY <1>2, <2>1
  <2>3. cpu'.on = TRUE /\ cpu'.session = cpu.session + 1 /\ cpu'.file = Unfinished(cpu.session + 1)
    BY <1>2
  <2> QED
    BY <2>1, <2>2, <2>3 DEF CPUInv
<1>3. CASE cpu.on /\ cpu.file = NoProfile /\ cpu' = [cpu EXCEPT !.on = FALSE]
  <2>1. ProfilersOK'
    BY <1>3
  <2>2. cpu'.on = FALSE /\ cpu'.length = cpu.length /\ cpu'.file = cpu.file
    BY <1>3
  <2> QED
    BY <1>3, <2>1, <2>2 DEF CPUInv
<1>4. CASE cpu.on /\ cpu.file # NoProfile /\ cpu' = [cpu EXCEPT !.on = FALSE, !.length = TRUE, !.file.complete = TRUE]
  <2>1. [cpu.file EXCEPT !.complete = TRUE] = Complete(cpu.session)
    BY <1>4, Profiles DEF CPUInv
  <2>2. cpu' = [cpu EXCEPT !.on = FALSE, !.length = TRUE, !.file = Complete(cpu.session)]
    <3> DEFINE stopped == [cpu EXCEPT !.on = FALSE, !.length = TRUE]
    <3>1. stopped.file = cpu.file
      OBVIOUS
    <3>2. cpu' = [stopped EXCEPT !.file = [stopped.file EXCEPT !.complete = TRUE]]
      BY <1>4
    <3> HIDE DEF stopped
    <3>3. cpu' = [stopped EXCEPT !.file = Complete(cpu.session)]
      BY <2>1, <3>1, <3>2
    <3> QED
      BY <3>3 DEF stopped
  <2>3. Complete(cpu.session) \in Profile /\ Complete(cpu.session) # NoProfile
    BY Profiles
  <2>4. ProfilersOK'
    BY <2>2, <2>3
  <2>5. cpu'.on = FALSE /\ cpu'.file = Complete(cpu.session) /\ cpu'.session = cpu.session
    BY <2>2
  <2> QED
    BY <2>3, <2>4, <2>5 DEF CPUInv
<1>5. CASE cpu' = [cpu EXCEPT !.length = FALSE, !.file = NoProfile]
  <2>1. ProfilersOK'
    BY <1>5, Profiles
  <2>2. cpu'.length = FALSE /\ cpu'.file = NoProfile
    BY <1>5
  <2> QED
    BY <2>1, <2>2 DEF CPUInv
<1>6. CASE cpu' = [cpu EXCEPT !.length = FALSE]
  <2>1. ProfilersOK'
    BY <1>6
  <2>2. cpu'.length = FALSE /\ cpu'.on = cpu.on /\ cpu'.file = cpu.file /\ cpu'.session = cpu.session
    BY <1>6
  <2> QED
    BY <2>1, <2>2 DEF CPUInv
<1> QED
  BY <1>1, <1>2, <1>3, <1>4, <1>5, <1>6 DEF StartCPU, StopCPU, EmptyCPU, Unfinished

\* The requests for the heap profiler.
LEMMA HeapStep ==
    ASSUME ProfilersOK, HeapInv, UNCHANGED cpu, StartHeap \/ StopHeap \/ EmptyHeap
    PROVE  ProfilersOK' /\ HeapInv'
<1> USE DEF ProfilersOK
<1>1. CASE UNCHANGED heap
  BY <1>1 DEF HeapInv
<1>2. CASE heap' = [heap EXCEPT !.on = TRUE, !.session = @ + 1]
  <2>1. heap.session + 1 \in Nat
    BY SMTT(60)
  <2>2. ProfilersOK'
    BY <1>2, <2>1
  <2>3. heap'.on = TRUE
    BY <1>2
  <2> QED
    BY <2>2, <2>3 DEF HeapInv
<1>3. CASE heap' = [heap EXCEPT !.on = FALSE, !.length = TRUE, !.profile = Complete(heap.session)]
  <2>1. ProfilersOK'
    BY <1>3, Profiles
  <2>2. heap'.profile = Complete(heap.session) /\ heap'.session = heap.session
    BY <1>3
  <2> QED
    BY <2>1, <2>2 DEF HeapInv
<1>4. CASE heap.on /\ heap' = [heap EXCEPT !.profile = NoProfile]
  <2>1. ProfilersOK'
    BY <1>4, Profiles
  <2>2. heap'.on = heap.on
    BY <1>4
  <2> QED
    BY <1>4, <2>1, <2>2 DEF HeapInv
<1>5. CASE heap' = [heap EXCEPT !.length = FALSE, !.profile = NoProfile]
  <2>1. ProfilersOK'
    BY <1>5, Profiles
  <2>2. heap'.length = FALSE
    BY <1>5
  <2> QED
    BY <2>1, <2>2 DEF HeapInv
<1> QED
  BY <1>1, <1>2, <1>3, <1>4, <1>5 DEF StartHeap, StopHeap, EmptyHeap, Complete

\* Whatever is started, stopped, cleared and fetched in whichever order, and whichever
\* of it fails, a profiler that is off has the complete profile of its last session
\* (ProfilerHandler::SendStatus).
THEOREM OffProfilersHaveProfiles == ProfilerSpec => []OffMeansFetchable
<1> DEFINE Inv == ProfilersOK /\ CPUInv /\ HeapInv
<1>1. Inv /\ [ProfilerNext]_profilerVars => Inv'
  <2> SUFFICES ASSUME ProfilersOK, CPUInv, HeapInv, [ProfilerNext]_profilerVars
               PROVE  ProfilersOK' /\ CPUInv' /\ HeapInv'
    OBVIOUS
  <2>1. \/ (StartCPU \/ StopCPU \/ EmptyCPU) /\ UNCHANGED heap
        \/ (StartHeap \/ StopHeap \/ EmptyHeap) /\ UNCHANGED cpu
        \/ UNCHANGED <<cpu, heap>>
    BY DEF ProfilerNext, handlePost, handleGet, ClientError, SendCPUProfile, SendHeapProfile, SendStatus, profilerVars
  <2>2. UNCHANGED cpu => (CPUInv' <=> CPUInv)
    BY DEF CPUInv
  <2>3. UNCHANGED heap => (HeapInv' <=> HeapInv)
    BY DEF HeapInv
  <2>4. UNCHANGED <<cpu, heap>> => ProfilersOK'
    BY DEF ProfilersOK
  <2> QED
    BY <2>1, <2>2, <2>3, <2>4, CPUStep, HeapStep
<1>2. Inv => OffMeansFetchable
  BY DEF CPUInv, HeapInv, OffMeansFetchable, State, Complete
<1> QED
  BY <1>1, <1>2, InitProfilers, PTL DEF ProfilerSpec

=============================================================================
