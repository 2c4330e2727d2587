----------------------------- MODULE ProcessStore ----------------------------
(***************************************************************************)
(* Process and ProcessStore: the processes that listen on endpoints, shared *)
(* by reference between the scrape, the connection tracker, the report and *)
(* the introspection server, and resolved by the event thread.             *)
(*                                                                         *)
(* Threads: the notifier scrapes, updates the tracker, fetches its         *)
(* endpoints and reports them; an introspection request fetches them too;  *)
(* the event thread serves the requests for process information and        *)
(* updates connections.  A fetch compares originators with the mutex of    *)
(* the tracker held, and a comparison waits for the information.  The      *)
(* endpoints are one address of one container, opened by several processes. *)
(***************************************************************************)
EXTENDS Integers, Sequences, FiniteSets

CONSTANTS
    Pids,           \* the processes that may listen
    Objects,        \* places for Process objects: positive numbers
    Introspection   \* ROX_COLLECTOR_INTROSPECTION_ENABLE

ProcessStoreAssumption ==
    /\ IsFiniteSet(Pids) /\ Objects \subseteq Nat \ {0} /\ IsFiniteSet(Objects)
    /\ Introspection \in BOOLEAN

None == 0
Dangling == -1
Free == "no thread"
Readers == {"notifier", "inspector"}
Threads == Readers \cup {"events"}
Holders == {"scrape", "tracker", "report", "inspector"}

VARIABLES
    procs,      \* [Objects -> [pid, pending, holders, state]], state "free", "live" or the thread in ~Process
    cache,      \* ProcessStore::cache_: a function from pids to objects
    requests,   \* pending_process_requests_ whose callback is still there
    serving,    \* the object whose callback the event thread has locked, None, or Dangling
    mutex,      \* [tracker, requests]: the owners of mutex_ and process_requests_mutex_
    active,     \* the tracker's endpoints that the last scrape saw
    th,         \* [Readers -> [pc, todo, fetched, waiting]]
    main,       \* the event thread: "serve", "event", "stop", "cancel", "done"
    fetchedNull \* history: Fetch returned no process

storeVars == <<procs, cache, requests, serving, mutex, active, th, main, fetchedNull>>

Live == {o \in Objects : procs[o].state = "live"}
Held(holder) == {o \in Live : holder \in procs[o].holders}

-----------------------------------------------------------------------------
(***************************************************************************)
(* References.                                                             *)
(***************************************************************************)

\* The holder now refers to these objects only; thread t destroys the objects
\* that lost their last reference.  Their weak references expire at once.
Refer(ps, holder, objects, t) ==
    LET holders(o) == IF o \in objects THEN ps[o].holders \cup {holder} ELSE ps[o].holders \ {holder}
    IN  [o \in Objects |-> IF ps[o].state # "live" THEN ps[o]
                           ELSE IF holders(o) = {} THEN [ps[o] EXCEPT !.holders = {}, !.state = t]
                           ELSE [ps[o] EXCEPT !.holders = holders(o)]]

\* Thread t is not in a destructor.
NotDestroying(t) == \A o \in Objects : procs[o].state # t

\* Process::~Process: the entry of the pid is erased, then the callback and the
\* object are gone.  A request whose callback is gone has no effect any more.
Destroy(t, o) ==
    /\ procs[o].state = t
    /\ cache' = [p \in DOMAIN cache \ {procs[o].pid} |-> cache[p]]
    /\ procs' = [procs EXCEPT ![o] = [pid |-> None, pending |-> FALSE, holders |-> {}, state |-> "free"]]
    /\ requests' = SelectSeq(requests, LAMBDA r : r # o)
    /\ serving' = IF serving = o THEN Dangling ELSE serving
    /\ UNCHANGED <<mutex, active, th, main, fetchedNull>>

-----------------------------------------------------------------------------
(***************************************************************************)
(* ProcessStore::Fetch, by the scrape.                                     *)
(***************************************************************************)

\* An entry is returned, or nothing if its process is being destroyed.
FetchCached(pid) ==
    /\ LET o == cache[pid]
       IN  IF procs[o].state = "live"
           THEN procs' = [procs EXCEPT ![o].holders = @ \cup {"scrape"}] /\ UNCHANGED fetchedNull
           ELSE fetchedNull' = TRUE /\ UNCHANGED procs
    /\ UNCHANGED <<cache, requests, mutex>>

\* The constructor asks for the information.
FetchNew(pid) ==
    /\ mutex.requests = Free
    /\ \E o \in Objects :
         /\ procs[o].state = "free" /\ \A p \in Objects : procs[p].state = "free" => o <= p
         /\ procs' = [procs EXCEPT ![o] = [pid |-> pid, pending |-> TRUE, holders |-> {"scrape"}, state |-> "live"]]
         /\ cache' = [p \in DOMAIN cache \cup {pid} |-> IF p = pid THEN o ELSE cache[p]]
         /\ requests' = Append(requests, o)
    /\ UNCHANGED <<mutex, fetchedNull>>

\* Faulty variant: an entry that expired is replaced.
FetchReplacing(pid) ==
    IF pid \in DOMAIN cache /\ procs[cache[pid]].state = "live" THEN FetchCached(pid) ELSE FetchNew(pid)

Fetch(pid) == IF pid \in DOMAIN cache THEN FetchCached(pid) ELSE FetchNew(pid)

-----------------------------------------------------------------------------
(***************************************************************************)
(* Process::WaitForProcessInfo.                                            *)
(***************************************************************************)

\* An accessor of o: with the information at hand it does not wait.
Access(t) ==
    /\ th[t].waiting = None
    /\ \E o \in th[t].todo :
         th' = IF procs[o].pending THEN [th EXCEPT ![t].waiting = o] ELSE [th EXCEPT ![t].todo = @ \ {o}]
    /\ UNCHANGED <<procs, cache, requests, serving, mutex, active, main, fetchedNull>>

\* Faulty variant: it waits until the information is there.
WaitEndsResolved(t) ==
    /\ th[t].waiting # None /\ ~procs[th[t].waiting].pending
    /\ th' = [th EXCEPT ![t].waiting = None, ![t].todo = @ \ {th[t].waiting}]
    /\ UNCHANGED <<procs, cache, requests, serving, mutex, active, main, fetchedNull>>

\* The wait ends: notified, after 30 seconds, or spuriously.
WaitEnds(t) ==
    /\ th[t].waiting # None
    /\ th' = [th EXCEPT ![t].waiting = None, ![t].todo = @ \ {th[t].waiting}]
    /\ UNCHANGED <<procs, cache, requests, serving, mutex, active, main, fetchedNull>>

-----------------------------------------------------------------------------
(***************************************************************************)
(* The notifier's round and a request to the introspection server.         *)
(***************************************************************************)

\* A thread whose owner is waiting for it takes no new work.
Stopping == main \in {"stop", "cancel", "done"}

StartScrape ==
    /\ th.notifier.pc = "idle" /\ ~Stopping
    /\ \E pids \in SUBSET Pids : th' = [th EXCEPT !.notifier.pc = "scrape", !.notifier.todo = pids]
    /\ UNCHANGED <<procs, cache, requests, serving, mutex, active, main, fetchedNull>>

ResolveSocket ==
    /\ th.notifier.pc = "scrape"
    /\ \E pid \in th.notifier.todo : Fetch(pid) /\ th' = [th EXCEPT !.notifier.todo = @ \ {pid}]
    /\ UNCHANGED <<serving, active, main>>

\* ConnectionTracker::Update; the scraped endpoints are dropped.
Update ==
    /\ th.notifier.pc = "scrape" /\ th.notifier.todo = {} /\ mutex.tracker = Free
    /\ active' = Held("scrape")
    /\ procs' = Refer(Refer(procs, "tracker", Held("tracker") \cup Held("scrape"), "notifier"), "scrape", {}, "notifier")
    /\ th' = [th EXCEPT !.notifier.pc = "fetch"]
    /\ UNCHANGED <<cache, requests, serving, mutex, main, fetchedNull>>

\* FetchEndpointState: the endpoints are compared where there are several.
BeginFetch(t) ==
    /\ \/ t = "notifier" /\ th[t].pc = "fetch"
       \/ t = "inspector" /\ th[t].pc = "idle" /\ Introspection /\ ~Stopping
    /\ mutex.tracker = Free
    /\ mutex' = [mutex EXCEPT !.tracker = t]
    /\ th' = [th EXCEPT ![t].pc = "compare", ![t].fetched = Held("tracker"),
                        ![t].todo = IF Cardinality(Held("tracker")) > 1 THEN Held("tracker") ELSE {}]
    /\ UNCHANGED <<procs, cache, requests, serving, active, main, fetchedNull>>

EndFetch(t) == th[t].pc = "compare" /\ th[t].todo = {} /\ mutex' = [mutex EXCEPT !.tracker = Free]

\* The notifier's fetch removes the endpoints that are not active.  It compares
\* the rest with the last report and reports what is new, without the mutex.
NotifierFetched ==
    /\ EndFetch("notifier")
    /\ procs' = Refer(Refer(procs, "report", Held("report") \cup th.notifier.fetched, "notifier"), "tracker", active, "notifier")
    /\ th' = [th EXCEPT !.notifier.pc = "report", !.notifier.todo = th.notifier.fetched \cup Held("report")]
    /\ UNCHANGED <<cache, requests, serving, active, main, fetchedNull>>

\* The last report is this one now.
ReportSent ==
    /\ th.notifier.pc = "report" /\ th.notifier.todo = {}
    /\ procs' = Refer(procs, "report", th.notifier.fetched, "notifier")
    /\ th' = [th EXCEPT !.notifier.pc = "idle", !.notifier.fetched = {}]
    /\ UNCHANGED <<cache, requests, serving, mutex, active, main, fetchedNull>>

InspectorFetched ==
    /\ EndFetch("inspector")
    /\ procs' = Refer(procs, "inspector", th.inspector.fetched, "inspector")
    /\ th' = [th EXCEPT !.inspector.pc = "report"]
    /\ UNCHANGED <<cache, requests, serving, active, main, fetchedNull>>

\* handleGetEndpoints has written the response and drops its endpoints.
Respond ==
    /\ th.inspector.pc = "report"
    /\ procs' = Refer(procs, "inspector", {}, "inspector")
    /\ th' = [th EXCEPT !.inspector.pc = "idle", !.inspector.fetched = {}]
    /\ UNCHANGED <<cache, requests, serving, mutex, active, main, fetchedNull>>

Work(t) ==
    \/ t = "notifier" /\ (NotifierFetched \/ ReportSent)
    \/ t = "inspector" /\ (InspectorFetched \/ Respond)
    \/ th[t].pc \in {"compare", "report"} /\ Access(t)
    \/ WaitEnds(t)

Reader(t) ==
    \/ \E o \in Objects : Destroy(t, o)
    \/ NotDestroying(t) /\ (BeginFetch(t) \/ Work(t))
    \/ t = "notifier" /\ NotDestroying(t) /\ (StartScrape \/ ResolveSocket \/ Update)

-----------------------------------------------------------------------------
(***************************************************************************)
(* The event thread.                                                       *)
(***************************************************************************)

\* ServePendingProcessRequests: the callback is locked, then called; the
\* function refers to its Process by address.
LockCallback ==
    /\ main \in {"serve", "cancel"} /\ requests # << >> /\ serving = None
    /\ serving' = Head(requests)
    /\ mutex' = [mutex EXCEPT !.requests = "events"]
    /\ UNCHANGED <<procs, cache, requests, active, th, main, fetchedNull>>

\* Process::ProcessInfoResolved, and the request is removed.
CallCallback ==
    /\ serving # None
    /\ procs' = IF serving = Dangling THEN procs ELSE [procs EXCEPT ![serving].pending = FALSE]
    /\ requests' = IF serving = Dangling THEN requests ELSE Tail(requests)
    /\ serving' = None
    /\ UNCHANGED <<cache, mutex, active, th, main, fetchedNull>>

\* Nothing is pending: the mutex is released, and the next event is handled.
Served ==
    /\ main = "serve" /\ requests = << >> /\ serving = None
    /\ mutex' = [mutex EXCEPT !.requests = Free]
    /\ main' = "event"
    /\ UNCHANGED <<procs, cache, requests, serving, active, th, fetchedNull>>

\* UpdateConnection needs the tracker's mutex.
HandleEvent ==
    /\ main = "event" /\ mutex.tracker = Free
    /\ main' = "serve"
    /\ UNCHANGED <<procs, cache, requests, serving, mutex, active, th, fetchedNull>>

\* STOP_COLLECTOR is seen at the head of the loop.
StopRunning ==
    /\ main = "serve" /\ mutex.requests = Free
    /\ main' = "stop"
    /\ UNCHANGED <<procs, cache, requests, serving, mutex, active, th, fetchedNull>>

\* The destructor closes the server and joins the notifier, then calls CleanUp.
Joined ==
    /\ main = "stop" /\ \A t \in Readers : th[t].pc = "idle" /\ NotDestroying(t)
    /\ main' = "cancel"
    /\ UNCHANGED <<procs, cache, requests, serving, mutex, active, th, fetchedNull>>

CleanUp ==
    /\ main = "cancel" /\ requests = << >> /\ serving = None
    /\ mutex' = [mutex EXCEPT !.requests = Free]
    /\ main' = "done"
    /\ UNCHANGED <<procs, cache, requests, serving, active, th, fetchedNull>>

Events == LockCallback \/ CallCallback \/ Served \/ HandleEvent \/ Joined \/ CleanUp

StoreInit ==
    /\ procs = [o \in Objects |-> [pid |-> None, pending |-> FALSE, holders |-> {}, state |-> "free"]]
    /\ cache = << >> /\ requests = << >> /\ serving = None
    /\ mutex = [tracker |-> Free, requests |-> Free]
    /\ active = {} /\ main = "serve" /\ fetchedNull = FALSE
    /\ th = [t \in Readers |-> [pc |-> "idle", todo |-> {}, fetched |-> {}, waiting |-> None]]

StoreNext == Events \/ StopRunning \/ \E t \in Readers : Reader(t)

\* Every thread keeps running, and a wait ends after 30 seconds.  Whether and
\* when collector is stopped, and what is scraped, is left open.
StoreFairness ==
    /\ WF_storeVars(LockCallback \/ CallCallback \/ Served \/ Joined \/ CleanUp)
    /\ SF_storeVars(HandleEvent)
    /\ \A t \in Readers :
         /\ WF_storeVars(\E o \in Objects : Destroy(t, o))
         /\ WF_storeVars(NotDestroying(t) /\ Work(t))
    /\ SF_storeVars(BeginFetch("notifier")) /\ SF_storeVars(Update) /\ SF_storeVars(ResolveSocket)

StoreSpec == StoreInit /\ [][StoreNext]_storeVars
StoreFairSpec == StoreSpec /\ StoreFairness

-----------------------------------------------------------------------------
(***************************************************************************)
(* Properties.                                                             *)
(***************************************************************************)

\* The store deduplicates: no two Process objects of one pid are in use at a time,
\* although entries of the cache do not keep the objects alive, the last
\* reference may be dropped by any thread and an entry outlives its object.
Deduplicated == \A o, p \in Live : procs[o].pid = procs[p].pid => o = p

\* The cache leads to every process that is in use, so that the next scrape
\* finds the same object and the endpoint keeps its identity.
CacheComplete == \A o \in Live : procs[o].pid \in DOMAIN cache /\ cache[procs[o].pid] = o

\* A pid has one Process object at a time, and while it is in use the cache leads
\* to it, whichever thread drops the last reference to its predecessor
\* (Process.cpp:19-30, :112-116).
OneObjectPerProcess == Deduplicated /\ CacheComplete

\* The event thread, blocked by a fetch that holds the tracker's mutex and waits
\* for the event thread, always gets to serve requests again, or has stopped.
EventThreadResumes == []<>(main \in {"serve", "done"})

\* A stop always completes, although nobody answers requests any more while the
\* notifier is joined.
StopCompletes == main = "stop" ~> main = "done"

\* The information of every process that stays in use is resolved or cancelled.
EveryRequestAnswered == \A o \in Objects : procs[o].state = "live" /\ procs[o].pending ~> ~procs[o].pending

\* Fetch returns a process.
FetchFindsProcess == ~fetchedNull

\* A callback that is being called still has its Process.
CallbackHasProcess == serving # Dangling

=============================================================================
