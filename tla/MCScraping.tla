------------------------------ MODULE MCScraping -----------------------------
(***************************************************************************)
(* What collector finds out by itself, for TLC: the scraper of /proc on    *)
(* two hosts, the radix tree that it and the tracker look networks up in,  *)
(* the processes that listening endpoints refer to and their store, and    *)
(* the profiles of collector.  A behaviour is one of the part that focus   *)
(* names; the first host, the store and the profilers stay at an initial   *)
(* state in the behaviours of the other parts; the second host and the     *)
(* tree are absent from all but their own.                                 *)
(***************************************************************************)
EXTENDS MCProcfsScraper, ProcessStore, ProfilerHandler

CONSTANT NoNet

VARIABLES
    focus,                                                               \* the part of this behaviour
    proc2, fds2, used2, changes2, scrape2, sockets2, conns2, result2,
    throughout2, sometime2, dropped2,                                    \* ProcfsScraper on the second host
    tree, other, inserted                                                \* NRadix

\* The host of the configuration has processes that share sockets; on this one
\* sockets are in the tables of both families.
Families ==
    INSTANCE ProcfsScraper WITH
        Container <- SeparateContainer, Namespace <- SeparateNamespace, Sockets <- BothFamilies,
        NoTcp6 <- {"n2"}, ListenEndpoints <- FALSE,
        proc <- proc2, fds <- fds2, used <- used2, changes <- changes2, scrape <- scrape2, sockets <- sockets2,
        conns <- conns2, result <- result2, throughout <- throughout2, sometime <- sometime2, dropped <- dropped2

Nets == INSTANCE MCNRadix WITH WordBits <- 3, IPv4Bits <- 2, Networks <- {}, MaxTree <- 0, MaxOther <- 0
Lookup ==
    INSTANCE NRadix WITH WordBits <- 3, IPv4Bits <- 2, Networks <- Nets!ManyNetworks, MaxTree <- 3, MaxOther <- 0
Subset ==
    INSTANCE NRadix WITH WordBits <- 3, IPv4Bits <- 2, Networks <- Nets!SomeNetworks, MaxTree <- 2, MaxOther <- 3

ASSUME ScrapingAssumption ==
    /\ Families!ScraperAssumption /\ Lookup!NRadixAssumption
    /\ ProcessStoreAssumption /\ ProfilerAssumption

In(part) == focus = part

familiesVars == <<proc2, fds2, used2, changes2, scrape2, sockets2, conns2, result2, throughout2, sometime2, dropped2>>
radixVars == <<tree, other, inserted>>
groupVars == <<focus, vars, familiesVars, radixVars, storeVars, profilerVars>>

NoFamilies ==
    /\ proc2 = "absent" /\ fds2 = "absent" /\ used2 = "absent" /\ changes2 = "absent" /\ scrape2 = "absent"
    /\ sockets2 = "absent" /\ conns2 = "absent" /\ result2 = "absent" /\ throughout2 = "absent"
    /\ sometime2 = "absent" /\ dropped2 = "absent"
NoRadix == tree = "absent" /\ other = "absent" /\ inserted = "absent"

GroupInit ==
    /\ \/ focus \in {"shared", "store", "profiler"} /\ NoFamilies /\ NoRadix
       \/ focus = "families" /\ Families!Init /\ NoRadix
       \/ focus \in {"lookup", "subset"} /\ NoFamilies /\ Lookup!Init
    /\ Init /\ (In("shared") \/ used = {}) /\ StoreInit /\ ProfilerInit

SharedStep == In("shared") /\ Next /\ UNCHANGED <<focus, familiesVars, radixVars, storeVars, profilerVars>>
FamiliesStep == In("families") /\ Families!Next /\ UNCHANGED <<focus, vars, radixVars, storeVars, profilerVars>>
LookupStep == In("lookup") /\ Lookup!Next /\ UNCHANGED <<focus, vars, familiesVars, storeVars, profilerVars>>
SubsetStep == In("subset") /\ Subset!Next /\ UNCHANGED <<focus, vars, familiesVars, storeVars, profilerVars>>
StoreStep == In("store") /\ StoreNext /\ UNCHANGED <<focus, vars, familiesVars, radixVars, profilerVars>>
ProfilerStep == In("profiler") /\ ProfilerNext /\ UNCHANGED <<focus, vars, familiesVars, radixVars, storeVars>>

GroupNext == SharedStep \/ FamiliesStep \/ LookupStep \/ SubsetStep \/ StoreStep \/ ProfilerStep

GroupSpec == GroupInit /\ [][GroupNext]_groupVars

-----------------------------------------------------------------------------
(***************************************************************************)
(* The properties of the second host and of the tree.  The others are      *)
(* those of the first host (ProcfsScraper), ProcessStore, ProfilerHandler. *)
(***************************************************************************)

\* On the second host too a scrape reports what was open all the time, unless the
\* tables of the namespace were lost with a process; a missing net/tcp6 loses nothing
\* else, and each socket is reported once and only if it was open
\* (ProcfsScraper.cpp:552, :108).
BothFamiliesComplete ==
    In("families") => Families!CompleteUnlessDropped /\ Families!ScrapeSound /\ Families!ReportedOnce

\* The tree is the set of its networks: none that was inserted is lost, Find returns
\* the longest that contains an address unless a longer one of the other family
\* hides it, and trees of one family are compared by containment
\* (NRadix.cpp:71-83, :182, :208-248).
RadixExact ==
    /\ In("lookup") => Lookup!NothingLost /\ Lookup!FindLongest
    /\ In("subset") => Subset!SubsetExact
=============================================================================
