----------------------------- MODULE ConnTracker -----------------------------
(***************************************************************************)
(* The data structures and pure computations of collector's connection     *)
(* tracker (ConnTracker.h, ConnTracker.cpp): connection statuses, the two  *)
(* tracked maps, normalisation, fetching, and the delta between two        *)
(* fetched states, with and without afterglow.                             *)
(*                                                                         *)
(* A C++ UnorderedMap is a function whose DOMAIN is the map's key set.     *)
(* Addresses are the numbers 0 .. 2^AddressBits - 1 of one address family: *)
(* 0 is the null address, the all-ones number is the canonical external    *)
(* address (255.255.255.255).  A radix tree is the set of its networks.    *)
(***************************************************************************)
EXTENDS Integers, FiniteSets, Functions

CONSTANTS
    AddressBits,                \* Address::length() * 8
    PrivateNetworks,            \* the networks of PrivateNetworks()
    NonAggregatedNetworks,      \* non_aggregated_networks_, fixed at start-up
    IgnoredNetworks,            \* ignored_networks_, fixed at start-up
    IgnoredL4ProtoPortPairs     \* ignored_l4proto_port_pairs_, fixed at start-up

Address == 0 .. 2^AddressBits - 1

NullAddress == 0

CanonicalExternalAddr == 2^AddressBits - 1

ASSUME AddressAssumption == AddressBits \in Nat \ {0} /\ CanonicalExternalAddr \in Nat \ {0}

IsCanonicalExternalIp(a) == a = CanonicalExternalAddr

\* IPNet: is_addr tells an address that carries a prefix length from a network.
IPNet == [addr : Address, bits : 0 .. AddressBits, is_addr : BOOLEAN]

NullNet == [addr |-> NullAddress, bits |-> 0, is_addr |-> FALSE]

Contains(net, a) ==
    LET size == 2^(AddressBits - net.bits) IN a \div size = net.addr \div size

IsSubset(inner, outer) == inner.bits >= outer.bits /\ Contains(outer, inner.addr)

\* NRadixTree::Find: the longest matching network, IPNet{} when there is none.
Find(tree, a) ==
    LET matching == {n \in tree : Contains(n, a)}
    IN  IF matching = {} THEN NullNet
        ELSE CHOOSE n \in matching : \A m \in matching : m.bits <= n.bits

Finds(tree, a) == Find(tree, a) # NullNet

IsPublic(a) == ~ \E n \in PrivateNetworks : Contains(n, a)

ContainsPrivateNetwork(tree) ==
    \E n \in tree, p \in PrivateNetworks : IsSubset(n, p) \/ IsSubset(p, n)

-----------------------------------------------------------------------------
(***************************************************************************)
(* ConnStatus packs a timestamp and, in the top bit, the active flag.      *)
(***************************************************************************)
Status(T) == [last : T, active : BOOLEAN]

ConnStatus(ts, active) == [last |-> ts, active |-> active]

SetActive(s, active) == [s EXCEPT !.active = active]

\* data_ <= other.data_ on the packed words.
DataLeq(s, other) ==
    IF s.active = other.active THEN s.last <= other.last ELSE other.active

\* MergeFrom folded over a set of statuses: the largest packed word.
MergeFrom(S) == CHOOSE s \in S : \A o \in S : DataLeq(o, s)

IsInAfterglowPeriod(s, time, period) == time - s.last < period

\* Faulty variant: the afterglow period is ignored.
WasRecentlyActiveIgnoringAfterglow(s, time, period) == s.active

WasRecentlyActive(s, time, period) ==
    s.active \/ IsInAfterglowPeriod(s, time, period)

\* m is a map from some of the keys in K to statuses with timestamps in T.
MapOn(m, K, T) == DOMAIN m \subseteq K /\ \A k \in DOMAIN m : m[k] \in Status(T)

EmptyMap == [k \in {} |-> ConnStatus(0, FALSE)]

Overrides(m, k, ts) == k \notin DOMAIN m \/ ts > m[k].last

EmplaceOrUpdate(m, k, s) ==
    [x \in DOMAIN m \cup {k} |-> IF x = k /\ Overrides(m, k, s.last) THEN s ELSE m[x]]

\* Faulty variant: what the scrape did not see stays as it was.
UpdateKeepingMissing(m, scraped, ts) ==
    [x \in DOMAIN m \cup scraped |->
        IF x \in scraped /\ Overrides(m, x, ts) THEN ConnStatus(ts, TRUE) ELSE m[x]]

\* Update: everything known becomes inactive, then each scraped object is
\* emplaced as active at the time the scrape started.
Update(m, scraped, ts) ==
    [x \in DOMAIN m \cup scraped |->
        IF x \in scraped /\ Overrides(m, x, ts) THEN ConnStatus(ts, TRUE)
                                                ELSE SetActive(m[x], FALSE)]

-----------------------------------------------------------------------------
(***************************************************************************)
(* Normalisation.  known is the record of what Sensor told the tracker:    *)
(* known.public_ips, known.networks, and known.private_exists, the entry   *)
(* of known_private_networks_exists_ ("unset" when there is none).         *)
(* ext is the set of directions for which external IPs are enabled.        *)
(***************************************************************************)
Direction == {"INGRESS", "EGRESS"}

NormalizeAddress(a, known, enable_external_ips) ==
    LET keep == ~IsPublic(a) \/ Finds(NonAggregatedNetworks, a)
        net  == Find(known.networks, a)
        own(bits) == [addr |-> a, bits |-> bits, is_addr |-> TRUE]
    IN  IF a = NullAddress THEN NullNet
        ELSE IF keep \/ a \in known.public_ips
             THEN own(IF keep /\ known.private_exists = "no" THEN 0 ELSE net.bits)
        ELSE IF net # NullNet THEN net
        ELSE IF enable_external_ips
             THEN [addr |-> a, bits |-> AddressBits, is_addr |-> FALSE]
             ELSE [addr |-> CanonicalExternalAddr, bits |-> 0, is_addr |-> TRUE]

\* The confidence that a port is ephemeral.
IsEphemeralPort(port) ==
    CASE port >= 49152                   -> 4
      [] port >= 32768 /\ port < 49152   -> 3
      [] port >= 1025  /\ port <= 5000   -> 2
      [] port = 1024                     -> 1
      [] OTHER                           -> 0

DirectionOf(is_server) == IF is_server THEN "INGRESS" ELSE "EGRESS"

NormalizeConnection(c, known, ext) ==
    LET is_server == IF c.l4proto = "UDP"
                     THEN IsEphemeralPort(c.rport) > IsEphemeralPort(c.lport)
                     ELSE c.is_server
    IN  [container |-> c.container,
         lport     |-> IF is_server THEN c.lport ELSE 0,
         remote    |-> NormalizeAddress(c.raddr, known, DirectionOf(is_server) \in ext),
         rport     |-> IF is_server THEN 0 ELSE c.rport,
         l4proto   |-> c.l4proto,
         is_server |-> is_server]

\* The listening address is reduced to its family, the originator process to
\* the attributes AdvertisedEndpointEquality compares.
NormalizeContainerEndpoint(e) ==
    [container |-> e.container, port |-> e.port, l4proto |-> e.l4proto,
     originator |-> e.originator.attrs]

ShouldFetchConnection(c) ==
    /\ <<c.l4proto, c.lport>> \notin IgnoredL4ProtoPortPairs
    /\ <<c.l4proto, c.rport>> \notin IgnoredL4ProtoPortPairs
    /\ ~Finds(IgnoredNetworks, c.raddr)

ShouldFetchContainerEndpoint(e) ==
    <<e.l4proto, e.port>> \notin IgnoredL4ProtoPortPairs

-----------------------------------------------------------------------------
(***************************************************************************)
(* Fetching.  norm maps every object the filters let through to its        *)
(* normalised form; statuses that collide are merged.                      *)
(***************************************************************************)
FetchState(m, norm) ==
    LET fetched == DOMAIN m \cap DOMAIN norm
    IN  [k \in {norm[c] : c \in fetched} |->
            MergeFrom({m[c] : c \in {d \in fetched : norm[d] = k}})]

ClearInactive(m) == Restrict(m, {x \in DOMAIN m : m[x].active})

-----------------------------------------------------------------------------
(***************************************************************************)
(* Deltas between the state reported last (old) and the state just         *)
(* fetched (new).                                                          *)
(***************************************************************************)
\* Faulty variant: objects that vanished from the new state are not closed.
ComputeDeltaForgettingGone(new, old) ==
    Restrict(new, {k \in DOMAIN new : k \notin DOMAIN old \/ new[k].active # old[k].active})

\* Faulty variant: an object that was inactive and is active again is left out.
ComputeDeltaMissingResurrected(new, old) ==
    LET changed == {k \in DOMAIN new : k \notin DOMAIN old \/ (old[k].active /\ ~new[k].active)}
        gone    == {k \in DOMAIN old \ DOMAIN new : old[k].active}
    IN  [k \in changed \cup gone |->
            IF k \in DOMAIN new THEN new[k] ELSE SetActive(old[k], FALSE)]

ComputeDelta(new, old) ==
    LET changed == {k \in DOMAIN new :
                        \/ k \notin DOMAIN old
                        \/ new[k].active # old[k].active
                        \/ ~new[k].active /\ old[k].last < new[k].last}
        gone    == {k \in DOMAIN old \ DOMAIN new : old[k].active}
    IN  [k \in changed \cup gone |->
            IF k \in DOMAIN new THEN new[k] ELSE SetActive(old[k], FALSE)]

\* Faulty variant: a connection that opened and closed since the last scrape
\* is reported as closed although its afterglow period has only begun.
ComputeDeltaAfterglowMissingShortLived(new, old, time, last_time, period) ==
    LET new_recent(k) == WasRecentlyActive(new[k], time, period)
        old_recent(k) == WasRecentlyActive(old[k], last_time, period)
        changed == {k \in DOMAIN new : k \notin DOMAIN old \/ new_recent(k) # old_recent(k)}
        expired == {k \in DOMAIN old \ DOMAIN new :
                        old_recent(k) /\ ~IsInAfterglowPeriod(old[k], time, period)}
    IN  [k \in changed \cup expired |->
            IF k \in DOMAIN new THEN new[k] ELSE ConnStatus(old[k].last, FALSE)]

\* A status in its afterglow period at the time of its scrape counts as active.
ComputeDeltaAfterglow(new, old, time, last_time, period) ==
    LET new_recent(k) == WasRecentlyActive(new[k], time, period)
        old_recent(k) == WasRecentlyActive(old[k], last_time, period)
        changed == {k \in DOMAIN new :
                        \/ k \notin DOMAIN old
                        \/ new_recent(k) # old_recent(k)
                        \/ ~new_recent(k) /\ old[k].last < new[k].last}
        expired == {k \in DOMAIN old \ DOMAIN new :
                        old_recent(k) /\ ~IsInAfterglowPeriod(old[k], time, period)}
    IN  [k \in changed \cup expired |->
            IF k \in DOMAIN new THEN SetActive(new[k], new_recent(k))
                                ELSE ConnStatus(old[k].last, FALSE)]

RecentlyActive(m, time, period) ==
    {k \in DOMAIN m : WasRecentlyActive(m[k], time, period)}

Opened(delta) == {k \in DOMAIN delta : delta[k].active}

\* Sensor closes the delta's inactive entries and opens the ones it was sent.
ApplyDelta(view, delta, sent) == (view \ (DOMAIN delta \ Opened(delta))) \cup sent

\* Faulty variant: entries still in their afterglow period are forgotten.
UpdateOldStateForgetting(old, new, time, period) == new

UpdateOldState(old, new, time, period) ==
    LET kept == {k \in DOMAIN old : IsInAfterglowPeriod(old[k], time, period)}
    IN  [k \in kept \cup DOMAIN new |-> IF k \in DOMAIN new THEN new[k] ELSE old[k]]

-----------------------------------------------------------------------------
(***************************************************************************)
(* Closing what an external IPs configuration change makes obsolete.       *)
(***************************************************************************)
ShouldNormalizeConnection(k, known) ==
    IsCanonicalExternalIp(NormalizeAddress(k.remote.addr, known, FALSE).addr)

ShouldClose(k, enabling, known) ==
    IF enabling THEN IsCanonicalExternalIp(k.remote.addr)
    ELSE ~IsCanonicalExternalIp(k.remote.addr) /\ ShouldNormalizeConnection(k, known)

\* Faulty variant: only a change for INGRESS is looked at.
ClosedByIngressChange(old, prev, ext, known) ==
    {k \in DOMAIN old :
        /\ k.is_server /\ ("INGRESS" \in ext) # ("INGRESS" \in prev)
        /\ ShouldClose(k, "INGRESS" \in ext, known)}

ClosedByConfigChange(old, prev, ext, known) ==
    {k \in DOMAIN old :
        LET d == DirectionOf(k.is_server)
        IN  (d \in ext) # (d \in prev) /\ ShouldClose(k, d \in ext, known)}

\* Faulty variant: the moved entry keeps its active flag.
MoveToDeltaStillActive(delta, old, closed) ==
    [k \in DOMAIN delta \cup closed |-> IF k \in DOMAIN delta THEN delta[k] ELSE old[k]]

\* CloseConnections moves an entry to the delta; an entry already there stays.
MoveToDelta(delta, old, closed) ==
    [k \in DOMAIN delta \cup closed |->
        IF k \in DOMAIN delta THEN delta[k] ELSE SetActive(old[k], FALSE)]

=============================================================================
