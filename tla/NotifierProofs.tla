----------------------------- MODULE NotifierProofs -----------------------------
(***************************************************************************)
(* Proofs about the computations of module ConnTracker, and about module   *)
(* NetworkStatusNotifier, for every set of connections and endpoints,      *)
(* every configuration and every bound.                                    *)
(***************************************************************************)
EXTENDS NetworkStatusNotifier, TLAPS, WellFoundedInduction

\* Zenon is the default prover here; a leaf that needs arithmetic, records or
\* function updates names SMT instead.
USE ZenonT(60)

\* A non-empty set of naturals below a bound has a largest element.
LEMMA BoundedMax ==
    ASSUME NEW B \in Nat, NEW S \in SUBSET (0 .. B), S # {}
    PROVE  \E m \in S : \A x \in S : x <= m
<1>0. S \subseteq Int
    BY SMTT(60)
<1> DEFINE T == {B - x : x \in S}
           R == OpToRel(<, Nat)
<1>1. T \subseteq Nat /\ T # {}
    <2>1. \A x \in S : x \in Int /\ x <= B /\ B - x \in Nat
        BY SMTT(60)
    <2> QED
        BY <2>1 DEF T
<1>2. PICK y \in T : \A z \in T : ~(<<z, y>> \in R)
    BY <1>1, NatLessThanWellFounded, WFMin
<1>3. \A z \in T : ~(z < y)
    BY <1>1, <1>2 DEF OpToRel
<1>4. PICK m \in S : y = B - m
    BY <1>2
<1>5. \A x \in S : x <= m
    <2> SUFFICES ASSUME NEW x \in S PROVE x <= m
        OBVIOUS
    <2>1. B - x \in T
        BY DEF T
    <2>2. ~(B - x < B - m)
        BY <2>1, <1>3, <1>4
    <2>3. x \in Int /\ m \in Int
        BY <1>0
    <2> QED
        BY <2>2, <2>3, SMTT(60)
<1> QED
    BY <1>5

\* Merging a non-empty set of statuses returns the largest of them.
LEMMA MergeFromLargest ==
    ASSUME NEW B \in Nat, NEW S \in SUBSET Status(0 .. B), S # {}
    PROVE  MergeFrom(S) \in S /\ \A o \in S : DataLeq(o, MergeFrom(S))
<1> DEFINE A == {s \in S : s.active}
           M(Q) == {s.last : s \in Q}
<1>1. ASSUME NEW Q \in SUBSET S, Q # {}
      PROVE  \E s \in Q : \A o \in Q : o.last <= s.last
    <2>1. M(Q) \in SUBSET (0 .. B) /\ M(Q) # {}
        BY <1>1 DEF Status
    <2>2. PICK m \in M(Q) : \A x \in M(Q) : x <= m
        BY <2>1, BoundedMax
    <2> QED
        BY <2>2
<1>2. \E s \in S : \A o \in S : DataLeq(o, s)
    <2>1. CASE A # {}
        <3>1. PICK s \in A : \A o \in A : o.last <= s.last
            BY <1>1, <2>1
        <3>2. \A o \in S : DataLeq(o, s)
            BY <3>1 DEF DataLeq, Status
        <3> QED
            BY <3>2
    <2>2. CASE A = {}
        <3>1. PICK s \in S : \A o \in S : o.last <= s.last
            BY <1>1
        <3>2. \A o \in S : DataLeq(o, s)
            BY <3>1, <2>2 DEF DataLeq, Status
        <3> QED
            BY <3>2
    <2> QED
        BY <2>1, <2>2
<1> QED
    BY <1>2 DEF MergeFrom

-----------------------------------------------------------------------------
(***************************************************************************)
(* Maps of statuses.                                                       *)
(***************************************************************************)
\* EmplaceOrUpdate keeps a map of statuses.
LEMMA EmplaceOrUpdateType ==
    ASSUME NEW K, NEW T, NEW m, MapOn(m, K, T), NEW k \in K, NEW s \in Status(T)
    PROVE  MapOn(EmplaceOrUpdate(m, k, s), K, T)
BY DEF MapOn, EmplaceOrUpdate, Overrides

\* Update keeps a map of statuses.
LEMMA UpdateType ==
    ASSUME NEW K, NEW T, NEW m, MapOn(m, K, T), NEW found \in SUBSET K, NEW at \in T
    PROVE  MapOn(Update(m, found, at), K, T)
<1> SUFFICES ASSUME NEW x \in DOMAIN m \cup found
             PROVE  Update(m, found, at)[x] \in Status(T)
    BY DEF MapOn, Update
<1>1. CASE x \in found /\ Overrides(m, x, at)
    BY <1>1 DEF Update, ConnStatus, Status
<1>2. CASE ~(x \in found /\ Overrides(m, x, at))
    <2>1. x \in DOMAIN m
        BY <1>2 DEF Overrides
    <2>2. m[x] \in Status(T)
        BY <2>1 DEF MapOn
    <2>3. SetActive(m[x], FALSE) \in Status(T)
        BY <2>2 DEF SetActive, Status
    <2> QED
        BY <1>2, <2>3 DEF Update
<1> QED
    BY <1>1, <1>2

\* Erasing entries keeps a map of statuses.
LEMMA ClearInactiveType ==
    ASSUME NEW K, NEW T, NEW m, MapOn(m, K, T)
    PROVE  MapOn(ClearInactive(m), K, T)
BY DEF MapOn, ClearInactive, Restrict

\* An event never makes the time of a tracked object older.
LEMMA EmplaceOrUpdateTimes ==
    ASSUME NEW K, NEW m, MapOn(m, K, Int), NEW k \in K, NEW s \in Status(Int), NEW c \in DOMAIN m
    PROVE  LET n == EmplaceOrUpdate(m, k, s) IN c \in DOMAIN n /\ m[c].last <= n[c].last
<1>1. m[c].last \in Int /\ s.last \in Int
    BY DEF MapOn, Status
<1>2. CASE c = k /\ Overrides(m, k, s.last)
    BY <1>1, <1>2, SMTT(60) DEF EmplaceOrUpdate, Overrides
<1>3. CASE ~(c = k /\ Overrides(m, k, s.last))
    BY <1>1, <1>3, SMTT(60) DEF EmplaceOrUpdate
<1> QED
    BY <1>2, <1>3

\* After Update, a scraped object has the time of the scrape or a newer one.
LEMMA UpdateTimes ==
    ASSUME NEW K, NEW m, MapOn(m, K, Int), NEW S \in SUBSET K, NEW t \in Int, NEW c \in S
    PROVE  LET n == Update(m, S, t) IN c \in DOMAIN n /\ t <= n[c].last
<1>1. t \in Int /\ (c \in DOMAIN m => m[c] \in Status(Int) /\ m[c].last \in Int)
    BY DEF MapOn, Status
<1>2. CASE Overrides(m, c, t)
    BY <1>1, <1>2, SMTT(60) DEF Update, ConnStatus
<1>3. CASE ~Overrides(m, c, t)
    <2>1. c \in DOMAIN m /\ t <= m[c].last
        BY <1>1, <1>3, SMTT(60) DEF Overrides
    <2>2. SetActive(m[c], FALSE).last = m[c].last
        BY <1>1, <2>1 DEF SetActive, Status
    <2>3. Update(m, S, t)[c] = SetActive(m[c], FALSE) /\ c \in DOMAIN Update(m, S, t)
        BY <1>3 DEF Update
    <2> QED
        BY <2>1, <2>2, <2>3
<1> QED
    BY <1>2, <1>3

\* A fetched state maps normalised keys to statuses of the fetched map.
LEMMA FetchStateType ==
    ASSUME NEW B \in Nat, NEW K, NEW N, NEW m, MapOn(m, K, 0 .. B),
           NEW norm, \A c \in DOMAIN norm : norm[c] \in N
    PROVE  MapOn(FetchState(m, norm), N, 0 .. B)
<1> DEFINE fetched == DOMAIN m \cap DOMAIN norm
           merged(k) == {m[c] : c \in {d \in fetched : norm[d] = k}}
           keys == {norm[c] : c \in fetched}
<1>1. FetchState(m, norm) = [k \in keys |-> MergeFrom(merged(k))]
    BY DEF FetchState
<1>2. keys \subseteq N
    OBVIOUS
<1>3. ASSUME NEW k \in keys
      PROVE  MergeFrom(merged(k)) \in Status(0 .. B)
    <2>1. merged(k) \in SUBSET Status(0 .. B)
        BY DEF MapOn
    <2>2. merged(k) # {}
        BY <1>3
    <2>3. MergeFrom(merged(k)) \in merged(k)
        BY <2>1, <2>2, MergeFromLargest
    <2> QED
        BY <2>1, <2>3
<1> QED
    BY <1>1, <1>2, <1>3 DEF MapOn

\* A fetch loses no object that the filter lets through, and merging never makes
\* its status smaller.
LEMMA FetchStateKeeps ==
    ASSUME NEW B \in Nat, NEW K, NEW m, MapOn(m, K, 0 .. B), NEW norm,
           NEW c \in DOMAIN m \cap DOMAIN norm
    PROVE  /\ norm[c] \in DOMAIN FetchState(m, norm)
           /\ DataLeq(m[c], FetchState(m, norm)[norm[c]])
<1> DEFINE fetched == DOMAIN m \cap DOMAIN norm
           merged(k) == {m[d] : d \in {e \in fetched : norm[e] = k}}
           keys == {norm[d] : d \in fetched}
<1>1. FetchState(m, norm) = [k \in keys |-> MergeFrom(merged(k))]
    BY DEF FetchState
<1>2. norm[c] \in keys /\ m[c] \in merged(norm[c])
    OBVIOUS
<1>3. merged(norm[c]) \in SUBSET Status(0 .. B)
    BY DEF MapOn
<1>4. DataLeq(m[c], MergeFrom(merged(norm[c])))
    BY <1>2, <1>3, MergeFromLargest
<1> QED
    BY <1>1, <1>2, <1>4

-----------------------------------------------------------------------------
(***************************************************************************)
(* A delta is exactly the difference between two states.                   *)
(***************************************************************************)

\* A receiver that holds open the active entries of the old state and applies
\* the delta of ComputeDelta holds open the active entries of the new state.
THEOREM ComputeDeltaExact ==
    ASSUME NEW T \in SUBSET Int, NEW K, NEW new, NEW old, MapOn(new, K, T), MapOn(old, K, T)
    PROVE  LET delta == ComputeDelta(new, old)
           IN  Opened(new) = ApplyDelta(Opened(old), delta, Opened(delta))
<1> DEFINE delta == ComputeDelta(new, old)
<1>1. ASSUME NEW k
      PROVE  k \in Opened(new) <=> k \in ApplyDelta(Opened(old), delta, Opened(delta))
    <2>1. CASE k \in DOMAIN new
        <3>1. new[k] \in Status(T) /\ (k \in DOMAIN old => old[k] \in Status(T))
            BY <2>1 DEF MapOn
        <3>2. k \in DOMAIN delta <=> \/ k \notin DOMAIN old
                                     \/ new[k].active # old[k].active
                                     \/ ~new[k].active /\ old[k].last < new[k].last
            BY <2>1 DEF ComputeDelta
        <3>3. k \in DOMAIN delta => delta[k] = new[k]
            BY <2>1 DEF ComputeDelta
        <3> QED
            BY <2>1, <3>1, <3>2, <3>3 DEF Opened, ApplyDelta, Status
    <2>2. CASE k \notin DOMAIN new
        <3>1. k \in DOMAIN old => old[k] \in Status(T)
            BY DEF MapOn
        <3>2. k \in DOMAIN delta <=> k \in Opened(old)
            BY <2>2 DEF ComputeDelta, Opened
        <3>3. k \in DOMAIN delta => delta[k] = SetActive(old[k], FALSE)
            BY <2>2 DEF ComputeDelta
        <3>4. k \in Opened(old) => ~SetActive(old[k], FALSE).active
            BY <3>1 DEF SetActive, Status, Opened
        <3> QED
            BY <2>2, <3>2, <3>3, <3>4 DEF Opened, ApplyDelta
    <2> QED
        BY <2>1, <2>2
<1> QED
    BY <1>1

\* The same with afterglow: a receiver that holds open what was recently active
\* at the previous scrape holds open, after applying the delta, what the updated
\* old state has as recently active at this scrape.  It needs the two scrape
\* times in order, and that nothing just fetched is closed by a configuration
\* change.
THEOREM ComputeDeltaAfterglowExact ==
    ASSUME NEW K, NEW new, NEW old, MapOn(new, K, Int), MapOn(old, K, Int),
           NEW last_time \in Int, NEW time \in Int, last_time <= time,
           NEW period \in Int,
           NEW closed \in SUBSET (DOMAIN old \ DOMAIN new)
    PROVE  LET delta == MoveToDelta(ComputeDeltaAfterglow(new, old, time, last_time, period),
                                    old, closed)
               next  == UpdateOldState(Restrict(old, DOMAIN old \ closed), new, time, period)
           IN  RecentlyActive(next, time, period)
                  = ApplyDelta(RecentlyActive(old, last_time, period), delta, Opened(delta))
<1> DEFINE glow  == ComputeDeltaAfterglow(new, old, time, last_time, period)
           delta == MoveToDelta(glow, old, closed)
           next  == UpdateOldState(Restrict(old, DOMAIN old \ closed), new, time, period)
           was   == RecentlyActive(old, last_time, period)
<1>1. ASSUME NEW k
      PROVE  k \in RecentlyActive(next, time, period)
                <=> k \in ApplyDelta(was, delta, Opened(delta))
    <2>1. CASE k \in DOMAIN new
        <3> DEFINE recent == WasRecentlyActive(new[k], time, period)
        <3>1. new[k] \in Status(Int) /\ (k \in DOMAIN old => old[k] \in Status(Int))
            BY <2>1 DEF MapOn
        <3>2. k \notin closed /\ k \in DOMAIN next /\ next[k] = new[k]
            BY <2>1 DEF UpdateOldState
        <3>3. k \in DOMAIN delta <=>
                    \/ k \notin DOMAIN old
                    \/ recent # WasRecentlyActive(old[k], last_time, period)
                    \/ ~recent /\ old[k].last < new[k].last
            BY <2>1, <3>2 DEF ComputeDeltaAfterglow, MoveToDelta
        <3>4. k \in DOMAIN delta => delta[k] = SetActive(new[k], recent)
            BY <2>1, <3>2 DEF ComputeDeltaAfterglow, MoveToDelta
        <3>5. SetActive(new[k], recent).active = recent
            BY <3>1 DEF SetActive, Status
        <3>6. recent \in BOOLEAN /\ (k \in DOMAIN old =>
                    WasRecentlyActive(old[k], last_time, period) \in BOOLEAN)
            BY <3>1 DEF WasRecentlyActive, Status
        <3>7. k \in DOMAIN delta => (k \in Opened(delta) <=> recent)
            BY <3>4, <3>5 DEF Opened
        <3>8. k \in RecentlyActive(next, time, period) <=> recent
            BY <3>2 DEF RecentlyActive
        <3>9. k \in was <=> k \in DOMAIN old /\ WasRecentlyActive(old[k], last_time, period)
            BY DEF RecentlyActive
        <3>10. Opened(delta) \subseteq DOMAIN delta
            BY DEF Opened
        <3> HIDE DEF recent, delta, next, was
        <3> QED
            BY <3>3, <3>6, <3>7, <3>8, <3>9, <3>10 DEF ApplyDelta
    <2>2. CASE k \in DOMAIN old \ DOMAIN new
        <3>1. old[k] \in Status(Int)
            BY <2>2 DEF MapOn
        <3>2. k \in DOMAIN next <=> k \notin closed /\ IsInAfterglowPeriod(old[k], time, period)
            BY <2>2 DEF UpdateOldState, Restrict
        <3>3. k \in DOMAIN next => next[k] = old[k]
            BY <2>2 DEF UpdateOldState, Restrict
        <3>4. k \in DOMAIN glow <=> k \in was /\ ~IsInAfterglowPeriod(old[k], time, period)
            BY <2>2 DEF ComputeDeltaAfterglow, RecentlyActive
        <3>5. k \in DOMAIN delta <=> k \in DOMAIN glow \/ k \in closed
            BY DEF MoveToDelta
        <3>6. k \in DOMAIN delta => ~delta[k].active
            BY <2>2, <3>1 DEF ComputeDeltaAfterglow, MoveToDelta, ConnStatus, SetActive, Status
        <3>7. IsInAfterglowPeriod(old[k], time, period)
                => IsInAfterglowPeriod(old[k], last_time, period)
            BY <3>1, SMTT(60) DEF IsInAfterglowPeriod, Status
        <3>8. k \in was <=> WasRecentlyActive(old[k], last_time, period)
            BY <2>2 DEF RecentlyActive
        <3>9. k \in RecentlyActive(next, time, period)
                <=> k \notin closed /\ IsInAfterglowPeriod(old[k], time, period)
            BY <3>2, <3>3 DEF RecentlyActive, WasRecentlyActive
        <3>10. k \notin Opened(delta)
            BY <3>6 DEF Opened
        <3> HIDE DEF delta, next, was, glow
        <3> QED
            BY <3>4, <3>5, <3>7, <3>8, <3>9, <3>10 DEF ApplyDelta, WasRecentlyActive
    <2>3. CASE k \notin DOMAIN old /\ k \notin DOMAIN new
        <3>1. k \notin DOMAIN next /\ k \notin DOMAIN delta
            BY <2>3 DEF UpdateOldState, Restrict, ComputeDeltaAfterglow, MoveToDelta
        <3> QED
            BY <2>3, <3>1 DEF RecentlyActive, ApplyDelta, Opened
    <2> QED
        BY <2>1, <2>2, <2>3
<1> QED
    BY <1>1

-----------------------------------------------------------------------------
(***************************************************************************)
(* Normalisation.  Networks holds what may be in a radix tree: networks    *)
(* with a prefix and an address other than the canonical external one.     *)
(***************************************************************************)
TreeNetwork == {n \in IPNet : n.bits >= 1 /\ ~IsCanonicalExternalIp(n.addr)}

KnowledgeOK(kn) == kn.networks \subseteq TreeNetwork

\* Find returns IPNet{} or a network of the tree, and the latter whenever some
\* network of the tree contains the address.
LEMMA FindSound ==
    ASSUME NEW tree \in SUBSET TreeNetwork, NEW a
    PROVE  /\ Find(tree, a) \in tree \cup {NullNet}
           /\ (\E n \in tree : Contains(n, a)) => Find(tree, a) \in tree
<1> DEFINE matching == {n \in tree : Contains(n, a)}
<1>1. CASE matching = {}
    BY <1>1 DEF Find
<1>2. CASE matching # {}
    <2> DEFINE lengths == {n.bits : n \in matching}
    <2>1. lengths \in SUBSET (0 .. AddressBits) /\ lengths # {}
        BY <1>2 DEF TreeNetwork, IPNet
    <2>2. PICK b \in lengths : \A x \in lengths : x <= b
        BY <2>1, BoundedMax, AddressAssumption
    <2>3. \E n \in matching : \A m \in matching : m.bits <= n.bits
        BY <2>2
    <2> QED
        BY <1>2, <2>3 DEF Find
<1> QED
    BY <1>1, <1>2

\* The null network is in no tree.
LEMMA NullNetNotInTree == NullNet \notin TreeNetwork
BY SMTT(60) DEF TreeNetwork, NullNet

\* A normalised address is a network, and it is the canonical external one only
\* for an address that external IPs would have kept.
LEMMA NormalizeAddressSound ==
    ASSUME NEW a \in Address, ~IsCanonicalExternalIp(a), NEW kn, KnowledgeOK(kn),
           NEW enabled
    PROVE  LET r == NormalizeAddress(a, kn, enabled)
           IN  /\ r \in IPNet
               /\ IsCanonicalExternalIp(r.addr) => ~enabled
               /\ ~IsCanonicalExternalIp(r.addr) =>
                     \/ r.addr = NullAddress
                     \/ r.addr = a
                     \/ r \in kn.networks
<1> DEFINE net == Find(kn.networks, a)
<1>1. net \in kn.networks \cup {NullNet} /\ kn.networks \subseteq IPNet
    BY FindSound DEF KnowledgeOK, TreeNetwork
<1>2. NullNet \in IPNet /\ NullAddress \in Address /\ CanonicalExternalAddr \in Address
    BY AddressAssumption, SMTT(60) DEF NullNet, IPNet, NullAddress, Address, CanonicalExternalAddr
<1>3. net.bits \in 0 .. AddressBits /\ 0 \in 0 .. AddressBits /\ AddressBits \in 0 .. AddressBits
    BY <1>1, <1>2, AddressAssumption, SMTT(60) DEF IPNet
<1>4. ~IsCanonicalExternalIp(NullAddress)
    BY AddressAssumption DEF IsCanonicalExternalIp, NullAddress
<1>5. net # NullNet => net \in kn.networks /\ ~IsCanonicalExternalIp(net.addr)
    BY <1>1 DEF KnowledgeOK, TreeNetwork
<1> QED
    BY <1>1, <1>2, <1>3, <1>4, <1>5 DEF NormalizeAddress, NullNet, IPNet, IsCanonicalExternalIp

\* Normalising, with external IPs disabled, the address of something already
\* normalised that way never aggregates it further.
LEMMA NormalizeAddressStable ==
    ASSUME NEW a \in Address, ~IsCanonicalExternalIp(a), NEW kn, KnowledgeOK(kn),
           NEW r, r = NormalizeAddress(a, kn, FALSE), ~IsCanonicalExternalIp(r.addr)
    PROVE  ~IsCanonicalExternalIp(NormalizeAddress(r.addr, kn, FALSE).addr)
<1>1. CASE r.addr = NullAddress
    BY <1>1, AddressAssumption DEF NormalizeAddress, NullNet, IsCanonicalExternalIp, NullAddress
<1>2. CASE r.addr = a
    BY <1>2
<1>3. CASE r \in kn.networks /\ r.addr # NullAddress
    <2> DEFINE net == Find(kn.networks, r.addr)
    <2>1. Contains(r, r.addr)
        BY DEF Contains
    <2>2. net \in kn.networks
        BY <1>3, <2>1, FindSound DEF KnowledgeOK
    <2>3. net # NullNet /\ ~IsCanonicalExternalIp(net.addr)
        BY <2>2, NullNetNotInTree DEF KnowledgeOK, TreeNetwork
    <2> QED
        BY <1>3, <2>3 DEF NormalizeAddress
<1>4. r.addr = NullAddress \/ r.addr = a \/ r \in kn.networks
    BY NormalizeAddressSound
<1> QED
    BY <1>1, <1>2, <1>3, <1>4

\* The role that normalisation gives a connection.
LEMMA NormalizedRoleType ==
    ASSUME NEW c, c.is_server \in BOOLEAN, c.lport \in Nat, c.rport \in Nat, NEW kn, NEW ext
    PROVE  NormalizeConnection(c, kn, ext).is_server \in BOOLEAN
<1>1. \A port \in Nat : IsEphemeralPort(port) \in Int
    BY SMTT(60) DEF IsEphemeralPort
<1>2. (IsEphemeralPort(c.rport) > IsEphemeralPort(c.lport)) \in BOOLEAN
    BY <1>1, SMTT(60)
<1> QED
    BY <1>2 DEF NormalizeConnection

\* A configuration change never closes a connection in the form that the new
\* configuration gives it.
LEMMA FetchedIsNotClosed ==
    ASSUME NEW c, c.raddr \in Address, ~IsCanonicalExternalIp(c.raddr),
           NEW kn, KnowledgeOK(kn), NEW ext,
           NEW k, k = NormalizeConnection(c, kn, ext)
    PROVE  ~ShouldClose(k, DirectionOf(k.is_server) \in ext, kn)
<1> DEFINE enabled == DirectionOf(k.is_server) \in ext
<1>1. k.remote = NormalizeAddress(c.raddr, kn, enabled)
    BY DEF NormalizeConnection
<1>2. CASE enabled
    <2>1. ~IsCanonicalExternalIp(k.remote.addr)
        BY <1>1, <1>2, NormalizeAddressSound
    <2> QED
        BY <1>2, <2>1 DEF ShouldClose
<1>3. CASE ~enabled
    <2>1. k.remote = NormalizeAddress(c.raddr, kn, FALSE)
        BY <1>1, <1>3 DEF NormalizeAddress
    <2>2. ~IsCanonicalExternalIp(k.remote.addr) => ~ShouldNormalizeConnection(k, kn)
        BY <2>1, NormalizeAddressStable DEF ShouldNormalizeConnection
    <2> QED
        BY <1>3, <2>2 DEF ShouldClose
<1> QED
    BY <1>2, <1>3

-----------------------------------------------------------------------------
(***************************************************************************)
(* NetworkStatusNotifier.                                                  *)
(***************************************************************************)

\* What Sensor announced is always fit for the radix tree.
LEMMA KnowledgeSound ==
    ASSUME TypeOK
    PROVE  KnowledgeOK(known)
<1>1. KnowledgeOK(NoKnowledge)
    BY DEF KnowledgeOK, NoKnowledge
<1>2. \A msg \in ControlMessages : KnowledgeOK(Knowledge(msg))
    BY MessageAssumption, CanonicalAssumption DEF KnowledgeOK, Knowledge, TreeNetwork, Network
<1> QED
    BY <1>1, <1>2 DEF Announced, TypeOK

\* Normalised connections have their type.
LEMMA ConnNormalizationType ==
    ASSUME TypeOK
    PROVE  \A c \in DOMAIN ConnNormalization : ConnNormalization[c] \in NormalizedConnection
<1> SUFFICES ASSUME NEW c \in Connection
             PROVE  NormalizeConnection(c, known, external_ips_config) \in NormalizedConnection
    BY DEF ConnNormalization
<1> DEFINE k == NormalizeConnection(c, known, external_ips_config)
<1>1. c \in RawConnection
    BY ConnectionAssumption
<1>2. k.is_server \in BOOLEAN
    BY <1>1, NormalizedRoleType, SMTT(60) DEF RawConnection
<1>3. k.remote \in IPNet
    <2>1. k.remote = NormalizeAddress(c.raddr, known,
                                      DirectionOf(k.is_server) \in external_ips_config)
        BY DEF NormalizeConnection
    <2> QED
        BY <1>1, <2>1, KnowledgeSound, CanonicalAssumption, NormalizeAddressSound, SMTT(60)
        DEF RawConnection
<1> QED
    BY <1>1, <1>2, <1>3 DEF NormalizeConnection, NormalizedConnection, RawConnection

\* Fetched states have their types.
LEMMA NewStatesType ==
    ASSUME TypeOK
    PROVE  IsMap(NewConnState, NormalizedConnection) /\ IsMap(NewCepState, NormalizedEndpoint)
<1>1. IsMap(NewConnState, NormalizedConnection)
    BY ConnNormalizationType, FetchStateType, TimeAssumption DEF TypeOK, IsMap, NewConnState
<1>2. IsMap(NewCepState, NormalizedEndpoint)
    <2>1. \A e \in DOMAIN EndpointNormalization : EndpointNormalization[e] \in NormalizedEndpoint
        BY DEF EndpointNormalization, NormalizedEndpoint
    <2> QED
        BY <2>1, FetchStateType, TimeAssumption DEF TypeOK, IsMap, NewCepState
<1> QED
    BY <1>1, <1>2

\* What a report leaves behind has its type.
LEMMA ReportType ==
    ASSUME TypeOK
    PROVE  LET new == NewConnState
               closed == ClosedConns
           IN  /\ IsMap(NextOldConnState(new, closed), NormalizedConnection)
               /\ DOMAIN DeltaConn(new, closed) \subseteq NormalizedConnection
<1> DEFINE new == NewConnState
           closed == ClosedConns
<1>1. IsMap(new, NormalizedConnection) /\ IsMap(old_conn_state, NormalizedConnection)
    BY NewStatesType DEF TypeOK
<1>2. closed \subseteq DOMAIN old_conn_state
    BY DEF ClosedConns, ClosedByConfigChange
<1> HIDE DEF new, closed
<1>3. IsMap(NextOldConnState(new, closed), NormalizedConnection)
    BY <1>1 DEF NextOldConnState, UpdateOldState, Restrict, IsMap, MapOn
<1>4. DOMAIN DeltaConn(new, closed) \subseteq NormalizedConnection
    BY <1>1, <1>2 DEF DeltaConn, MoveToDelta, ComputeDeltaAfterglow, ComputeDelta, IsMap, MapOn
<1> QED
    BY <1>3, <1>4 DEF new, closed

\* The directions of an external IPs configuration.
LEMMA ExternalIPsConfigType == \A rc : ExternalIPsConfig(rc) \subseteq Direction
BY DEF ExternalIPsConfig, Direction

\* Buffering an event keeps the buffer's type.
LEMMA EventType ==
    ASSUME TypeOK, NEW c \in Connection, NEW added \in BOOLEAN
    PROVE  Append(events, [conn |-> c, ts |-> clock, added |-> added]) \in Seq(Event)
<1>1. [conn |-> c, ts |-> clock, added |-> added] \in Event
    BY DEF TypeOK, Event
<1> QED
    BY <1>1, SMTT(60) DEF TypeOK

-----------------------------------------------------------------------------
\* Every step keeps the types.
LEMMA TypeStep ==
    ASSUME TypeOK, [Next]_vars
    PROVE  TypeOK'
<1> USE DEF IsMap, envVars, trackerVars, scrapeVars, runVars, sensorVars, notifierVars
<1>1. CASE Tick
    BY <1>1, TimeAssumption, SMTT(60) DEF TypeOK, Tick, Sockets
<1>2. ASSUME NEW c \in Connection, Connect(c)
      PROVE  TypeOK'
    BY <1>2, EventType DEF TypeOK, Connect, Raise, Sockets
<1>3. ASSUME NEW c \in Connection, Close(c)
      PROVE  TypeOK'
    BY <1>3, EventType DEF TypeOK, Close, Raise, Sockets
<1>4. ASSUME NEW c \in Connection, SendRecv(c)
      PROVE  TypeOK'
    BY <1>4, EventType DEF TypeOK, SendRecv, Sockets
<1>5. ASSUME NEW e \in ContainerEndpoint, Listen(e) \/ StopListening(e)
      PROVE  TypeOK'
    BY <1>5 DEF TypeOK, Listen, StopListening, Sockets
<1>6. ASSUME NEW rc \in RuntimeConfigs, SetRuntimeConfig(rc)
      PROVE  TypeOK'
    BY <1>6 DEF TypeOK, SetRuntimeConfig, Sockets
<1>7. ASSUME NEW msg \in ControlMessages, OnRecvControlMessage(msg)
      PROVE  TypeOK'
    BY <1>7 DEF Announced, TypeOK, OnRecvControlMessage, Sockets
<1>8. CASE HandleSignal
    <2> DEFINE e == Head(events)
    <2>1. e \in Event
        BY <1>8, SMTT(60) DEF HandleSignal, TypeOK
    <2>2. ConnStatus(e.ts, e.added) \in Status(0 .. MaxClock)
        BY <2>1 DEF ConnStatus, Status, Event
    <2>3. e.conn \in Connection
        BY <2>1 DEF Event
    <2>4. IsMap(conn_state', Connection)
        BY <1>8, <2>2, <2>3, EmplaceOrUpdateType DEF HandleSignal, TypeOK
    <2>5. events' \in Seq(Event)
        BY <1>8, SMTT(60) DEF HandleSignal, TypeOK
    <2> QED
        BY <1>8, <2>4, <2>5 DEF HandleSignal, TypeOK, Sockets
<1>9. CASE StartStream
    BY <1>9, ExternalIPsConfigType, SMTT(60) DEF TypeOK, StartStream, FreshRun, EmptyMap, MapOn, Sockets
<1>10. CASE BeginRound
    BY <1>10, TimeAssumption, SMTT(60) DEF TypeOK, BeginRound, Sockets
<1>11. ASSUME NEW s \in Sockets, ScrapeSocket(s)
       PROVE  TypeOK'
    BY <1>11 DEF TypeOK, ScrapeSocket, Sockets
<1>12. CASE UpdateTracker
    <2>1. IsMap(conn_state', Connection) /\ IsMap(endpoint_state', ContainerEndpoint)
        BY <1>12, UpdateType DEF UpdateTracker, TypeOK
    <2> QED
        BY <1>12, <2>1 DEF UpdateTracker, TypeOK, Sockets
<1>13. CASE ReadClockAndConfig
    BY <1>13, ExternalIPsConfigType DEF TypeOK, ReadClockAndConfig, Sockets
<1>14. CASE Report
    <2>1. IsMap(conn_state', Connection) /\ IsMap(endpoint_state', ContainerEndpoint)
        BY <1>14, ClearInactiveType DEF Report, Fetch, TypeOK
    <2>2. IsMap(old_conn_state', NormalizedConnection)
        BY <1>14, ReportType DEF Report
    <2>3. IsMap(old_cep_state', NormalizedEndpoint)
        BY <1>14, NewStatesType DEF Report
    <2>4. sensor_conns' \subseteq NormalizedConnection /\ rate_limited' \subseteq NormalizedConnection
        <3> DEFINE delta == DeltaConn(NewConnState, ClosedConns)
        <3>1. DOMAIN delta \subseteq NormalizedConnection
            BY ReportType
        <3>2. SendConnections(delta)
            BY <1>14 DEF Report
        <3> HIDE DEF delta
        <3> QED
            BY <3>1, <3>2 DEF SendConnections, Admitted, ApplyDelta, Opened, TypeOK
    <2>5. sensor_ceps' \subseteq NormalizedEndpoint
        <3> DEFINE delta == ComputeDelta(NewCepState, old_cep_state)
        <3>1. DOMAIN delta \subseteq NormalizedEndpoint
            BY NewStatesType DEF ComputeDelta, TypeOK, MapOn
        <3>2. SendEndpoints(delta)
            BY <1>14 DEF Report
        <3> HIDE DEF delta
        <3> QED
            BY <3>1, <3>2 DEF SendEndpoints, ApplyDelta, Opened, TypeOK
    <2> QED
        BY <1>14, <2>1, <2>2, <2>3, <2>4, <2>5, TimeAssumption, SMTT(60) DEF Report, Fetch, TypeOK, Sockets
<1>15. CASE SleepFails
    BY <1>15, TimeAssumption, SMTT(60)
    DEF TypeOK, SleepFails, LoseStream, FreshRun, EmptyMap, MapOn, Sockets
<1>16. CASE ScrapeFails
    BY <1>16, TimeAssumption, SMTT(60) DEF TypeOK, ScrapeFails, Sockets
<1>17. CASE WriteFails
    <2>1. IsMap(conn_state', Connection) /\ IsMap(endpoint_state', ContainerEndpoint)
        BY <1>17, ClearInactiveType DEF WriteFails, Fetch, TypeOK
    <2> QED
        BY <1>17, <2>1, TimeAssumption, SMTT(60)
        DEF TypeOK, WriteFails, Fetch, LoseStream, FreshRun, EmptyMap, MapOn, Sockets
<1>18. CASE UNCHANGED vars
    BY <1>18 DEF TypeOK, vars, Sockets
<1> QED
    BY <1>1, <1>2, <1>3, <1>4, <1>5, <1>6, <1>7, <1>8, <1>9, <1>10, <1>11, <1>12, <1>13,
       <1>14, <1>15, <1>16, <1>17, <1>18 DEF Next, Environment, Notifier, Faults

\* The initial states are typed.
LEMMA TypeInit == Init => TypeOK
BY TimeAssumption, SMTT(60) DEF Announced, Init, TypeOK, IsMap, MapOn, EmptyMap, Sockets

\* Every variable keeps its type, whatever the interleaving of kernel, event
\* thread, notifier thread and configuration.
THEOREM TypeCorrect == Spec => []TypeOK
BY TypeInit, TypeStep, PTL DEF Spec

-----------------------------------------------------------------------------
(***************************************************************************)
(* Sensor's view.                                                          *)
(***************************************************************************)

\* A configuration change closes nothing that the same round fetched.
LEMMA ClosedNotFetched ==
    ASSUME TypeOK
    PROVE  ClosedConns \in SUBSET (DOMAIN old_conn_state \ DOMAIN NewConnState)
<1>1. ClosedConns \subseteq DOMAIN old_conn_state
    BY DEF ClosedConns, ClosedByConfigChange
<1>2. ASSUME NEW k \in DOMAIN NewConnState
      PROVE  k \notin ClosedConns
    <2>1. PICK c \in Connection : k = NormalizeConnection(c, known, external_ips_config)
        BY <1>2 DEF NewConnState, FetchState, ConnNormalization
    <2>2. c.raddr \in Address /\ ~IsCanonicalExternalIp(c.raddr)
        BY ConnectionAssumption, CanonicalAssumption DEF RawConnection
    <2>3. ~ShouldClose(k, DirectionOf(k.is_server) \in external_ips_config, known)
        BY <2>1, <2>2, KnowledgeSound, FetchedIsNotClosed
    <2> QED
        BY <2>3 DEF ClosedConns, ClosedByConfigChange
<1> QED
    BY <1>1, <1>2

\* The delta of a report is exactly the difference between what was reported
\* open before it and what the new old state has as reported open.
LEMMA ReportDeltaExact ==
    ASSUME TypeOK, TimeOrder, Report
    PROVE  LET delta == DeltaConn(NewConnState, ClosedConns)
           IN  ReportedOpen' = ApplyDelta(ReportedOpen, delta, Opened(delta))
<1> DEFINE new == NewConnState
           closed == ClosedConns
           delta == DeltaConn(new, closed)
<1> SUFFICES ReportedOpen' = ApplyDelta(ReportedOpen, delta, Opened(delta))
    OBVIOUS
<1>1. MapOn(new, NormalizedConnection, 0 .. MaxClock)
      /\ MapOn(old_conn_state, NormalizedConnection, 0 .. MaxClock)
    BY NewStatesType DEF TypeOK, IsMap
<1>2. old_conn_state' = NextOldConnState(new, closed) /\ time_at_last_scrape' = time_micros
    BY DEF Report
<1>3. closed \in SUBSET (DOMAIN old_conn_state \ DOMAIN new)
    BY ClosedNotFetched
<1> HIDE DEF new, closed
<1>4. CASE EnableAfterglow
    <2>1. MapOn(new, NormalizedConnection, Int) /\ MapOn(old_conn_state, NormalizedConnection, Int)
        BY <1>1, SMTT(60) DEF MapOn, Status
    <2>2. /\ time_at_last_scrape \in Int /\ time_micros \in Int /\ AfterglowPeriod \in Int
          /\ time_at_last_scrape <= time_micros
        BY TimeAssumption, SMTT(60) DEF TypeOK, TimeOrder, Report, Fetch
    <2>3. RecentlyActive(NextOldConnState(new, closed), time_micros, AfterglowPeriod)
            = ApplyDelta(RecentlyActive(old_conn_state, time_at_last_scrape, AfterglowPeriod),
                         delta, Opened(delta))
        BY <1>3, <1>4, <2>1, <2>2, ComputeDeltaAfterglowExact, SMTT(60) DEF NextOldConnState, DeltaConn
    <2> HIDE DEF delta
    <2> QED
        BY <1>2, <1>4, <2>3 DEF ReportedOpen
<1>5. CASE ~EnableAfterglow
    <2>1. Opened(new) = ApplyDelta(Opened(old_conn_state), delta, Opened(delta))
        BY <1>1, <1>5, ComputeDeltaExact, SMTT(60) DEF DeltaConn
    <2>2. old_conn_state' = new
        BY <1>2, <1>5 DEF NextOldConnState
    <2> HIDE DEF delta
    <2> QED
        BY <1>5, <2>1, <2>2 DEF ReportedOpen
<1> QED
    BY <1>4, <1>5

\* The inductive invariant: a report needs the types and the order of its two
\* scrape times to keep Sensor's view and the old state together.
IInv == TypeOK /\ TimeOrder /\ NoZombieConnections /\ NoMissedConnections /\ EndpointViewExact

\* The invariant holds initially.
LEMMA IInvInit == Init => IInv
<1> SUFFICES ASSUME Init PROVE IInv
    OBVIOUS
<1>1. TypeOK
    BY TypeInit
<1>2. TimeOrder
    BY SMTT(60) DEF Init, TimeOrder
<1>3. NoZombieConnections /\ NoMissedConnections /\ EndpointViewExact
    BY DEF Init, NoZombieConnections, NoMissedConnections, EndpointViewExact, ReportedOpen,
           RecentlyActive, Opened, EmptyMap
<1> QED
    BY <1>1, <1>2, <1>3 DEF IInv

\* Every step keeps the scrape times in order.
LEMMA TimeOrderStep ==
    ASSUME TypeOK, TimeOrder, [Next]_vars
    PROVE  TimeOrder'
<1> USE DEF envVars, trackerVars, scrapeVars, runVars, sensorVars, notifierVars
<1>1. CASE Tick
    BY <1>1, SMTT(60) DEF TypeOK, TimeOrder, Tick
<1>2. CASE Environment \/ HandleSignal \/ UNCHANGED vars
    BY <1>2 DEF TimeOrder, Environment, Connect, Close, SendRecv, Listen, StopListening,
                SetRuntimeConfig, OnRecvControlMessage, HandleSignal, vars
<1>3. CASE Notifier
    <2>1. CASE StartStream
        BY <2>1, SMTT(60) DEF TypeOK, TimeOrder, StartStream
    <2>2. CASE BeginRound \/ (\E s \in Sockets : ScrapeSocket(s)) \/ UpdateTracker
        BY <2>2 DEF TimeOrder, BeginRound, ScrapeSocket, UpdateTracker
    <2>3. CASE ReadClockAndConfig
        BY <2>3, SMTT(60) DEF TypeOK, TimeOrder, ReadClockAndConfig
    <2>4. CASE Report
        BY <2>4 DEF TypeOK, TimeOrder, Report, Fetch
    <2> QED
        BY <1>3, <2>1, <2>2, <2>3, <2>4 DEF Notifier
<1>4. CASE Faults
    BY <1>4, SMTT(60) DEF TypeOK, TimeOrder, Faults, SleepFails, ScrapeFails, WriteFails, Fetch, LoseStream
<1> QED
    BY <1>1, <1>2, <1>3, <1>4 DEF Next

\* A report keeps Sensor's connections and the old state together: what the rate
\* limiter drops is remembered in rate_limited, and every close gets through.
LEMMA ReportKeepsConnView ==
    ASSUME IInv, Report
    PROVE  NoZombieConnections' /\ NoMissedConnections'
<1> DEFINE delta == DeltaConn(NewConnState, ClosedConns)
<1>1. ReportedOpen' = ApplyDelta(ReportedOpen, delta, Opened(delta))
    BY ReportDeltaExact DEF IInv
<1>2. PICK sent \in SUBSET Opened(delta) :
          /\ sensor_conns' = ApplyDelta(sensor_conns, delta, sent)
          /\ rate_limited' = (rate_limited \ DOMAIN delta) \cup (Opened(delta) \ sent)
    BY DEF Report, SendConnections, Admitted
<1>3. sensor_conns \subseteq ReportedOpen /\ ReportedOpen \subseteq sensor_conns \cup rate_limited
    BY DEF IInv, NoZombieConnections, NoMissedConnections
<1>4. Opened(delta) \subseteq DOMAIN delta
    BY DEF Opened
<1> HIDE DEF delta
<1>5. sensor_conns' \subseteq ReportedOpen'
    BY <1>1, <1>2, <1>3 DEF ApplyDelta
<1>6. ReportedOpen' \subseteq sensor_conns' \cup rate_limited'
    BY <1>1, <1>2, <1>3, <1>4 DEF ApplyDelta
<1> QED
    BY <1>5, <1>6 DEF NoZombieConnections, NoMissedConnections

\* A report sends the difference between Sensor's endpoints and the fetched ones.
LEMMA ReportKeepsEndpointView ==
    ASSUME IInv, Report
    PROVE  EndpointViewExact'
<1> DEFINE new == NewCepState
           delta == ComputeDelta(new, old_cep_state)
<1>1. MapOn(new, NormalizedEndpoint, 0 .. MaxClock)
      /\ MapOn(old_cep_state, NormalizedEndpoint, 0 .. MaxClock)
    BY NewStatesType DEF IInv, TypeOK, IsMap
<1>2. sensor_ceps' = ApplyDelta(sensor_ceps, delta, Opened(delta)) /\ old_cep_state' = new
    BY DEF Report, SendEndpoints
<1>3. sensor_ceps = Opened(old_cep_state)
    BY DEF IInv, EndpointViewExact
<1> HIDE DEF new
<1>4. Opened(new) = ApplyDelta(Opened(old_cep_state), delta, Opened(delta))
    BY <1>1, ComputeDeltaExact, SMTT(60)
<1> HIDE DEF delta
<1> QED
    BY <1>2, <1>3, <1>4 DEF EndpointViewExact

\* A new stream starts from nothing, on both sides.
LEMMA FreshRunKeepsView ==
    ASSUME FreshRun
    PROVE  NoZombieConnections' /\ NoMissedConnections' /\ EndpointViewExact'
BY DEF FreshRun, NoZombieConnections, NoMissedConnections, EndpointViewExact, ReportedOpen,
       RecentlyActive, Opened, EmptyMap

\* Every step keeps the invariant.
LEMMA IInvStep ==
    ASSUME IInv, [Next]_vars
    PROVE  IInv'
<1> DEFINE View == <<old_conn_state, old_cep_state, time_at_last_scrape,
                     sensor_conns, sensor_ceps, rate_limited>>
           Views == NoZombieConnections /\ NoMissedConnections /\ EndpointViewExact
<1>1. TypeOK' /\ TimeOrder'
    BY TypeStep, TimeOrderStep DEF IInv
<1> SUFFICES Views'
    BY <1>1 DEF IInv
<1>2. ASSUME UNCHANGED View
      PROVE  Views'
    BY <1>2 DEF IInv, NoZombieConnections, NoMissedConnections, EndpointViewExact, ReportedOpen
<1>3. CASE Tick \/ Environment \/ HandleSignal \/ UNCHANGED vars
    <2> UNCHANGED View
        BY <1>3 DEF Tick, Environment, Connect, Close, SendRecv, Listen, StopListening,
                    SetRuntimeConfig, OnRecvControlMessage, HandleSignal, vars,
                    envVars, trackerVars, scrapeVars, runVars, sensorVars, notifierVars
    <2> QED
        BY <1>2
<1>4. CASE BeginRound \/ (\E s \in Sockets : ScrapeSocket(s)) \/ UpdateTracker
             \/ ReadClockAndConfig \/ ScrapeFails
    <2> UNCHANGED View
        BY <1>4 DEF BeginRound, ScrapeSocket, UpdateTracker, ReadClockAndConfig, ScrapeFails,
                    scrapeVars, runVars, sensorVars, notifierVars
    <2> QED
        BY <1>2
<1>5. CASE Report
    BY <1>5, ReportKeepsConnView, ReportKeepsEndpointView
<1>6. CASE StartStream \/ SleepFails \/ WriteFails
    <2> FreshRun
        BY <1>6 DEF StartStream, SleepFails, WriteFails, LoseStream
    <2> QED
        BY FreshRunKeepsView
<1> QED
    BY <1>3, <1>4, <1>5, <1>6 DEF Next, Notifier, Faults

\* AddConnections, the afterglow deltas and UpdateOldState never part ways: at
\* every moment Sensor holds open only what a later delta can close.
THEOREM SensorHoldsNoZombies == Spec => []NoZombieConnections
<1>1. IInv => NoZombieConnections
    BY DEF IInv
<1> QED
    BY <1>1, IInvInit, IInvStep, PTL DEF Spec

\* Nor does Sensor miss anything that the notifier considers reported, but what
\* the rate limiter dropped.
THEOREM SensorMissesNothing == Spec => []NoMissedConnections
<1>1. IInv => NoMissedConnections
    BY DEF IInv
<1> QED
    BY <1>1, IInvInit, IInvStep, PTL DEF Spec

\* Together: Sensor's open connections and those that the notifier considers
\* reported are the same, but for what the rate limiter dropped.
THEOREM SensorStaysInStep == Spec => []SensorInStep
BY SensorHoldsNoZombies, SensorMissesNothing, PTL DEF SensorInStep

\* The plain deltas of ComputeDelta keep Sensor's endpoints equal to the active
\* endpoints last fetched.
THEOREM EndpointView == Spec => []EndpointViewExact
<1>1. IInv => EndpointViewExact
    BY DEF IInv
<1> QED
    BY <1>1, IInvInit, IInvStep, PTL DEF Spec

-----------------------------------------------------------------------------
(***************************************************************************)
(* The external IPs configuration.                                         *)
(***************************************************************************)

\* The inductive invariant: the entries of the old state, which Sensor's are among,
\* have the form of the configuration in force between reports, and that of the
\* previous configuration, which the next change is compared with, during one.
FormInv ==
    LET entries == DOMAIN old_conn_state IN
    /\ pc \in {"sleep", "scrape", "now"} => \A k \in entries : Consistent(k, external_ips_config)
    /\ EnableAfterglow /\ pc \in {"sleep", "scrape", "now"} => entries = {} \/ prev_ext = external_ips_config
    /\ EnableAfterglow /\ pc = "report" => \A k \in entries : Consistent(k, prev_ext)

\* A report leaves only entries in the form of the configuration: those it fetched,
\* and the older ones that no change of the configuration closed.
LEMMA ReportKeepsForm ==
    ASSUME TypeOK, FormInv, Report
    PROVE  FormInv'
<1> DEFINE new == NewConnState
           closed == ClosedConns
<1>1. /\ pc = "report" /\ pc' = "sleep" /\ external_ips_config' = external_ips_config
      /\ prev_ext' = IF EnableAfterglow THEN external_ips_config ELSE prev_ext
      /\ old_conn_state' = NextOldConnState(new, closed)
    BY DEF Report, Fetch
<1>2. known \in Announced
    BY DEF TypeOK
<1>3. ASSUME NEW k \in DOMAIN new
      PROVE  Consistent(k, external_ips_config)
    <2>1. PICK c \in Connection : k = NormalizeConnection(c, known, external_ips_config)
        BY <1>3 DEF NewConnState, FetchState, ConnNormalization
    <2>2. c.raddr \in Address /\ ~IsCanonicalExternalIp(c.raddr)
        BY ConnectionAssumption, CanonicalAssumption DEF RawConnection
    <2>3. ~ShouldClose(k, DirectionOf(k.is_server) \in external_ips_config, known)
        BY <2>1, <2>2, KnowledgeSound, FetchedIsNotClosed
    <2> QED
        BY <1>2, <2>3 DEF Consistent
<1>4. ASSUME EnableAfterglow, NEW k \in DOMAIN old_conn_state \ closed
      PROVE  Consistent(k, external_ips_config)
    <2> DEFINE d == DirectionOf(k.is_server)
    <2>1. CASE (d \in external_ips_config) # (d \in prev_ext)
        <3>1. ~ShouldClose(k, d \in external_ips_config, known)
            BY <1>4, <2>1 DEF ClosedConns, ClosedByConfigChange
        <3> QED
            BY <1>2, <3>1 DEF Consistent
    <2>2. CASE (d \in external_ips_config) = (d \in prev_ext)
        <3>1. PICK announced \in Announced : ~ShouldClose(k, d \in prev_ext, announced)
            BY <1>1, <1>4 DEF FormInv, Consistent
        <3>2. ~ShouldClose(k, d \in external_ips_config, announced)
            BY <2>2, <3>1
        <3> QED
            BY <3>2 DEF Consistent
    <2> QED
        BY <2>1, <2>2
<1> HIDE DEF new, closed
<1>5. DOMAIN old_conn_state' \subseteq
        DOMAIN new \cup (IF EnableAfterglow THEN DOMAIN old_conn_state \ closed ELSE {})
    BY <1>1 DEF NextOldConnState, UpdateOldState, Restrict
<1>6. \A k \in DOMAIN old_conn_state' : Consistent(k, external_ips_config)
    BY <1>3, <1>4, <1>5
<1>7. \A k : Consistent(k, external_ips_config)' <=> Consistent(k, external_ips_config)
    BY <1>1 DEF Consistent
<1> QED
    BY <1>1, <1>6, <1>7 DEF FormInv

\* Every step keeps the forms: messages of Sensor's and new configurations change
\* nothing that the old state or the comparison depends on until the next report.
LEMMA FormStep ==
    ASSUME TypeOK, FormInv, [Next]_vars
    PROVE  FormInv'
<1> USE DEF envVars, trackerVars, scrapeVars, runVars, sensorVars, notifierVars
<1>1. ASSUME UNCHANGED <<old_conn_state, prev_ext, external_ips_config>>,
             \/ UNCHANGED pc
             \/ pc \in {"sleep", "scrape", "now"} /\ pc' \in {"sleep", "scrape", "now"}
      PROVE  FormInv'
    BY <1>1 DEF FormInv, Consistent
<1>2. CASE Tick \/ Environment \/ HandleSignal \/ UNCHANGED vars
    <2> UNCHANGED <<old_conn_state, prev_ext, external_ips_config, pc>>
        BY <1>2 DEF Tick, Environment, Connect, Close, SendRecv, Listen, StopListening,
                    SetRuntimeConfig, OnRecvControlMessage, HandleSignal, vars
    <2> QED
        BY <1>1
<1>3. CASE BeginRound \/ (\E s \in Sockets : ScrapeSocket(s)) \/ UpdateTracker \/ ScrapeFails
    <2>1. /\ UNCHANGED <<old_conn_state, prev_ext, external_ips_config>>
          /\ pc \in {"sleep", "scrape", "now"} /\ pc' \in {"sleep", "scrape", "now"}
        BY <1>3 DEF BeginRound, ScrapeSocket, UpdateTracker, ScrapeFails
    <2> QED
        BY <1>1, <2>1
<1>4. CASE ReadClockAndConfig
    <2>1. pc = "now" /\ pc' = "report" /\ UNCHANGED <<old_conn_state, prev_ext>>
        BY <1>4 DEF ReadClockAndConfig
    <2>2. EnableAfterglow => \A k \in DOMAIN old_conn_state : Consistent(k, prev_ext)
        BY <2>1 DEF FormInv
    <2>3. \A k : Consistent(k, prev_ext)' <=> Consistent(k, prev_ext)
        BY <2>1 DEF Consistent
    <2> QED
        BY <2>1, <2>2, <2>3 DEF FormInv
<1>5. CASE Report
    BY <1>5, ReportKeepsForm
<1>6. CASE StartStream \/ SleepFails \/ WriteFails
    <2> DOMAIN old_conn_state' = {} /\ pc' \in {"connect", "sleep"}
        BY <1>6 DEF StartStream, SleepFails, WriteFails, LoseStream, FreshRun, EmptyMap
    <2> QED
        BY DEF FormInv
<1> QED
    BY <1>2, <1>3, <1>4, <1>5, <1>6 DEF Next, Notifier, Faults

\* Whatever configurations are loaded and whatever Sensor announces meanwhile, no
\* connection stays open in Sensor in the form that the configuration in force
\* replaced (CloseConnectionsOnExternalIPsConfigChange, UpdateOldState).
THEOREM ExternalIPsView == Spec => []ExternalIPsViewConsistent
<1>1. Init => FormInv
    BY DEF Init, FormInv
<1>2. NoZombieConnections /\ FormInv => ExternalIPsViewConsistent
    <2>1. ReportedOpen \subseteq DOMAIN old_conn_state
        BY DEF ReportedOpen, RecentlyActive, Opened
    <2> QED
        BY <2>1 DEF NoZombieConnections, FormInv, ExternalIPsViewConsistent
<1> QED
    BY <1>1, <1>2, FormStep, TypeCorrect, SensorHoldsNoZombies, PTL DEF Spec

-----------------------------------------------------------------------------
(***************************************************************************)
(* What a scrape saw.                                                      *)
(***************************************************************************)

\* The inductive invariant: from the update of the tracker to the report, every
\* scraped connection is tracked with a time that is not before the scrape's.
ScrapedInv ==
    /\ pc \in {"connect", "sleep"} => scraped = {}
    /\ pc \in {"now", "report"} =>
          \A c \in scraped \cap Connection : c \in DOMAIN conn_state /\ ts <= conn_state[c].last

\* Times are integers.
LEMMA IntTimes ==
    ASSUME TypeOK
    PROVE  /\ MapOn(conn_state, Connection, Int) /\ ts \in Int /\ time_micros \in Int
           /\ AfterglowPeriod \in Int
<1>1. \A s \in Status(0 .. MaxClock) : s \in Status(Int)
    BY SMTT(60) DEF Status
<1>2. MapOn(conn_state, Connection, Int)
    BY <1>1 DEF TypeOK, IsMap, MapOn
<1> QED
    BY <1>2, TimeAssumption, SMTT(60) DEF TypeOK

\* Every step keeps what the tracker knows of scraped connections: the update of
\* the tracker establishes it, and a late event only makes times newer.
LEMMA ScrapedStep ==
    ASSUME TypeOK, ScrapedInv, [Next]_vars
    PROVE  ScrapedInv'
<1> USE DEF envVars, trackerVars, scrapeVars, runVars, sensorVars, notifierVars
<1>1. ASSUME UNCHANGED <<conn_state, scraped, ts, pc>>
      PROVE  ScrapedInv'
    BY <1>1 DEF ScrapedInv
<1>2. CASE Tick \/ Environment \/ UNCHANGED vars
    <2> UNCHANGED <<conn_state, scraped, ts, pc>>
        BY <1>2 DEF Tick, Environment, Connect, Close, SendRecv, Listen, StopListening,
                    SetRuntimeConfig, OnRecvControlMessage, vars
    <2> QED
        BY <1>1
<1>3. CASE HandleSignal
    <2> DEFINE e == Head(events)
               s == ConnStatus(e.ts, e.added)
    <2>1. e \in Event
        BY <1>3, SMTT(60) DEF HandleSignal, TypeOK
    <2>2. e.conn \in Connection /\ s \in Status(Int)
        BY <2>1, SMTT(60) DEF Event, ConnStatus, Status
    <2>3. UNCHANGED <<scraped, ts, pc>> /\ conn_state' = EmplaceOrUpdate(conn_state, e.conn, s)
        BY <1>3 DEF HandleSignal
    <2> HIDE DEF e, s
    <2>4. ASSUME NEW c \in scraped \cap Connection, c \in DOMAIN conn_state, ts <= conn_state[c].last
          PROVE  c \in DOMAIN conn_state' /\ ts <= conn_state'[c].last
        <3>1. c \in DOMAIN conn_state' /\ conn_state[c].last <= conn_state'[c].last
            BY <2>2, <2>3, <2>4, IntTimes, EmplaceOrUpdateTimes
        <3>2. MapOn(conn_state', Connection, Int)
            BY <2>2, <2>3, IntTimes, EmplaceOrUpdateType
        <3>3. conn_state[c].last \in Int /\ conn_state'[c].last \in Int /\ ts \in Int
            BY <2>4, <3>1, <3>2, IntTimes DEF MapOn, Status
        <3> QED
            BY <2>4, <3>1, <3>3, SMTT(60)
    <2> QED
        BY <2>3, <2>4 DEF ScrapedInv
<1>4. CASE BeginRound \/ (\E s \in Sockets : ScrapeSocket(s)) \/ ScrapeFails \/ StartStream \/ SleepFails
    BY <1>4 DEF ScrapedInv, BeginRound, ScrapeSocket, ScrapeFails, StartStream, SleepFails, LoseStream
<1>5. CASE UpdateTracker
    <2>1. /\ pc' = "now" /\ UNCHANGED <<scraped, ts>>
          /\ conn_state' = Update(conn_state, scraped \cap Connection, ts)
        BY <1>5 DEF UpdateTracker
    <2>2. \A c \in scraped \cap Connection : c \in DOMAIN conn_state' /\ ts <= conn_state'[c].last
        BY <2>1, IntTimes, UpdateTimes
    <2> QED
        BY <2>1, <2>2 DEF ScrapedInv
<1>6. CASE ReadClockAndConfig
    BY <1>6 DEF ScrapedInv, ReadClockAndConfig
<1>7. CASE Report \/ WriteFails
    BY <1>7 DEF ScrapedInv, Report, WriteFails, Fetch, LoseStream
<1> QED
    BY <1>2, <1>3, <1>4, <1>5, <1>6, <1>7 DEF Next, Notifier, Faults

\* In a round that is shorter than the afterglow period, a report counts every
\* scraped connection as recently active.
LEMMA ScrapedIsReported ==
    ASSUME TypeOK, ScrapedInv, Report, EnableAfterglow, time_micros - ts < AfterglowPeriod,
           NEW c \in scraped \cap DOMAIN ConnNormalization
    PROVE  ConnNormalization[c] \in ReportedOpen'
<1> DEFINE k == ConnNormalization[c]
           new == NewConnState
<1>1. c \in Connection /\ c \in DOMAIN conn_state /\ ts <= conn_state[c].last
    BY DEF ConnNormalization, Report, Fetch, ScrapedInv
<1>2. MapOn(conn_state, Connection, 0 .. MaxClock) /\ MaxClock \in Nat
    BY TimeAssumption DEF TypeOK, IsMap
<1>3. k \in DOMAIN new /\ DataLeq(conn_state[c], new[k])
    BY <1>1, <1>2, FetchStateKeeps DEF NewConnState
<1>4. IsMap(new, NormalizedConnection)
    BY NewStatesType
<1>5. /\ old_conn_state' = NextOldConnState(new, ClosedConns)
      /\ time_at_last_scrape' = time_micros
    BY DEF Report
<1> HIDE DEF k, new
<1>6. new[k].last \in Int /\ conn_state[c].last \in Int /\ new[k].active \in BOOLEAN
    BY <1>1, <1>2, <1>3, <1>4, SMTT(60) DEF IsMap, MapOn, Status
<1>7. new[k].active \/ ts <= new[k].last
    BY <1>1, <1>3, <1>6, IntTimes, SMTT(60) DEF DataLeq
<1>8. WasRecentlyActive(new[k], time_micros, AfterglowPeriod)
    BY <1>6, <1>7, IntTimes, SMTT(60) DEF WasRecentlyActive, IsInAfterglowPeriod
<1>9. k \in DOMAIN old_conn_state' /\ old_conn_state'[k] = new[k]
    BY <1>3, <1>5 DEF NextOldConnState, UpdateOldState
<1> QED
    BY <1>5, <1>8, <1>9 DEF ReportedOpen, RecentlyActive, k

\* A report never closes, nor fails to open, what the scrape of its round saw,
\* whichever events the event thread handled since the scrape began.
THEOREM ScrapedStaysOpen == Spec => ScrapedConnectionsStayOpen
<1> DEFINE Inv == IInv /\ ScrapedInv
           A == (/\ EnableAfterglow /\ pc = "report" /\ pc' = "sleep"
                 /\ time_micros - ts < AfterglowPeriod)
                => {ConnNormalization[c] : c \in scraped \cap DOMAIN ConnNormalization}
                      \subseteq sensor_conns' \cup rate_limited'
<1>1. Init => Inv
    BY IInvInit DEF Init, ScrapedInv
<1>2. Inv /\ [Next]_vars => Inv'
    BY IInvStep, ScrapedStep DEF IInv
<1>3. Inv /\ [Next]_vars => [A]_vars
    <2> SUFFICES ASSUME Inv, Next, EnableAfterglow, pc = "report", pc' = "sleep",
                        time_micros - ts < AfterglowPeriod,
                        NEW c \in scraped \cap DOMAIN ConnNormalization
                 PROVE  ConnNormalization[c] \in sensor_conns' \cup rate_limited'
        BY DEF vars
    <2>1. Report
        BY DEF Next, Environment, Notifier, Faults, Tick, Connect, Close, SendRecv, Listen,
            StopListening, SetRuntimeConfig, OnRecvControlMessage, HandleSignal, StartStream, BeginRound,
            ScrapeSocket, UpdateTracker, ReadClockAndConfig, SleepFails, ScrapeFails, WriteFails, LoseStream,
            notifierVars
    <2>2. ConnNormalization[c] \in ReportedOpen'
        BY <2>1, ScrapedIsReported DEF IInv
    <2>3. NoMissedConnections'
        BY <2>1, ReportKeepsConnView
    <2> QED
        BY <2>2, <2>3 DEF NoMissedConnections
<1> QED
    BY <1>1, <1>2, <1>3, PTL DEF Spec, ScrapedConnectionsStayOpen

=============================================================================
