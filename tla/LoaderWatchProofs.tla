------------------------- MODULE LoaderWatchProofs --------------------------
(***************************************************************************)
(* Proofs about ConfigLoader, for every set of settings and any number of  *)
(* changes of the file: every watch in the kernel has its watcher          *)
(* (WatchesAreConsistent). The lemmas say what each call to inotify and    *)
(* each change of the file does to the queue, the watches and watchers_.   *)
(***************************************************************************)
EXTENDS ConfigLoader, TLAPS

\* Zenon is the default prover here; a leaf that needs arithmetic, records or
\* function updates names SMT instead.
USE ZenonT(60)

-----------------------------------------------------------------------------
(***************************************************************************)
(* The invariant of watches and watchers, which holds in every setting.    *)
(***************************************************************************)

TagNames == {"PARENT_PATH", "CONFIG_FILE", "CONFIG_REALPATH"}
Masks == {"CREATE", "DELETE", "MODIFY", "MOVE_SELF", "DELETE_SELF", "Q_OVERFLOW"}
Names == {"config", "version", NoName}
Events == [wd : Int, mask : Masks, name : Names]

WatcherRecord == [wd : Int, path : Int, tag : TagNames]

\* The watchers of a sequence, one for a path and one for a descriptor.
Elements(q) == {q[k] : k \in DOMAIN q}

OneEach(q) ==
    /\ q \in Seq(WatcherRecord)
    /\ \A k, l \in DOMAIN q : k # l => q[k].path # q[l].path /\ q[k].wd # q[l].wd

Entries == Elements(watchers)

Records ==
    /\ setting \in Settings
    /\ DOMAIN fs = {"entry", "self", "target", "volume", "content", "next", "ops"}
    /\ DOMAIN kubelet = {"pc", "old"}
    /\ DOMAIN loader = {"pc", "todo", "w", "real", "should_stop"}

\* An inode is used once: for the path of the file, or in the volume.
Inodes ==
    /\ fs.entry \in {"none", "file", "link"} /\ fs.next \in Nat \ {0}
    /\ fs.self \in {NoInode} \cup 1 .. (fs.next - 1) /\ fs.target \in {NoInode} \cup 1 .. (fs.next - 1)
    /\ fs.volume \subseteq 1 .. (fs.next - 1)
    /\ fs.self \notin fs.volume /\ (fs.self # NoInode => fs.self # fs.target)
    /\ loader.real \in {ConfigPath} \cup 1 .. (fs.next - 1) /\ loader.real # fs.self

\* An inode has at most one watch, and a queue that was full has dropped events.
Kernel(n) ==
    /\ DOMAIN n = {"watch", "next", "queue", "dropped"}
    /\ n.next \in Nat \ {0} /\ DOMAIN n.watch \subseteq 1 .. (n.next - 1)
    /\ \A v, wd \in DOMAIN n.watch : n.watch[v] = n.watch[wd] => v = wd
    /\ n.queue \in Seq(Events)
    /\ Len(n.queue) <= setting.queue_limit + 1
    /\ Len(n.queue) > setting.queue_limit => n.dropped

Watching == Kernel(ino) /\ \A wd \in DOMAIN ino.watch : ino.watch[wd] \in 0 .. (fs.next - 1)

\* watchers_ has one entry for a path and one for a descriptor.
Entered == OneEach(watchers)

\* The watch of an entry is that of an inode that was found at its path, and is
\* there for as long as the inode is in the volume.
Matching ==
    /\ \A w \in Entries :
          /\ w.wd \in 1 .. (ino.next - 1)
          /\ w.path \in {DirPath, ConfigPath} \cup 1 .. (fs.next - 1) /\ w.path # fs.self
          /\ w.path \in fs.volume => w.wd \in DOMAIN ino.watch
          /\ w.wd \in DOMAIN ino.watch =>
                IF w.path = ConfigPath THEN ino.watch[w.wd] # Dir /\ ino.watch[w.wd] \notin fs.volume
                ELSE ino.watch[w.wd] = w.path
    /\ \A wd \in DOMAIN ino.watch : \E w \in Entries : w.wd = wd

Places ==
    /\ runtime_config \in Content \cup {NoConfig}
    /\ loader.pc \in {"start", "loop", "handle", "ended", "crashed"}

WatchInv == Records /\ Inodes /\ Watching /\ Entered /\ Matching /\ Places

-----------------------------------------------------------------------------
(***************************************************************************)
(* The queue.                                                              *)
(***************************************************************************)

\* Event e is in queue q.
Has(q, e) == \E j \in 1..Len(q) : q[j] = e

\* Events of the directory, whose descriptor is the first.
Created == Event(1, "CREATE", "config")
Deleted == Event(1, "DELETE", "config")
Versioned == Event(1, "CREATE", "version")

\* The file was created after it was last deleted.
CreatedLast(q) == \A j \in 1..Len(q) : q[j] = Deleted => \E l \in 1..Len(q) : l > j /\ q[l] = Created

\* What one more event does to a queue.
Queued(q, r, e) ==
    /\ r \in Seq(Events)
    /\ \A x \in Events : Has(r, x) <=> (Has(q, x) \/ x = e)
    /\ CreatedLast(q) /\ e # Deleted => CreatedLast(r)
    /\ e = Created => CreatedLast(r)

\* The events of the directory differ, and an event has the fields it was made of.
LEMMA EventsAre ==
    /\ Created \in Events /\ Deleted \in Events /\ Versioned \in Events
    /\ Created # Deleted /\ Versioned # Deleted /\ Versioned # Created
    /\ Created.wd = 1 /\ Deleted.wd = 1 /\ Versioned.wd = 1
    /\ \A wd \in Int, mask \in Masks, name \in Names :
          /\ Event(wd, mask, name) \in Events
          /\ Event(wd, mask, name).wd = wd /\ Event(wd, mask, name).mask = mask /\ Event(wd, mask, name).name = name
BY SMTT(60) DEF Created, Deleted, Versioned, Event, Events, Masks, Names, NoName

\* The first event is taken from the queue.
LEMMA TailQueue ==
    ASSUME NEW q \in Seq(Events), q # << >>
    PROVE  /\ Tail(q) \in Seq(Events) /\ Head(q) \in Events /\ Len(Tail(q)) = Len(q) - 1
           /\ \A x \in Events : Has(q, x) <=> (Has(Tail(q), x) \/ x = Head(q))
           /\ CreatedLast(q) => CreatedLast(Tail(q)) /\ (Head(q) = Deleted => Has(Tail(q), Created))
<1> DEFINE r == Tail(q)
<1>1. r \in Seq(Events) /\ Len(r) = Len(q) - 1 /\ Len(q) \in Nat \ {0} /\ Head(q) = q[1] /\ Head(q) \in Events
  BY SMTT(60)
<1>2. \A j \in 1..Len(r) : r[j] = q[j + 1] /\ j + 1 \in 1..Len(q)
  BY <1>1, SMTT(60)
<1>3. \A j \in 1..Len(q) : j # 1 => j - 1 \in 1..Len(r) /\ q[j] = r[j - 1]
  BY <1>1, <1>2, SMTT(60)
<1> HIDE DEF r
<1>4. \A x \in Events : Has(q, x) <=> (Has(r, x) \/ x = Head(q))
  <2>1. ASSUME NEW x \in Events, Has(q, x) PROVE Has(r, x) \/ x = Head(q)
    <3>1. PICK j \in 1..Len(q) : q[j] = x
      BY <2>1 DEF Has
    <3>2. CASE j = 1
      BY <3>1, <3>2, <1>1
    <3>3. CASE j # 1
      <4>1. j - 1 \in 1..Len(r) /\ r[j - 1] = x
        BY <3>1, <3>3, <1>3
      <4> QED
        BY <4>1 DEF Has
    <3> QED
      BY <3>2, <3>3
  <2>2. ASSUME NEW x \in Events, Has(r, x) PROVE Has(q, x)
    BY <2>2, <1>2 DEF Has
  <2>3. Has(q, Head(q))
    <3>1. 1 \in 1..Len(q)
      BY <1>1, SMTT(60)
    <3> QED
      BY <1>1, <3>1 DEF Has
  <2> QED
    BY <2>1, <2>2, <2>3
<1>5. ASSUME CreatedLast(q), NEW j \in 1..Len(q), q[j] = Deleted
      PROVE  \E l \in 1..Len(r) : l > j - 1 /\ r[l] = Created
  <2>1. PICK l \in 1..Len(q) : l > j /\ q[l] = Created
    BY <1>5 DEF CreatedLast
  <2>2. l # 1 /\ l - 1 > j - 1
    BY <2>1, <1>1, SMTT(60)
  <2>3. l - 1 \in 1..Len(r) /\ r[l - 1] = Created
    BY <2>1, <2>2, <1>3
  <2> QED
    BY <2>2, <2>3
<1>6. ASSUME CreatedLast(q)
      PROVE  CreatedLast(r)
  <2>1. ASSUME NEW j \in 1..Len(r), r[j] = Deleted
        PROVE  \E l \in 1..Len(r) : l > j /\ r[l] = Created
    <3>1. j + 1 \in 1..Len(q) /\ q[j + 1] = Deleted /\ (j + 1) - 1 = j
      BY <2>1, <1>2, <1>1, SMTT(60)
    <3> QED
      BY <3>1, <1>5, <1>6
  <2> QED
    BY <2>1 DEF CreatedLast
<1>7. ASSUME CreatedLast(q), Head(q) = Deleted
      PROVE  Has(r, Created)
  <2>1. 1 \in 1..Len(q) /\ q[1] = Deleted
    BY <1>1, <1>7, SMTT(60)
  <2> QED
    BY <2>1, <1>5, <1>7 DEF Has
<1> QED
  BY <1>1, <1>4, <1>6, <1>7 DEF r

-----------------------------------------------------------------------------
(***************************************************************************)
(* The kernel.                                                             *)
(***************************************************************************)

\* What every setting has.
LEMMA Limits ==
    ASSUME setting \in Settings
    PROVE  setting.queue_limit \in Nat \ {0} /\ setting.deployment \in {"file", "configmap"}
BY LoaderAssumption DEF LoaderAssumption, AllSettings

\* The thread starts with no watch and no watcher (Inotify.h:229).
LEMMA WatchInvInit ==
    ASSUME LoaderInit
    PROVE  WatchInv
<1>1. setting \in Settings /\ setting.queue_limit \in Nat \ {0}
  BY Limits DEF LoaderInit
<1>2. /\ DOMAIN fs = {"entry", "self", "target", "volume", "content", "next", "ops"}
      /\ \/ fs.entry = "none" /\ fs.self = NoInode /\ fs.target = NoInode /\ fs.volume = {} /\ fs.next = 1
         \/ fs.entry = "file" /\ fs.self = 1 /\ fs.target = NoInode /\ fs.volume = {} /\ fs.next = 2
         \/ fs.entry = "link" /\ fs.self = 2 /\ fs.target = 1 /\ fs.volume = {1} /\ fs.next = 3
  BY SMTT(60) DEF LoaderInit
<1>3. DOMAIN loader = {"pc", "todo", "w", "real", "should_stop"} /\ loader.pc = "start" /\ loader.real = ConfigPath
  BY DEF LoaderInit
<1>4. DOMAIN kubelet = {"pc", "old"} /\ watchers = << >> /\ runtime_config \in Content \cup {NoConfig}
  BY DEF LoaderInit
<1>5. DOMAIN ino = {"watch", "next", "queue", "dropped"} /\ ino.watch = << >> /\ ino.next = 1 /\ ino.queue = << >>
  BY DEF LoaderInit
<1>6. Inodes
  BY <1>2, <1>3, SMTT(60) DEF Inodes, NoInode, ConfigPath
<1>7. Watching
  BY <1>1, <1>5, SMTT(60) DEF Watching, Kernel
<1>8. Entered /\ Matching
  BY <1>4, <1>5, SMTT(60) DEF Entered, Matching, OneEach, Entries, Elements
<1> QED
  BY <1>1, <1>2, <1>3, <1>4, <1>6, <1>7, <1>8 DEF WatchInv, Records, Places

\* Nothing else is in WatchInv.
LEMMA WatchInvStays ==
    ASSUME WatchInv, UNCHANGED loaderVars
    PROVE  WatchInv'
BY SMTT(60) DEF loaderVars, WatchInv, Records, Inodes, Watching, Kernel, Entered, Matching, Entries, Places

\* What an event on inode i does.
Raised(n, m, i, mask, name) ==
    /\ Kernel(m) /\ m.watch = n.watch /\ m.next = n.next /\ (~m.dropped => ~n.dropped)
    /\ (\A wd \in DOMAIN n.watch : n.watch[wd] # i) => m = n
    /\ \A wd \in DOMAIN n.watch :
          n.watch[wd] = i /\ ~m.dropped => Queued(n.queue, m.queue, Event(wd, mask, name))

\* What it does to put an event into the queue, full or not.
LEMMA EnqueueRaises ==
    ASSUME setting \in Settings, NEW n, Kernel(n), NEW e \in Events
    PROVE  LET m == Enqueue(n, e)
           IN  /\ Kernel(m) /\ m.watch = n.watch /\ m.next = n.next /\ (~m.dropped => ~n.dropped)
               /\ ~m.dropped => Queued(n.queue, m.queue, e)
\* The event is at the end of the queue already.
<1>MergedQueue.
    ASSUME NEW q \in Seq(Events), q # << >>
    PROVE  Queued(q, q, q[Len(q)])
  <2> USE <1>MergedQueue
  <2>1. Len(q) \in 1..Len(q) /\ q[Len(q)] \in Events
    BY SMTT(60)
  <2>2. \A x \in Events : Has(q, x) <=> (Has(q, x) \/ x = q[Len(q)])
    BY <2>1 DEF Has
  <2>3. ASSUME q[Len(q)] = Created
        PROVE  CreatedLast(q)
    BY <2>1, <2>3, EventsAre, SMTT(60) DEF CreatedLast
  <2> QED
    BY <2>2, <2>3 DEF Queued
\* The event is appended to the queue.
<1>AppendedQueue.
    ASSUME NEW q \in Seq(Events), NEW f \in Events
    PROVE  Queued(q, Append(q, f), f) /\ Len(Append(q, f)) = Len(q) + 1
  <2> USE <1>AppendedQueue
  <2> DEFINE r == Append(q, f)
  <2>1. r \in Seq(Events) /\ Len(r) = Len(q) + 1 /\ Len(q) \in Nat
    BY SMTT(60)
  <2>2. (\A j \in 1..Len(q) : r[j] = q[j]) /\ r[Len(q) + 1] = f
    BY SMTT(60)
  <2> HIDE DEF r
  <2>3. \A x \in Events : Has(r, x) <=> (Has(q, x) \/ x = f)
    <3>1. ASSUME NEW x \in Events, Has(r, x) PROVE Has(q, x) \/ x = f
      BY <2>1, <2>2, <3>1, SMTT(60) DEF Has
    <3>2. ASSUME NEW x \in Events, Has(q, x) PROVE Has(r, x)
      <4>1. PICK j \in 1..Len(q) : q[j] = x
        BY <3>2 DEF Has
      <4>2. j \in 1..Len(r) /\ r[j] = x
        BY <2>1, <2>2, <4>1, SMTT(60)
      <4> QED
        BY <4>2 DEF Has
    <3>3. Has(r, f)
      <4>1. Len(q) + 1 \in 1..Len(r)
        BY <2>1, SMTT(60)
      <4> QED
        BY <2>2, <4>1 DEF Has
    <3> QED
      BY <3>1, <3>2, <3>3
  <2>4. ASSUME CreatedLast(q), f # Deleted
        PROVE  CreatedLast(r)
    <3>1. ASSUME NEW j \in 1..Len(r), r[j] = Deleted
          PROVE  \E l \in 1..Len(r) : l > j /\ r[l] = Created
      <4>1. j \in 1..Len(q) /\ q[j] = Deleted
        BY <2>1, <2>2, <2>4, <3>1, SMTT(60)
      <4>2. PICK l \in 1..Len(q) : l > j /\ q[l] = Created
        BY <4>1, <2>4 DEF CreatedLast
      <4>3. l \in 1..Len(r) /\ r[l] = Created
        BY <2>1, <2>2, <4>2, SMTT(60)
      <4> QED
        BY <4>2, <4>3
    <3> QED
      BY <3>1 DEF CreatedLast
  <2>5. ASSUME f = Created
        PROVE  CreatedLast(r)
    <3>1. Len(q) + 1 \in 1..Len(r) /\ \A j \in 1..Len(r) : r[j] = Deleted => Len(q) + 1 > j
      BY <2>1, <2>2, <2>5, EventsAre, SMTT(60)
    <3> QED
      BY <3>1, <2>2, <2>5 DEF CreatedLast
  <2> QED
    BY <2>1, <2>3, <2>4, <2>5 DEF Queued, r
<1> DEFINE q == n.queue
           m == Enqueue(n, e)
           o == Event(NoInode, "Q_OVERFLOW", NoName)
<1>1. q \in Seq(Events) /\ Len(q) \in Nat /\ setting.queue_limit \in Nat \ {0}
  BY Limits, SMTT(60) DEF Kernel
<1>2. CASE q # << >> /\ q[Len(q)] = e
  <2>1. m = n
    BY <1>2 DEF Enqueue
  <2> QED
    BY <2>1, <1>1, <1>2, <1>MergedQueue
<1>3. CASE ~(q # << >> /\ q[Len(q)] = e) /\ Len(q) < setting.queue_limit
  <2>1. m = [n EXCEPT !.queue = Append(q, e)]
    BY <1>3 DEF Enqueue
  <2>2. Queued(q, Append(q, e), e) /\ Len(Append(q, e)) = Len(q) + 1 /\ Append(q, e) \in Seq(Events)
    BY <1>1, <1>AppendedQueue, SMTT(60)
  <2>3. /\ DOMAIN m = DOMAIN n /\ m.queue = Append(q, e) /\ m.watch = n.watch /\ m.next = n.next
        /\ m.dropped = n.dropped
    BY <2>1 DEF Kernel
  <2>4. Len(m.queue) <= setting.queue_limit
    BY <2>2, <2>3, <1>1, <1>3, SMTT(60)
  <2> QED
    BY <2>2, <2>3, <2>4, <1>1, SMTT(60) DEF Kernel
<1>4. CASE ~(q # << >> /\ q[Len(q)] = e) /\ Len(q) = setting.queue_limit
  <2>1. m = [n EXCEPT !.queue = Append(q, o), !.dropped = TRUE]
    BY <1>1, <1>4, SMTT(60) DEF Enqueue
  <2>2. o \in Events
    BY EventsAre, SMTT(60) DEF NoInode, Masks, Names
  <2>3. Len(Append(q, o)) = Len(q) + 1 /\ Append(q, o) \in Seq(Events)
    BY <1>1, <2>2, <1>AppendedQueue, SMTT(60)
  <2> HIDE DEF o
  <2>4. /\ DOMAIN m = DOMAIN n /\ m.queue = Append(q, o) /\ m.watch = n.watch /\ m.next = n.next
        /\ m.dropped = TRUE
    BY <2>1 DEF Kernel
  <2> QED
    BY <2>3, <2>4, <1>1, <1>4, SMTT(60) DEF Kernel
<1>5. CASE ~(q # << >> /\ q[Len(q)] = e) /\ Len(q) > setting.queue_limit
  <2>1. m = n
    BY <1>1, <1>5, SMTT(60) DEF Enqueue
  <2>2. n.dropped
    BY <1>5 DEF Kernel
  <2> QED
    BY <2>1, <2>2
<1> QED
  BY <1>1, <1>2, <1>3, <1>4, <1>5, SMTT(60)

\* That is what Raise does, whether the inode is watched or not.
LEMMA RaiseRaises ==
    ASSUME setting \in Settings, NEW n, Kernel(n), NEW i, NEW mask \in Masks, NEW name \in Names
    PROVE  Raised(n, Raise(n, i, mask, name), i, mask, name)
<1> DEFINE wds == {wd \in DOMAIN n.watch : n.watch[wd] = i}
           m == Raise(n, i, mask, name)
<1>1. CASE wds = {}
  <2>1. m = n /\ \A wd \in DOMAIN n.watch : n.watch[wd] # i
    BY <1>1 DEF Raise
  <2> QED
    BY <2>1 DEF Raised
<1>2. CASE wds # {}
  <2>1. PICK v \in wds : v = CHOOSE wd \in wds : TRUE
    BY <1>2
  <2>2. m = Enqueue(n, Event(v, mask, name))
    BY <1>2, <2>1 DEF Raise
  <2>3. v \in DOMAIN n.watch /\ n.watch[v] = i /\ v \in Int
    BY SMTT(60) DEF Kernel
  <2>4. \A wd \in DOMAIN n.watch : n.watch[wd] = i => wd = v
    BY <2>3 DEF Kernel
  <2>5. Event(v, mask, name) \in Events
    BY <2>3, EventsAre
  <2> QED
    BY <2>2, <2>3, <2>4, <2>5, EnqueueRaises, SMTT(60) DEF Raised
<1> QED
  BY <1>1, <1>2

\* What it does that the last link to inode i goes away.
Left(n, m, i) ==
    /\ Kernel(m) /\ m.next = n.next /\ (~m.dropped => ~n.dropped)
    /\ DOMAIN m.watch = {wd \in DOMAIN n.watch : n.watch[wd] # i}
    /\ \A wd \in DOMAIN m.watch : m.watch[wd] = n.watch[wd]
    /\ (\A wd \in DOMAIN n.watch : n.watch[wd] # i) => m.queue = n.queue
    /\ \A wd \in DOMAIN n.watch :
          n.watch[wd] = i /\ ~m.dropped => Queued(n.queue, m.queue, Event(wd, "DELETE_SELF", NoName))

\* That is what Gone does, whether the inode is watched or not.
LEMMA GoneLeaves ==
    ASSUME setting \in Settings, NEW n, Kernel(n), NEW i
    PROVE  Left(n, Gone(n, i), i)
<1> DEFINE r == Raise(n, i, "DELETE_SELF", NoName)
           wds == {wd \in DOMAIN n.watch : n.watch[wd] = i}
           m == Gone(n, i)
<1>1. Raised(n, r, i, "DELETE_SELF", NoName)
  BY RaiseRaises DEF Masks, Names
<1>2. Kernel(r) /\ r.watch = n.watch /\ r.next = n.next /\ (~r.dropped => ~n.dropped)
  BY <1>1 DEF Raised
<1>3. m = [r EXCEPT !.watch = [wd \in DOMAIN n.watch \ wds |-> n.watch[wd]]]
  BY <1>2 DEF Gone, Unwatch
<1> HIDE DEF r
<1>4. /\ DOMAIN m = DOMAIN r /\ m.queue = r.queue /\ m.next = r.next /\ m.dropped = r.dropped
      /\ m.watch = [wd \in DOMAIN n.watch \ wds |-> n.watch[wd]]
  BY <1>2, <1>3 DEF Kernel
<1> HIDE DEF m
<1>5. DOMAIN m.watch = {wd \in DOMAIN n.watch : n.watch[wd] # i} /\ \A wd \in DOMAIN m.watch : m.watch[wd] = n.watch[wd]
  BY <1>4
<1>6. Kernel(m)
  BY <1>2, <1>4, <1>5, SMTT(60) DEF Kernel
<1>7. (\A wd \in DOMAIN n.watch : n.watch[wd] # i) => m.queue = n.queue
  BY <1>1, <1>4 DEF Raised
<1>8. \A wd \in DOMAIN n.watch :
          n.watch[wd] = i /\ ~m.dropped => Queued(n.queue, m.queue, Event(wd, "DELETE_SELF", NoName))
  BY <1>1, <1>4 DEF Raised
<1> QED
  BY <1>2, <1>4, <1>5, <1>6, <1>7, <1>8 DEF Left, m

-----------------------------------------------------------------------------
(***************************************************************************)
(* watchers_.                                                              *)
(***************************************************************************)

\* An entry is told by its path and by its descriptor.
LEMMA EntriesDiffer ==
    ASSUME NEW q, OneEach(q)
    PROVE  /\ \A w \in Elements(q) : w \in WatcherRecord
           /\ \A v, w \in Elements(q) : v.path = w.path => v = w
           /\ \A v, w \in Elements(q) : v.wd = w.wd => v = w
BY SMTT(60) DEF OneEach, Elements

-----------------------------------------------------------------------------
(***************************************************************************)
(* Inotify.                                                                *)
(***************************************************************************)

Paths == {DirPath, ConfigPath} \cup 1 .. (fs.next - 1)

\* An inode that is found at a path is the one that the path names.
LEMMA LookupFinds ==
    ASSUME Inodes, NEW path \in Paths, Lookup(path) # NoInode
    PROVE  /\ Lookup(path) \in 0 .. (fs.next - 1)
           /\ path = ConfigPath => Lookup(path) = fs.self /\ Lookup(path) # Dir /\ Lookup(path) \notin fs.volume
           /\ path # ConfigPath => Lookup(path) = path
           /\ path \notin {DirPath, ConfigPath} => path \in fs.volume
BY SMTT(60) DEF Inodes, Paths, Lookup, DirPath, ConfigPath, NoInode, Dir

\* What AddWatcher does when the path exists.
Added(path, tag, wd) ==
    /\ Kernel(ino') /\ OneEach(watchers')
    /\ ino'.queue = ino.queue /\ ino'.dropped = ino.dropped /\ ino.next <= ino'.next
    /\ Elements(watchers') = {v \in Entries : v.path # path} \cup {[wd |-> wd, path |-> path, tag |-> tag]}
    /\ wd \in DOMAIN ino'.watch /\ ino'.watch[wd] = Lookup(path) /\ (wd \in DOMAIN ino.watch \/ wd = ino.next)
    /\ \A v \in DOMAIN ino'.watch : v # wd => v \in DOMAIN ino.watch /\ ino'.watch[v] = ino.watch[v]
    /\ \A v \in DOMAIN ino.watch : v \in DOMAIN ino'.watch \/ \E w \in Entries : w.path = path /\ w.wd = v
    /\ \A w \in Entries : w.path = path /\ w.wd \in DOMAIN ino'.watch => w.wd = wd
    /\ \A w \in Entries : w.wd = wd => w.path = path
    /\ \A v \in DOMAIN ino.watch : ino.watch[v] = Lookup(path) => v = wd

\* That is what AddWatcher does, whether the inode has a watch or not.
LEMMA AddWatcherAdds ==
    ASSUME WatchInv, NEW path \in Paths, path # fs.self, NEW tag \in TagNames,
           AddWatcher(path, tag), Lookup(path) # NoInode
    PROVE  \E wd \in Int : Added(path, tag, wd)
\* One entry is added at the end, for a path and a descriptor that have none.
<1>EntriesGrow.
    ASSUME NEW q, OneEach(q), NEW w, NEW r, r \in Seq(WatcherRecord), NEW n \in Nat,
           DOMAIN q = 1..n, DOMAIN r = 1..(n + 1), \A k \in 1..n : r[k] = q[k], r[n + 1] = w,
           \A v \in Elements(q) : v.path # w.path /\ v.wd # w.wd
    PROVE  OneEach(r) /\ Elements(r) = Elements(q) \cup {w}
  <2> USE <1>EntriesGrow
  <2>1. \A k \in 1..n : q[k].path # w.path /\ q[k].wd # w.wd
    BY DEF Elements
  <2>2. \A k \in 1..(n + 1) : k \in 1..n \/ k = n + 1
    BY SMTT(60)
  <2>3. n + 1 \in 1..(n + 1) /\ \A k \in 1..n : k \in 1..(n + 1)
    BY SMTT(60)
  <2>4. \A k, l \in 1..n : k # l => q[k].path # q[l].path /\ q[k].wd # q[l].wd
    BY DEF OneEach
  <2>5. ASSUME NEW k \in 1..(n + 1), NEW l \in 1..(n + 1), k # l
        PROVE  r[k].path # r[l].path /\ r[k].wd # r[l].wd
    <3>1. CASE k \in 1..n /\ l \in 1..n
      BY <3>1, <2>4, <2>5
    <3>2. CASE k \in 1..n /\ l = n + 1
      BY <3>2, <2>1
    <3>3. CASE k = n + 1 /\ l \in 1..n
      BY <3>3, <2>1
    <3> QED
      BY <3>1, <3>2, <3>3, <2>2, <2>5
  <2>6. Elements(r) = Elements(q) \cup {w}
    <3>1. ASSUME NEW v \in Elements(r) PROVE v \in Elements(q) \cup {w}
      BY <2>2 DEF Elements
    <3>2. ASSUME NEW v \in Elements(q) PROVE v \in Elements(r)
      BY <2>3 DEF Elements
    <3>3. w \in Elements(r)
      BY <2>3 DEF Elements
    <3> QED
      BY <3>1, <3>2, <3>3
  <2> QED
    BY <2>5, <2>6 DEF OneEach
\* The same for the sequence that emplace_back leaves.
<1>EntriesAppended.
    ASSUME NEW q, OneEach(q), NEW w \in WatcherRecord, \A v \in Elements(q) : v.path # w.path /\ v.wd # w.wd
    PROVE  OneEach(Append(q, w)) /\ Elements(Append(q, w)) = Elements(q) \cup {w}
  <2> USE <1>EntriesAppended
  <2> DEFINE r == Append(q, w)
  <2>1. q \in Seq(WatcherRecord)
    BY DEF OneEach
  <2>2. Len(q) \in Nat /\ DOMAIN q = 1..Len(q) /\ r \in Seq(WatcherRecord) /\ DOMAIN r = 1..(Len(q) + 1)
    BY <2>1, SMTT(60)
  <2>3. (\A k \in 1..Len(q) : r[k] = q[k]) /\ r[Len(q) + 1] = w
    BY <2>1, SMTT(60)
  <2> HIDE DEF r
  <2>4. OneEach(r) /\ Elements(r) = Elements(q) \cup {w}
    BY <2>2, <2>3, <1>EntriesGrow, SMTT(60)
  <2> QED
    BY <2>4 DEF r
\* One entry of watchers_ is replaced by one of the same path.
<1>EntriesChange.
    ASSUME NEW q, OneEach(q), NEW k \in DOMAIN q, NEW w, NEW r, r \in Seq(WatcherRecord),
           DOMAIN r = DOMAIN q, \A l \in DOMAIN q : l # k => r[l] = q[l], r[k] = w, w.path = q[k].path,
           \A v \in Elements(q) : v.path # w.path => v.wd # w.wd
    PROVE  OneEach(r) /\ Elements(r) = {v \in Elements(q) : v.path # w.path} \cup {w}
  <2> USE <1>EntriesChange
  <2>1. \A l, m \in DOMAIN q : l # m => q[l].path # q[m].path /\ q[l].wd # q[m].wd
    BY DEF OneEach
  <2>2. \A l \in DOMAIN q : l # k => q[l].path # w.path /\ q[l].wd # w.wd
    BY <2>1 DEF Elements
  <2>3. ASSUME NEW l \in DOMAIN q, NEW m \in DOMAIN q, l # m
        PROVE  r[l].path # r[m].path /\ r[l].wd # r[m].wd
    <3>1. CASE l = k
      BY <3>1, <2>2, <2>3
    <3>2. CASE m = k
      BY <3>2, <2>2, <2>3
    <3>3. CASE l # k /\ m # k
      BY <3>3, <2>1, <2>3
    <3> QED
      BY <3>1, <3>2, <3>3
  <2>4. Elements(r) = {v \in Elements(q) : v.path # w.path} \cup {w}
    <3>1. ASSUME NEW v \in Elements(r) PROVE v \in {u \in Elements(q) : u.path # w.path} \cup {w}
      BY <2>2, SMTT(60) DEF Elements
    <3>2. ASSUME NEW v \in Elements(q), v.path # w.path PROVE v \in Elements(r)
      BY <3>2 DEF Elements
    <3>3. w \in Elements(r)
      BY DEF Elements
    <3> QED
      BY <3>1, <3>2, <3>3
  <2> QED
    BY <2>3, <2>4 DEF OneEach
\* The same for the sequence that the assignment leaves (Inotify.cpp:23-28).
<1>EntriesReplaced.
    ASSUME NEW q, OneEach(q), NEW k \in DOMAIN q, NEW w \in WatcherRecord, w.path = q[k].path,
           \A v \in Elements(q) : v.path # w.path => v.wd # w.wd
    PROVE  LET r == [q EXCEPT ![k] = w]
           IN  OneEach(r) /\ Elements(r) = {v \in Elements(q) : v.path # w.path} \cup {w}
  <2> USE <1>EntriesReplaced
  <2> DEFINE r == [q EXCEPT ![k] = w]
  <2>1. q \in Seq(WatcherRecord)
    BY DEF OneEach
  <2>2. DOMAIN r = DOMAIN q /\ (\A l \in DOMAIN q : l # k => r[l] = q[l]) /\ r[k] = w
    OBVIOUS
  <2>3. r \in Seq(WatcherRecord)
    BY <2>1, SMTT(60)
  <2> HIDE DEF r
  <2>4. OneEach(r) /\ Elements(r) = {v \in Elements(q) : v.path # w.path} \cup {w}
    BY <2>2, <2>3, <1>EntriesChange, SMTT(60)
  <2> QED
    BY <2>4 DEF r
\* The watch of the inode at a path belongs to the entry of the path.
<1>WatchOfPath.
    ASSUME Inodes, Matching,
           NEW w \in Entries, w.wd \in DOMAIN ino.watch, ino.watch[w.wd] = Lookup(path)
    PROVE  w.path = path
  <2> USE <1>WatchOfPath
  <2>1. IF w.path = ConfigPath THEN ino.watch[w.wd] # Dir /\ ino.watch[w.wd] \notin fs.volume
        ELSE ino.watch[w.wd] = w.path
    BY DEF Matching
  <2>2. w.path # fs.self
    BY DEF Matching
  <2>3. CASE path = ConfigPath
    BY <2>1, <2>2, <2>3, LookupFinds
  <2>4. CASE path = DirPath
    BY <2>1, <2>4, LookupFinds, SMTT(60) DEF DirPath, ConfigPath, Dir
  <2>5. CASE path \notin {DirPath, ConfigPath}
    BY <2>1, <2>5, LookupFinds, SMTT(60)
  <2> QED
    BY <2>3, <2>4, <2>5
\* EntriesReplaced for watchers_ itself.
<1>Replacing.
    ASSUME OneEach(watchers), NEW k \in DOMAIN watchers, NEW w \in WatcherRecord, w.path = watchers[k].path,
           \A v \in Entries : v.path # w.path => v.wd # w.wd, watchers' = [watchers EXCEPT ![k] = w]
    PROVE  OneEach(watchers') /\ Elements(watchers') = {v \in Entries : v.path # w.path} \cup {w}
  BY <1>Replacing, <1>EntriesReplaced DEF Entries
\* The inode has a watch.
<1>WatchKept.
    ASSUME NEW wd \in DOMAIN ino.watch, ino.watch[wd] = Lookup(path)
    PROVE  Added(path, tag, wd)
  <2> USE <1>WatchKept
  <2> DEFINE i == Lookup(path)
             wds == {v \in DOMAIN ino.watch : ino.watch[v] = i}
             r == AddWatch(ino, i)
             e == [wd |-> wd, path |-> path, tag |-> tag]
  <2>1. Records /\ Inodes /\ Watching /\ Kernel(ino) /\ OneEach(watchers) /\ Matching
    BY DEF WatchInv, Watching, Entered
  <2>2. \A v \in wds : v = wd
    BY <2>1 DEF Kernel
  <2>3. wds # {} /\ (CHOOSE v \in wds : TRUE) = wd
    BY <2>2
  <2>4. r = [wd |-> wd, ino |-> ino]
    BY <2>3 DEF AddWatch
  <2>5. r.wd = wd /\ r.ino = ino
    BY <2>4, SMTT(60)
  <2> HIDE DEF r
  <2>6. PICK w \in Entries : w.wd = wd
    BY <2>1 DEF Matching
  <2>7. w.path = path
    BY <2>1, <2>6, <1>WatchOfPath
  <2>8. FindPath(path) # {}
    BY <2>6, <2>7 DEF FindPath, Entries, Elements
  <2>9. PICK k \in FindPath(path) : k = CHOOSE l \in FindPath(path) : TRUE
    BY <2>8
  <2>10. k \in DOMAIN watchers /\ watchers[k].path = path /\ watchers[k] \in Entries
    BY DEF FindPath, Entries, Elements
  <2>11. \A u, v \in Entries : (u.path = v.path => u = v) /\ (u.wd = v.wd => u = v)
    BY <2>1, EntriesDiffer DEF Entries
  <2>12. watchers[k].wd = wd
    BY <2>6, <2>7, <2>10, <2>11
  <2>13. ino' = ino /\ watchers' = [watchers EXCEPT ![k] = e]
    BY <2>5, <2>8, <2>9, <2>12 DEF AddWatcher, r
  <2>14. e \in WatcherRecord /\ e.path = path /\ e.wd = wd
    <3>1. wd \in Int /\ path \in Int
      BY <2>1, SMTT(60) DEF Kernel, Paths, Inodes, DirPath, ConfigPath
    <3> QED
      BY <3>1 DEF WatcherRecord
  <2> HIDE DEF e
  <2>15. \A v \in Entries : v.path # path => v.wd # wd
    BY <2>6, <2>7, <2>11
  <2>16. OneEach(watchers') /\ Elements(watchers') = {v \in Entries : v.path # path} \cup {e}
    BY <2>1, <2>10, <2>13, <2>14, <2>15, <1>Replacing DEF Entries
  <2>17. \A v \in Entries : v.path = path => v.wd = wd
    BY <2>6, <2>7, <2>11
  <2>18. \A v \in Entries : v.wd = wd => v.path = path
    BY <2>15
  <2> QED
    <3>1. ino.next <= ino'.next /\ Kernel(ino')
      BY <2>1, <2>13, SMTT(60) DEF Kernel
    <3> QED
      BY <2>2, <2>13, <2>16, <2>17, <2>18, <3>1 DEF Added, e
\* The inode has none.
<1>WatchMade.
    ASSUME \A v \in DOMAIN ino.watch : ino.watch[v] # Lookup(path)
    PROVE  Added(path, tag, ino.next)
  <2> USE <1>WatchMade
  <2> DEFINE i == Lookup(path)
             wd == ino.next
             r == AddWatch(ino, i)
             n == [ino EXCEPT !.watch = With(ino.watch, wd, i), !.next = wd + 1]
             e == [wd |-> wd, path |-> path, tag |-> tag]
  <2>1. Records /\ Inodes /\ Watching /\ Kernel(ino) /\ OneEach(watchers) /\ Matching
    BY DEF WatchInv, Watching, Entered
  <2>2. r = [wd |-> wd, ino |-> n]
    BY DEF AddWatch
  <2>3. r.wd = wd /\ r.ino = n
    BY <2>2, SMTT(60)
  <2> HIDE DEF r
  <2>4. wd \in Nat \ {0} /\ wd \notin DOMAIN ino.watch /\ \A v \in DOMAIN ino.watch : v \in 1 .. (wd - 1)
    BY <2>1, SMTT(60) DEF Kernel
  <2>5. /\ DOMAIN n = DOMAIN ino /\ n.watch = With(ino.watch, wd, i) /\ n.next = wd + 1
        /\ n.queue = ino.queue /\ n.dropped = ino.dropped
    BY <2>1 DEF Kernel
  <2>6. /\ DOMAIN n.watch = DOMAIN ino.watch \cup {wd} /\ n.watch[wd] = i
        /\ \A v \in DOMAIN ino.watch : n.watch[v] = ino.watch[v]
    BY <2>4, <2>5 DEF With
  <2> HIDE DEF n
  <2>7. Kernel(n)
    BY <2>1, <2>4, <2>5, <2>6, SMTT(60) DEF Kernel
  <2>8. e \in WatcherRecord /\ e.path = path /\ e.wd = wd
    <3>1. wd \in Int /\ path \in Int
      BY <2>1, <2>4, SMTT(60) DEF Paths, Inodes, DirPath, ConfigPath
    <3> QED
      BY <3>1 DEF WatcherRecord
  <2> HIDE DEF e
  <2>9. \A v \in Entries : v.wd # wd
    BY <2>1, <2>4, SMTT(60) DEF Matching
  <2>10. CASE FindPath(path) = {}
    <3>1. ino' = n /\ watchers' = Append(watchers, e)
      BY <2>3, <2>10 DEF AddWatcher, r, e
    <3>2. \A v \in Entries : v.path # path
      BY <2>10 DEF FindPath, Entries, Elements
    <3>3. OneEach(watchers') /\ Elements(watchers') = Entries \cup {e}
      BY <2>1, <2>8, <2>9, <3>1, <3>2, <1>EntriesAppended DEF Entries
    <3>4. Elements(watchers') = {v \in Entries : v.path # path} \cup {e}
      BY <3>2, <3>3
    <3> QED
      BY <2>4, <2>5, <2>6, <2>7, <2>9, <3>1, <3>2, <3>3, <3>4, SMTT(60) DEF Added, e
  <2>11. CASE FindPath(path) # {}
    <3>1. PICK k \in FindPath(path) : k = CHOOSE l \in FindPath(path) : TRUE
      BY <2>11
    <3>2. k \in DOMAIN watchers /\ watchers[k].path = path /\ watchers[k] \in Entries
      BY DEF FindPath, Entries, Elements
    <3> DEFINE old == watchers[k].wd
    <3>3. old # wd
      BY <2>9, <3>2
    <3>4. ino' = Unwatch(n, {old}) /\ watchers' = [watchers EXCEPT ![k] = e]
      BY <2>3, <2>11, <3>1, <3>3 DEF AddWatcher, r, e
    <3>5. /\ DOMAIN ino' = DOMAIN ino /\ ino'.next = wd + 1 /\ ino'.queue = ino.queue /\ ino'.dropped = ino.dropped
          /\ ino'.watch = [v \in DOMAIN n.watch \ {old} |-> n.watch[v]]
      BY <2>1, <2>5, <3>4 DEF Unwatch, Kernel
    <3>6. /\ DOMAIN ino'.watch = (DOMAIN ino.watch \cup {wd}) \ {old} /\ ino'.watch[wd] = i
          /\ \A v \in DOMAIN ino.watch : v # old => ino'.watch[v] = ino.watch[v]
      BY <2>4, <2>6, <3>3, <3>5
    <3>7. Kernel(ino')
      <4>1. ino'.next \in Nat \ {0} /\ DOMAIN ino'.watch \subseteq 1 .. (ino'.next - 1)
        BY <2>4, <3>5, <3>6, SMTT(60)
      <4>2. \A u, v \in DOMAIN ino'.watch : ino'.watch[u] = ino'.watch[v] => u = v
        BY <2>1, <3>6, SMTT(60) DEF Kernel
      <4> QED
        BY <2>1, <3>5, <4>1, <4>2 DEF Kernel
    <3>8. OneEach(watchers') /\ Elements(watchers') = {v \in Entries : v.path # path} \cup {e}
      BY <2>1, <2>8, <2>9, <3>2, <3>4, <1>Replacing DEF Entries
    <3>9. \A w \in Entries : w.path = path => w.wd = old
      BY <2>1, <3>2, EntriesDiffer DEF Entries
    <3> HIDE DEF old
    <3>10. \A v \in DOMAIN ino.watch : v \in DOMAIN ino'.watch \/ \E w \in Entries : w.path = path /\ w.wd = v
      BY <3>2, <3>6 DEF old
    <3>11. \A v \in DOMAIN ino'.watch : v # wd => v \in DOMAIN ino.watch /\ ino'.watch[v] = ino.watch[v]
      BY <3>6
    <3>12. \A w \in Entries : w.path = path /\ w.wd \in DOMAIN ino'.watch => w.wd = wd
      BY <3>6, <3>9
    <3>13. ino.next <= ino'.next /\ wd \in DOMAIN ino'.watch
      BY <2>4, <3>3, <3>5, <3>6, SMTT(60)
    <3> QED
      BY <2>9, <3>5, <3>6, <3>7, <3>8, <3>10, <3>11, <3>12, <3>13 DEF Added, e
  <2> QED
    BY <2>10, <2>11
<1>1. ino.next \in Int /\ DOMAIN ino.watch \subseteq Int
  BY SMTT(60) DEF WatchInv, Watching, Kernel
<1>2. CASE \E wd \in DOMAIN ino.watch : ino.watch[wd] = Lookup(path)
  BY <1>1, <1>2, <1>WatchKept
<1>3. CASE \A wd \in DOMAIN ino.watch : ino.watch[wd] # Lookup(path)
  BY <1>1, <1>3, <1>WatchMade
<1> QED
  BY <1>2, <1>3

\* What RemoveWatcher does.
Removed(path) ==
    /\ Kernel(ino') /\ OneEach(watchers')
    /\ ino'.queue = ino.queue /\ ino'.dropped = ino.dropped /\ ino'.next = ino.next
    /\ Elements(watchers') = {v \in Entries : v.path # path}
    /\ DOMAIN ino'.watch = {v \in DOMAIN ino.watch : \A w \in Entries : w.path = path => w.wd # v}
    /\ \A v \in DOMAIN ino'.watch : ino'.watch[v] = ino.watch[v]

\* That is what RemoveWatcher does, whether the path has an entry or not.
LEMMA RemoveWatcherRemoves ==
    ASSUME WatchInv, NEW path, RemoveWatcher(FindPath(path))
    PROVE  Removed(path)
\* One entry is erased (Inotify.cpp:59).
<1>EntriesErased.
    ASSUME NEW q, OneEach(q), NEW k \in DOMAIN q, NEW r, r = Erase(q, k)
    PROVE  OneEach(r) /\ Elements(r) = Elements(q) \ {q[k]}
  <2> USE <1>EntriesErased
  <2> DEFINE n == Len(q) - 1
  <2>1. q \in Seq(WatcherRecord) /\ n \in Nat /\ DOMAIN q = 1..(n + 1) /\ n + 1 = Len(q)
    BY SMTT(60) DEF OneEach
  <2>2. r = [j \in 1..n |-> IF j < k THEN q[j] ELSE q[j + 1]]
    BY DEF Erase
  <2> HIDE DEF n
  <2>3. \A j \in 1..n : /\ j < k => r[j] = q[j] /\ j \in DOMAIN q
                        /\ ~(j < k) => r[j] = q[j + 1] /\ j + 1 \in DOMAIN q
    BY <2>1, <2>2, SMTT(60)
  <2>4. \A j \in DOMAIN q : q[j] \in WatcherRecord
    BY <2>1, SMTT(60)
  <2>5. r \in Seq(WatcherRecord) /\ DOMAIN r = 1..n
    BY <2>1, <2>2, <2>3, <2>4, SMTT(60)
  <2>6. ASSUME NEW j \in 1..n
        PROVE  \E l \in DOMAIN q : l # k /\ r[j] = q[l] /\ l = IF j < k THEN j ELSE j + 1
    <3>1. j # k => (IF j < k THEN j ELSE j + 1) # k
      BY <2>1, SMTT(60)
    <3>2. (IF j < k THEN j ELSE j + 1) # k
      BY <2>1, SMTT(60)
    <3> QED
      BY <3>2, <2>3
  <2>7. ASSUME NEW i \in 1..n, NEW j \in 1..n, i # j
        PROVE  r[i].path # r[j].path /\ r[i].wd # r[j].wd
    <3>1. PICK l \in DOMAIN q : r[i] = q[l] /\ l = IF i < k THEN i ELSE i + 1
      BY <2>6
    <3>2. PICK m \in DOMAIN q : r[j] = q[m] /\ m = IF j < k THEN j ELSE j + 1
      BY <2>6
    <3>3. l # m
      BY <3>1, <3>2, <2>7, <2>1, SMTT(60)
    <3> QED
      BY <3>1, <3>2, <3>3 DEF OneEach
  <2>8. ASSUME NEW l \in DOMAIN q, l # k
        PROVE  \E j \in 1..n : r[j] = q[l]
    <3>1. CASE l < k
      <4>1. l \in 1..n
        BY <3>1, <2>1, SMTT(60)
      <4> QED
        BY <3>1, <4>1, <2>3
    <3>2. CASE ~(l < k)
      <4>1. l - 1 \in 1..n /\ ~(l - 1 < k) /\ (l - 1) + 1 = l
        BY <3>2, <2>1, <2>8, SMTT(60)
      <4> QED
        BY <4>1, <2>3
    <3> QED
      BY <3>1, <3>2
  <2>9. Elements(r) = Elements(q) \ {q[k]}
    <3>1. ASSUME NEW v \in Elements(r) PROVE v \in Elements(q) /\ v # q[k]
      <4>1. PICK j \in 1..n : v = r[j]
        BY <2>5 DEF Elements
      <4>2. PICK l \in DOMAIN q : l # k /\ v = q[l]
        BY <4>1, <2>6
      <4> QED
        BY <4>2 DEF Elements, OneEach
    <3>2. ASSUME NEW v \in Elements(q), v # q[k] PROVE v \in Elements(r)
      <4>1. PICK l \in DOMAIN q : v = q[l]
        BY DEF Elements
      <4>2. PICK j \in 1..n : v = r[j]
        BY <4>1, <3>2, <2>8
      <4> QED
        BY <4>2, <2>5 DEF Elements
    <3> QED
      BY <3>1, <3>2
  <2> QED
    BY <2>5, <2>7, <2>9, SMTT(60) DEF OneEach
<1>1. Kernel(ino) /\ OneEach(watchers)
  BY DEF WatchInv, Watching, Entered
<1>2. CASE FindPath(path) = {}
  <2>1. \A w \in Entries : w.path # path
    BY <1>2 DEF FindPath, Entries, Elements
  <2>2. ino' = ino /\ watchers' = watchers
    BY <1>2 DEF RemoveWatcher
  <2>3. Elements(watchers') = {v \in Entries : v.path # path}
    BY <2>1, <2>2 DEF Entries
  <2>4. DOMAIN ino'.watch = {v \in DOMAIN ino.watch : \A w \in Entries : w.path = path => w.wd # v}
    BY <2>1, <2>2
  <2> QED
    BY <1>1, <2>2, <2>3, <2>4 DEF Removed
<1>3. CASE FindPath(path) # {}
  <2>1. PICK k \in FindPath(path) : k = CHOOSE l \in FindPath(path) : TRUE
    BY <1>3
  <2>2. k \in DOMAIN watchers /\ watchers[k].path = path /\ watchers[k] \in Entries
    BY DEF FindPath, Entries, Elements
  <2> DEFINE old == watchers[k].wd
  <2>3. ino' = Unwatch(ino, {old}) /\ watchers' = Erase(watchers, k)
    BY <1>3, <2>1 DEF RemoveWatcher
  <2>4. OneEach(watchers') /\ Elements(watchers') = Entries \ {watchers[k]}
    BY <1>1, <2>2, <2>3, <1>EntriesErased DEF Entries
  <2>5. \A w \in Entries : w.path = path <=> w = watchers[k]
    BY <1>1, <2>2, EntriesDiffer DEF Entries
  <2>6. Elements(watchers') = {v \in Entries : v.path # path}
    BY <2>4, <2>5
  <2>7. /\ DOMAIN ino' = DOMAIN ino /\ ino'.next = ino.next /\ ino'.queue = ino.queue /\ ino'.dropped = ino.dropped
        /\ ino'.watch = [v \in DOMAIN ino.watch \ {old} |-> ino.watch[v]]
    BY <1>1, <2>3 DEF Unwatch, Kernel
  <2>8. DOMAIN ino'.watch = {v \in DOMAIN ino.watch : \A w \in Entries : w.path = path => w.wd # v}
    BY <2>2, <2>5, <2>7
  <2>9. DOMAIN ino'.watch \subseteq DOMAIN ino.watch /\ \A v \in DOMAIN ino'.watch : ino'.watch[v] = ino.watch[v]
    BY <2>7
  <2>10. Kernel(ino')
    <3>1. \A u, v \in DOMAIN ino'.watch : ino'.watch[u] = ino'.watch[v] => u = v
      BY <1>1, <2>9 DEF Kernel
    <3> QED
      BY <1>1, <2>7, <2>9, <3>1 DEF Kernel
  <2> QED
    BY <2>4, <2>6, <2>7, <2>8, <2>9, <2>10 DEF Removed
<1> QED
  BY <1>2, <1>3

-----------------------------------------------------------------------------
(***************************************************************************)
(* Every step keeps WatchInv.                                              *)
(***************************************************************************)

\* The watches that remain when the inodes of set I lost theirs.
Less(I) ==
    /\ Kernel(ino') /\ ino'.next = ino.next
    /\ DOMAIN ino'.watch = {v \in DOMAIN ino.watch : ino.watch[v] \notin I}
    /\ \A v \in DOMAIN ino'.watch : ino'.watch[v] = ino.watch[v]

\* What it does that the file is unlinked.
Unlinked(n, m, i) ==
    /\ Kernel(m) /\ m.next = n.next /\ (~m.dropped => ~n.dropped)
    /\ DOMAIN m.watch = {wd \in DOMAIN n.watch : n.watch[wd] # i}
    /\ \A wd \in DOMAIN m.watch : m.watch[wd] = n.watch[wd]
    /\ ~m.dropped => /\ \A x \in Events : Has(n.queue, x) => Has(m.queue, x)
                     /\ \A wd \in DOMAIN n.watch : n.watch[wd] = Dir => Has(m.queue, Event(wd, "DELETE", "config"))

\* What the operations on the plain file do to the file system.
LEMMA FileOps ==
    ASSUME Records, NEW c
    PROVE  /\ fs' = [WithFile(c) EXCEPT !.ops = @ + 1] =>
                /\ DOMAIN fs' = DOMAIN fs /\ fs'.entry = "file" /\ fs'.self = fs.next /\ fs'.next = fs.next + 1
                /\ fs'.target = fs.target /\ fs'.volume = fs.volume
           /\ fs' = [WithoutFile EXCEPT !.ops = @ + 1] =>
                /\ DOMAIN fs' = DOMAIN fs /\ fs'.entry = "none" /\ fs'.self = NoInode /\ fs'.next = fs.next
                /\ fs'.target = fs.target /\ fs'.volume = fs.volume
           /\ fs' = WithoutFile =>
                /\ DOMAIN fs' = DOMAIN fs /\ fs'.entry = "none" /\ fs'.self = NoInode /\ fs'.next = fs.next
                /\ fs'.target = fs.target /\ fs'.volume = fs.volume
           /\ fs' = [fs EXCEPT !.content[fs.self] = c, !.ops = @ + 1] =>
                /\ DOMAIN fs' = DOMAIN fs /\ fs'.entry = fs.entry /\ fs'.self = fs.self /\ fs'.next = fs.next
                /\ fs'.target = fs.target /\ fs'.volume = fs.volume
           /\ fs' = [fs EXCEPT !.ops = @ + 1] =>
                /\ DOMAIN fs' = DOMAIN fs /\ fs'.entry = fs.entry /\ fs'.self = fs.self /\ fs'.next = fs.next
                /\ fs'.target = fs.target /\ fs'.volume = fs.volume /\ fs'.content = fs.content
BY DEF Records, WithFile, WithoutFile

\* The watches after an event are those before.
LEMMA RaisedLess ==
    ASSUME WatchInv, NEW i, NEW mask \in Masks, NEW name \in Names, ino' = Raise(ino, i, mask, name)
    PROVE  Raised(ino, ino', i, mask, name) /\ Less({})
<1>1. setting \in Settings /\ Kernel(ino)
  BY DEF WatchInv, Records, Watching
<1>2. Raised(ino, ino', i, mask, name)
  BY <1>1, RaiseRaises
<1>3. Less({})
  BY <1>2 DEF Raised, Less
<1> QED
  BY <1>2, <1>3

\* The watches after an inode is gone.
LEMMA GoneLess ==
    ASSUME WatchInv, NEW i, ino' = Gone(ino, i)
    PROVE  Left(ino, ino', i) /\ Less({i})
<1>1. setting \in Settings /\ Kernel(ino)
  BY DEF WatchInv, Records, Watching
<1>2. Left(ino, ino', i)
  BY <1>1, GoneLeaves
<1>3. Less({i})
  BY <1>2 DEF Left, Less
<1> QED
  BY <1>2, <1>3

\* The watches after the file is unlinked.
LEMMA UnlinkLess ==
    ASSUME WatchInv, NEW i, i # Dir, ino' \in Unlink(ino, i)
    PROVE  Unlinked(ino, ino', i) /\ Less({i})
\* That is what Unlink does, in both orders of its events.
<1>UnlinkLeaves.
    ASSUME setting \in Settings, NEW n, Kernel(n), NEW f, f # Dir, NEW m \in Unlink(n, f)
    PROVE  Unlinked(n, m, f)
  <2> USE <1>UnlinkLeaves
  <2>1. \A wd \in DOMAIN n.watch : wd \in Int /\ Event(wd, "DELETE", "config") \in Events
    BY EventsAre, SMTT(60) DEF Kernel, Masks, Names
  <2>2. \A wd \in DOMAIN n.watch : wd \in Int /\ Event(wd, "DELETE_SELF", NoName) \in Events
    BY EventsAre, SMTT(60) DEF Kernel, Masks, Names
  <2>3. CASE m = Gone(Raise(n, Dir, "DELETE", "config"), f)
    <3> DEFINE r == Raise(n, Dir, "DELETE", "config")
    <3>1. Raised(n, r, Dir, "DELETE", "config")
      BY RaiseRaises DEF Masks, Names
    <3>2. Kernel(r) /\ r.watch = n.watch /\ r.next = n.next /\ (~r.dropped => ~n.dropped)
      BY <3>1 DEF Raised
    <3>3. Left(r, m, f)
      BY <2>3, <3>2, GoneLeaves
    <3> HIDE DEF r
    <3>4. ASSUME ~m.dropped
          PROVE  /\ \A x \in Events : Has(r.queue, x) => Has(m.queue, x)
                 /\ \A x \in Events : Has(n.queue, x) => Has(r.queue, x)
                 /\ \A wd \in DOMAIN n.watch : n.watch[wd] = Dir => Has(r.queue, Event(wd, "DELETE", "config"))
      <4>1. ~r.dropped
        BY <3>3, <3>4 DEF Left
      <4>2. \A x \in Events : Has(r.queue, x) => Has(m.queue, x)
        BY <3>2, <3>3, <3>4 DEF Left, Queued
      <4>3. \A x \in Events : Has(n.queue, x) => Has(r.queue, x)
        BY <3>1, <4>1 DEF Raised, Queued
      <4>4. \A wd \in DOMAIN n.watch : n.watch[wd] = Dir => Has(r.queue, Event(wd, "DELETE", "config"))
        BY <2>1, <3>1, <4>1 DEF Raised, Queued
      <4> QED
        BY <4>2, <4>3, <4>4
    <3>5. Kernel(m) /\ m.next = n.next /\ (~m.dropped => ~n.dropped)
      BY <3>2, <3>3 DEF Left
    <3>6. DOMAIN m.watch = {wd \in DOMAIN n.watch : n.watch[wd] # f} /\ \A wd \in DOMAIN m.watch : m.watch[wd] = n.watch[wd]
      BY <3>2, <3>3 DEF Left
    <3> QED
      BY <2>1, <3>4, <3>5, <3>6 DEF Unlinked
  <2>4. CASE m = Raise(Gone(n, f), Dir, "DELETE", "config")
    <3> DEFINE r == Gone(n, f)
    <3>1. Left(n, r, f)
      BY GoneLeaves
    <3>2. Kernel(r) /\ r.next = n.next /\ (~r.dropped => ~n.dropped)
      BY <3>1 DEF Left
    <3>3. Raised(r, m, Dir, "DELETE", "config")
      BY <2>4, <3>2, RaiseRaises DEF Masks, Names
    <3> HIDE DEF r
    <3>4. ASSUME ~m.dropped
          PROVE  /\ \A x \in Events : Has(n.queue, x) => Has(r.queue, x)
                 /\ \A x \in Events : Has(r.queue, x) => Has(m.queue, x)
                 /\ \A wd \in DOMAIN n.watch : n.watch[wd] = Dir => Has(m.queue, Event(wd, "DELETE", "config"))
      <4>1. ~r.dropped
        BY <3>3, <3>4 DEF Raised
      <4>2. \A x \in Events : Has(n.queue, x) => Has(r.queue, x)
        BY <3>1, <4>1 DEF Left, Queued
      <4>3. \A x \in Events : Has(r.queue, x) => Has(m.queue, x)
        BY <3>3, <3>4 DEF Raised, Queued
      <4>4. ASSUME NEW wd \in DOMAIN n.watch, n.watch[wd] = Dir
            PROVE  Has(m.queue, Event(wd, "DELETE", "config"))
        <5>1. wd \in DOMAIN r.watch /\ r.watch[wd] = Dir
          BY <3>1, <4>4 DEF Left
        <5> QED
          BY <2>1, <3>3, <3>4, <5>1 DEF Raised, Queued
      <4> QED
        BY <4>2, <4>3, <4>4
    <3>5. Kernel(m) /\ m.next = n.next /\ (~m.dropped => ~n.dropped)
      BY <3>2, <3>3 DEF Raised
    <3>6. DOMAIN m.watch = {wd \in DOMAIN n.watch : n.watch[wd] # f} /\ \A wd \in DOMAIN m.watch : m.watch[wd] = n.watch[wd]
      BY <3>1, <3>3 DEF Left, Raised
    <3> QED
      BY <2>1, <3>4, <3>5, <3>6 DEF Unlinked
  <2> QED
    BY <2>3, <2>4 DEF Unlink
<1>1. setting \in Settings /\ Kernel(ino)
  BY DEF WatchInv, Records, Watching
<1>2. Unlinked(ino, ino', i)
  BY <1>1, <1>UnlinkLeaves
<1>3. Less({i})
  BY <1>2 DEF Unlinked, Less
<1> QED
  BY <1>2, <1>3

\* A step changes what is left to do, and nothing else of the thread.
LEMMA ContinueKeeps ==
    ASSUME Records, NEW steps, Continue(steps)
    PROVE  /\ DOMAIN loader' = DOMAIN loader /\ loader'.pc = loader.pc /\ loader'.w = loader.w
           /\ loader'.real = loader.real /\ loader'.should_stop = loader.should_stop
           /\ loader'.todo = steps \o Tail(loader.todo)
BY DEF Records, Continue

\* What HandleEvent does.
LEMMA EventTaken ==
    ASSUME WatchInv, HandleEvent
    PROVE  /\ UNCHANGED <<setting, fs, kubelet, watchers, runtime_config>> /\ loader.pc = "loop" /\ ino.queue # << >>
           /\ Kernel(ino') /\ ino'.watch = ino.watch /\ ino'.next = ino.next /\ ino'.dropped = ino.dropped
           /\ ino'.queue = Tail(ino.queue)
           /\ DOMAIN loader' = DOMAIN loader /\ loader'.real = loader.real
           /\ LET e == Head(ino.queue) IN
              \/ (\A w \in Entries : w.wd # e.wd) /\ loader' = loader
              \/ \E w \in Entries :
                    /\ w.wd = e.wd
                    /\ \/ w.tag = "PARENT_PATH" /\ e.mask \in SelfGone /\ loader'.pc = "ended" /\ loader'.todo = loader.todo
                       \/ /\ ~(w.tag = "PARENT_PATH" /\ e.mask \in SelfGone)
                          /\ loader'.pc = "handle" /\ loader'.todo = Reaction(e, w.tag) /\ loader'.w = w.path
<1>1. Records /\ Kernel(ino)
  BY DEF WatchInv, Watching
<1>2. UNCHANGED <<setting, fs, kubelet, watchers, runtime_config>> /\ loader.pc = "loop" /\ ino.queue # << >>
      /\ ino' = [ino EXCEPT !.queue = Tail(@)]
  BY DEF HandleEvent
<1>3. /\ DOMAIN ino' = DOMAIN ino /\ ino'.watch = ino.watch /\ ino'.next = ino.next /\ ino'.dropped = ino.dropped
      /\ ino'.queue = Tail(ino.queue)
  BY <1>1, <1>2 DEF Kernel
<1>4. Kernel(ino')
  <2>1. ino.queue \in Seq(Events) /\ setting.queue_limit \in Nat
    BY <1>1, Limits DEF Kernel, Records
  <2>2. ino'.queue \in Seq(Events) /\ Len(ino'.queue) = Len(ino.queue) - 1 /\ Len(ino.queue) \in Nat
    BY <1>2, <1>3, <2>1, TailQueue, SMTT(60)
  <2>3. Len(ino.queue) <= setting.queue_limit + 1
    BY <1>1 DEF Kernel
  <2>4. Len(ino'.queue) <= setting.queue_limit
    BY <2>1, <2>2, <2>3, SMTT(60)
  <2>5. Len(ino'.queue) <= setting.queue_limit + 1 /\ ~(Len(ino'.queue) > setting.queue_limit)
    BY <2>1, <2>2, <2>4, SMTT(60)
  <2> QED
    BY <1>1, <1>3, <2>2, <2>5 DEF Kernel
<1> DEFINE e == Head(ino.queue)
<1>5. CASE FindWd(e.wd) = {}
  <2>1. loader' = loader /\ \A w \in Entries : w.wd # e.wd
    BY <1>5 DEF HandleEvent, FindWd, Entries, Elements
  <2> QED
    BY <1>2, <1>3, <1>4, <2>1
<1>6. CASE FindWd(e.wd) # {}
  <2>1. PICK k \in FindWd(e.wd) : k = CHOOSE l \in FindWd(e.wd) : TRUE
    BY <1>6
  <2> DEFINE w == watchers[k]
  <2>2. w \in Entries /\ w.wd = e.wd
    BY DEF FindWd, Entries, Elements
  <2>3. loader' = IF w.tag = "PARENT_PATH" /\ e.mask \in SelfGone
                  THEN [loader EXCEPT !.pc = "ended"]
                  ELSE [loader EXCEPT !.pc = "handle", !.todo = Reaction(e, w.tag), !.w = w.path]
    BY <1>6, <2>1 DEF HandleEvent
  <2> HIDE DEF w, e
  <2>4. CASE w.tag = "PARENT_PATH" /\ e.mask \in SelfGone
    <3>1. DOMAIN loader' = DOMAIN loader /\ loader'.real = loader.real /\ loader'.pc = "ended" /\ loader'.todo = loader.todo
      BY <1>1, <2>3, <2>4 DEF Records
    <3> QED
      BY <1>2, <1>3, <1>4, <2>2, <2>4, <3>1 DEF e
  <2>5. CASE ~(w.tag = "PARENT_PATH" /\ e.mask \in SelfGone)
    <3>1. /\ DOMAIN loader' = DOMAIN loader /\ loader'.real = loader.real /\ loader'.pc = "handle"
          /\ loader'.todo = Reaction(e, w.tag) /\ loader'.w = w.path
      BY <1>1, <2>3, <2>5 DEF Records
    <3> QED
      BY <1>2, <1>3, <1>4, <2>2, <2>5, <3>1 DEF e
  <2> QED
    BY <2>4, <2>5
<1> QED
  BY <1>5, <1>6

\* What the operations on the volume do to the file system.
LEMMA PublishOps ==
    ASSUME Records, NEW c, Publish(c)
    PROVE  /\ setting.deployment = "configmap" /\ kubelet.pc = "idle" /\ (c = NoConfig => fs.entry = "link")
           /\ IF setting.racing THEN Watches(Dir) ELSE Idle
           /\ UNCHANGED <<setting, watchers, loader, runtime_config>>
           /\ DOMAIN fs' = DOMAIN fs /\ fs'.entry = fs.entry /\ fs'.self = fs.self /\ fs'.next = fs.next + 1
           /\ c = NoConfig => fs'.target = NoInode /\ (fs.next # NoInode => fs'.volume = fs.volume)
           /\ c # NoConfig => /\ fs'.target = fs.next
                              /\ fs.next # NoInode => fs'.volume = fs.volume \cup {fs.next}
           /\ DOMAIN kubelet' = DOMAIN kubelet /\ kubelet'.old = fs.target
           /\ c = NoConfig => kubelet'.pc = "unlink"
           /\ c # NoConfig /\ fs.next # NoInode => kubelet'.pc = "link"
           /\ ino' = Raise(ino, Dir, "CREATE", "version")
<1> DEFINE i == IF c = NoConfig THEN NoInode ELSE fs.next
<1>1. /\ setting.deployment = "configmap" /\ kubelet.pc = "idle" /\ (c = NoConfig => fs.entry = "link")
      /\ IF setting.racing THEN Watches(Dir) ELSE Idle
      /\ UNCHANGED <<setting, watchers, loader, runtime_config>>
      /\ ino' = Raise(ino, Dir, "CREATE", "version")
      /\ kubelet' = [pc |-> IF i = NoInode THEN "unlink" ELSE "link", old |-> fs.target]
  BY DEF Publish, Op
<1>2. fs' = [[fs EXCEPT !.target = i, !.next = @ + 1,
                        !.volume = IF i = NoInode THEN @ ELSE @ \cup {i},
                        !.content = With(@, fs.next, c)] EXCEPT !.ops = @ + 1]
  BY DEF Publish, Op
<1>3. /\ DOMAIN fs' = DOMAIN fs /\ fs'.entry = fs.entry /\ fs'.self = fs.self /\ fs'.next = fs.next + 1
      /\ fs'.target = i /\ fs'.volume = IF i = NoInode THEN fs.volume ELSE fs.volume \cup {i}
  BY <1>2 DEF Records
<1>4. /\ DOMAIN kubelet' = DOMAIN kubelet /\ kubelet'.old = fs.target
      /\ kubelet'.pc = IF i = NoInode THEN "unlink" ELSE "link"
  BY <1>1 DEF Records
<1> QED
  BY <1>1, <1>3, <1>4

\* A link that is created is a new inode.
LEMMA CreateLinkOps ==
    ASSUME Records, CreateLink, fs.entry # "link"
    PROVE  /\ DOMAIN fs' = DOMAIN fs /\ fs'.entry = "link" /\ fs'.self = fs.next /\ fs'.next = fs.next + 1
           /\ fs'.target = fs.target /\ fs'.volume = fs.volume /\ fs'.content = fs.content
           /\ ino' = Raise(ino, Dir, "CREATE", "config")
BY DEF CreateLink, Records

\* Both steps leave the thread and the version that was replaced.
LEMMA LinkOps ==
    ASSUME Records, CreateLink \/ DeleteLink
    PROVE  /\ DOMAIN kubelet' = DOMAIN kubelet /\ kubelet'.pc = "clean" /\ kubelet'.old = kubelet.old
           /\ UNCHANGED <<setting, watchers, loader, runtime_config>>
BY DEF CreateLink, DeleteLink, Records

\* The old version leaves the volume, and with it its watch.
LEMMA RemoveOldOps ==
    ASSUME Records, RemoveOld
    PROVE  /\ DOMAIN kubelet' = DOMAIN kubelet /\ kubelet'.pc = "idle" /\ kubelet'.old = NoInode
           /\ DOMAIN fs' = DOMAIN fs /\ fs'.entry = fs.entry /\ fs'.self = fs.self /\ fs'.next = fs.next
           /\ fs'.target = fs.target /\ fs'.volume = fs.volume \ {kubelet.old} /\ fs'.content = fs.content
           /\ UNCHANGED <<setting, watchers, loader, runtime_config>>
           /\ ino' = Gone(ino, kubelet.old)
BY DEF RemoveOld, Records

\* Every change of the file system keeps WatchInv.
LEMMA EnvironmentKeepsWatchInv ==
    ASSUME WatchInv, Environment
    PROVE  WatchInv'
\* A step of the file system: an inode it adds is a new one, and the inodes that lose
\* their watch are not in the volume.
<1>FileStep.
    ASSUME UNCHANGED <<setting, watchers, loader, runtime_config>>, NEW I, Less(I),
           \A i \in I : i \notin fs'.volume,
           DOMAIN fs' = DOMAIN fs, DOMAIN kubelet' = DOMAIN kubelet,
           fs'.entry \in {"none", "file", "link"}, fs'.next \in {fs.next, fs.next + 1},
           fs'.self = fs.self \/ fs'.self = NoInode \/ (fs'.self = fs.next /\ fs'.next = fs.next + 1),
           \/ fs'.target = fs.target
           \/ fs'.target = NoInode
           \/ fs'.target = fs.next /\ fs'.next = fs.next + 1 /\ fs'.self = fs.self,
           \/ fs'.volume \subseteq fs.volume
           \/ fs'.volume = fs.volume \cup {fs.next} /\ fs'.next = fs.next + 1 /\ fs'.self = fs.self
    PROVE  WatchInv'
  <2> USE <1>FileStep
  <2>1. Records /\ Inodes /\ Watching /\ Entered /\ Matching /\ Places /\ fs.next \in Nat \ {0}
    BY DEF WatchInv, Inodes
  <2>2. Records' /\ Places' /\ Entered'
    BY <2>1 DEF Records, Places, Entered
  <2>3. 1 .. (fs.next - 1) \subseteq 1 .. (fs'.next - 1) /\ 0 .. (fs.next - 1) \subseteq 0 .. (fs'.next - 1)
    BY <2>1, SMTT(60)
  <2>4. fs.next \notin 1 .. (fs.next - 1) /\ fs.next # NoInode /\ fs.next # ConfigPath /\ fs.next # DirPath
    BY <2>1, SMTT(60) DEF NoInode, ConfigPath, DirPath
  <2>5. fs.next + 1 = fs'.next => fs.next \in 1 .. (fs'.next - 1)
    BY <2>1, SMTT(60)
  <2>6. fs'.next \in Nat \ {0}
    BY <2>1, SMTT(60)
  <2>7. fs'.volume \subseteq 1 .. (fs'.next - 1) /\ fs'.self \notin fs'.volume
    <3>1. NoInode \notin 1 .. (fs'.next - 1)
      BY SMTT(60) DEF NoInode
    <3>2. fs'.volume \subseteq 1 .. (fs'.next - 1)
      BY <2>1, <2>3, <2>5 DEF Inodes
    <3> QED
      BY <2>1, <2>4, <3>1, <3>2 DEF Inodes
  <2>8. fs'.self # NoInode => fs'.self # fs'.target
    BY <2>1, <2>4 DEF Inodes
  <2>9. loader.real # fs'.self
    BY <2>1, <2>4, SMTT(60) DEF Inodes, NoInode, ConfigPath
  <2>10. Inodes'
    BY <2>1, <2>3, <2>5, <2>6, <2>7, <2>8, <2>9 DEF Inodes
  <2>11. Watching'
    <3>1. Kernel(ino)'
      BY DEF Less, Kernel
    <3> QED
      BY <2>1, <2>3, <3>1 DEF Less, Watching
  <2>12. ASSUME NEW w \in Entries
         PROVE  /\ w.wd \in 1 .. (ino'.next - 1)
                /\ w.path \in {DirPath, ConfigPath} \cup 1 .. (fs'.next - 1) /\ w.path # fs'.self
                /\ w.path \in fs'.volume => w.wd \in DOMAIN ino'.watch
                /\ w.wd \in DOMAIN ino'.watch =>
                      IF w.path = ConfigPath THEN ino'.watch[w.wd] # Dir /\ ino'.watch[w.wd] \notin fs'.volume
                      ELSE ino'.watch[w.wd] = w.path
    <3>1. /\ w.wd \in 1 .. (ino.next - 1)
          /\ w.path \in {DirPath, ConfigPath} \cup 1 .. (fs.next - 1) /\ w.path # fs.self
          /\ w.path \in fs.volume => w.wd \in DOMAIN ino.watch
          /\ w.wd \in DOMAIN ino.watch =>
                IF w.path = ConfigPath THEN ino.watch[w.wd] # Dir /\ ino.watch[w.wd] \notin fs.volume
                ELSE ino.watch[w.wd] = w.path
      BY <2>1 DEF Matching
    <3>2. w.path # fs.next /\ w.path # NoInode
      BY <2>4, <3>1, SMTT(60) DEF NoInode, ConfigPath, DirPath
    <3>3. w.path \in fs'.volume => w.wd \in DOMAIN ino'.watch
      <4> SUFFICES ASSUME w.path \in fs'.volume PROVE w.wd \in DOMAIN ino'.watch
        OBVIOUS
      <4>1. w.path \in fs.volume
        BY <3>2
      <4>2. w.path # ConfigPath
        BY <2>1, <4>1, SMTT(60) DEF Inodes, ConfigPath
      <4> QED
        BY <3>1, <4>1, <4>2 DEF Less
    <3>4. w.wd \in DOMAIN ino'.watch =>
             w.wd \in DOMAIN ino.watch /\ ino'.watch[w.wd] = ino.watch[w.wd] /\ ino.watch[w.wd] # fs.next
      BY <2>1, <2>4, SMTT(60) DEF Less, Watching
    <3> QED
      BY <2>3, <3>1, <3>2, <3>3, <3>4 DEF Less
  <2>13. \A v \in DOMAIN ino'.watch : \E w \in Entries : w.wd = v
    BY <2>1 DEF Less, Matching
  <2>14. Matching'
    BY <2>12, <2>13 DEF Matching, Entries
  <2> QED
    BY <2>2, <2>10, <2>11, <2>14 DEF WatchInv
<1>1. Records /\ Inodes /\ Kernel(ino) /\ fs.next \in Nat \ {0} /\ fs.next # NoInode /\ fs.self # Dir
  BY SMTT(60) DEF WatchInv, Inodes, NoInode, Dir, Watching
<1>2. UNCHANGED <<setting, watchers, loader, runtime_config>>
  <2>1. \A f : Op(f) => UNCHANGED <<setting, watchers, loader, runtime_config>>
    BY DEF Op
  <2> QED
    BY <2>1 DEF Environment, CreateFile, MoveFileAway, DeleteFile, MoveDirectory, CreateLink, DeleteLink, RemoveOld,
       WriteFile, MoveFileIn, Publish
<1>3. CASE CreateFile
  <2>1. fs' = [WithFile(Empty) EXCEPT !.ops = @ + 1] /\ kubelet' = kubelet
    BY <1>3 DEF CreateFile, Op
  <2>2. Less({})
    BY <1>3, RaisedLess DEF CreateFile, Masks, Names
  <2> QED
    BY <1>1, <1>2, <2>1, <2>2, FileOps, <1>FileStep
<1>4. ASSUME NEW c, WriteFile(c)
      PROVE  WatchInv'
  <2>1. fs' = [fs EXCEPT !.content[fs.self] = c, !.ops = @ + 1] /\ kubelet' = kubelet
    BY <1>1, <1>4 DEF WriteFile, Op, Records
  <2>2. Less({})
    BY <1>4, RaisedLess DEF WriteFile, Masks, Names
  <2> QED
    BY <1>1, <1>2, <2>1, <2>2, FileOps, <1>FileStep DEF Inodes
<1>5. ASSUME NEW c, MoveFileIn(c)
      PROVE  WatchInv'
  <2>1. fs' = [WithFile(c) EXCEPT !.ops = @ + 1] /\ kubelet' = kubelet
    BY <1>5 DEF MoveFileIn, Op
  <2>2. fs'.volume = fs.volume
    BY <1>1, <2>1 DEF WithFile, Records
  <2>3. CASE fs.entry = "file"
    <3>1. Less({fs.self})
      BY <1>5, <2>3, GoneLess DEF MoveFileIn
    <3>2. \A i \in {fs.self} : i \notin fs'.volume
      BY <1>1, <2>2 DEF Inodes
    <3> QED
      BY <1>1, <1>2, <2>1, <3>1, <3>2, FileOps, <1>FileStep
  <2>4. CASE fs.entry # "file"
    <3>1. ino' = ino
      BY <1>5, <2>4 DEF MoveFileIn
    <3>2. Less({})
      BY <1>1, <3>1 DEF Less
    <3> QED
      BY <1>1, <1>2, <2>1, <3>2, FileOps, <1>FileStep
  <2> QED
    BY <2>3, <2>4
<1>6. CASE MoveFileAway
  <2>1. fs' = [WithoutFile EXCEPT !.ops = @ + 1] /\ kubelet' = kubelet
    BY <1>6 DEF MoveFileAway, Op
  <2>2. Less({})
    BY <1>6, RaisedLess DEF MoveFileAway, Masks, Names
  <2> QED
    BY <1>1, <1>2, <2>1, <2>2, FileOps, <1>FileStep
<1>7. CASE DeleteFile
  <2>1. fs' = [WithoutFile EXCEPT !.ops = @ + 1] /\ kubelet' = kubelet
    BY <1>7 DEF DeleteFile, Op
  <2>2. Less({fs.self})
    BY <1>1, <1>7, UnlinkLess DEF DeleteFile
  <2>3. \A i \in {fs.self} : i \notin fs'.volume
    BY <1>1, <2>1, FileOps DEF Inodes
  <2> QED
    BY <1>1, <1>2, <2>1, <2>2, <2>3, FileOps, <1>FileStep
<1>8. CASE MoveDirectory
  <2>1. fs' = [fs EXCEPT !.ops = @ + 1] /\ kubelet' = kubelet
    BY <1>8 DEF MoveDirectory, Op
  <2>2. Less({})
    BY <1>8, RaisedLess DEF MoveDirectory, Masks, Names
  <2> QED
    BY <1>1, <1>2, <2>1, <2>2, FileOps, <1>FileStep DEF Inodes
<1>9. ASSUME NEW c, Publish(c)
      PROVE  WatchInv'
  <2>1. ino' = Raise(ino, Dir, "CREATE", "version")
    BY <1>1, <1>9, PublishOps
  <2>2. Less({})
    BY <2>1, RaisedLess DEF Masks, Names
  <2>3. /\ DOMAIN fs' = DOMAIN fs /\ fs'.entry = fs.entry /\ fs'.self = fs.self /\ fs'.next = fs.next + 1
        /\ fs'.target \in {NoInode, fs.next} /\ fs'.volume \in {fs.volume, fs.volume \cup {fs.next}}
        /\ DOMAIN kubelet' = DOMAIN kubelet
    BY <1>1, <1>9, PublishOps
  <2> QED
    BY <1>1, <1>2, <2>2, <2>3, <1>FileStep DEF Inodes
<1>10. CASE CreateLink
  <2>1. DOMAIN kubelet' = DOMAIN kubelet
    BY <1>1, <1>10, LinkOps
  <2>2. CASE fs.entry = "link"
    <3>1. fs' = fs /\ ino' = ino
      BY <1>10, <2>2 DEF CreateLink
    <3>2. Less({})
      BY <1>1, <3>1 DEF Less
    <3> QED
      BY <1>1, <1>2, <2>1, <3>1, <3>2, <1>FileStep DEF Inodes
  <2>3. CASE fs.entry # "link"
    <3>1. Less({})
      BY <1>1, <1>10, <2>3, CreateLinkOps, RaisedLess DEF Masks, Names
    <3> QED
      BY <1>1, <1>2, <1>10, <2>1, <2>3, <3>1, CreateLinkOps, <1>FileStep
  <2> QED
    BY <2>2, <2>3
<1>11. CASE DeleteLink
  <2>1. fs' = WithoutFile /\ DOMAIN kubelet' = DOMAIN kubelet
    BY <1>1, <1>11, LinkOps DEF DeleteLink
  <2>2. Less({fs.self})
    BY <1>1, <1>11, UnlinkLess DEF DeleteLink
  <2>3. \A i \in {fs.self} : i \notin fs'.volume
    BY <1>1, <2>1, FileOps DEF Inodes
  <2> QED
    BY <1>1, <1>2, <2>1, <2>2, <2>3, FileOps, <1>FileStep
<1>12. CASE RemoveOld
  <2>1. Less({kubelet.old})
    BY <1>1, <1>12, RemoveOldOps, GoneLess
  <2>2. /\ DOMAIN fs' = DOMAIN fs /\ fs'.entry = fs.entry /\ fs'.self = fs.self /\ fs'.next = fs.next
        /\ fs'.target = fs.target /\ fs'.volume = fs.volume \ {kubelet.old} /\ DOMAIN kubelet' = DOMAIN kubelet
    BY <1>1, <1>12, RemoveOldOps
  <2> QED
    BY <1>1, <1>2, <2>1, <2>2, <1>FileStep DEF Inodes
<1> QED
  BY <1>3, <1>4, <1>5, <1>6, <1>7, <1>8, <1>9, <1>10, <1>11, <1>12 DEF Environment

\* Every step of the thread, and Stop, keeps WatchInv.
LEMMA LoaderKeepsWatchInv ==
    ASSUME WatchInv, Loader \/ Stop
    PROVE  WatchInv'
\* A watcher that is added keeps the watches and the entries matched.
<1>AddedKeeps.
    ASSUME NEW path \in Paths, path # fs.self, NEW tag, NEW wd, Added(path, tag, wd),
           Lookup(path) # NoInode, UNCHANGED <<setting, fs>>
    PROVE  Watching' /\ Entered' /\ Matching'
  <2> USE <1>AddedKeeps
  <2> DEFINE e == [wd |-> wd, path |-> path, tag |-> tag]
  <2>1. Inodes /\ Watching /\ Matching
    BY DEF WatchInv
  <2>2. e.wd = wd /\ e.path = path
    OBVIOUS
  <2>3. Entries' = {v \in Entries : v.path # path} \cup {e}
    BY DEF Added, Entries
  <2> HIDE DEF e
  <2>4. Kernel(ino)' /\ Entered'
    BY DEF Added, Kernel, Entered
  <2>5. Watching'
    <3>1. \A v \in DOMAIN ino'.watch : ino'.watch[v] \in 0 .. (fs.next - 1)
      BY <2>1, LookupFinds, SMTT(60) DEF Added, Watching
    <3> QED
      BY <2>4, <3>1 DEF Watching
  <2>6. ASSUME NEW w \in Entries'
        PROVE  /\ w.wd \in 1 .. (ino'.next - 1) /\ w.path \in Paths /\ w.path # fs.self
               /\ w.path \in fs.volume => w.wd \in DOMAIN ino'.watch
               /\ w.wd \in DOMAIN ino'.watch =>
                     IF w.path = ConfigPath THEN ino'.watch[w.wd] # Dir /\ ino'.watch[w.wd] \notin fs.volume
                     ELSE ino'.watch[w.wd] = w.path
    <3>1. CASE w = e
      <4>1. w.wd = wd /\ w.path = path /\ wd \in DOMAIN ino'.watch /\ ino'.watch[wd] = Lookup(path)
        BY <2>2, <3>1 DEF Added
      <4>2. wd \in 1 .. (ino'.next - 1)
        BY <4>1 DEF Added, Kernel
      <4> QED
        BY <2>1, <4>1, <4>2, LookupFinds, SMTT(60)
    <3>2. CASE w \in Entries /\ w.path # path
      <4>1. w.wd # wd
        BY <3>2 DEF Added
      <4>2. w.wd \in 1 .. (ino'.next - 1)
        <5>1. w.wd \in 1 .. (ino.next - 1) /\ ino.next \in Nat /\ ino'.next \in Nat /\ ino.next <= ino'.next
          BY <2>1, <3>2 DEF Matching, Added, Kernel, Watching
        <5> QED
          BY <5>1, SMTT(60)
      <4>3. w.path \in Paths /\ w.path # fs.self
        BY <2>1, <3>2 DEF Matching, Paths
      <4>4. w.wd \in DOMAIN ino'.watch => w.wd \in DOMAIN ino.watch /\ ino'.watch[w.wd] = ino.watch[w.wd]
        BY <4>1 DEF Added
      <4>5. w.wd \in DOMAIN ino.watch => w.wd \in DOMAIN ino'.watch
        <5>1. \A v \in Entries : v.wd = w.wd => v = w
          BY <3>2, EntriesDiffer DEF WatchInv, Entered, Entries
        <5> QED
          BY <3>2, <5>1, SMTT(60) DEF Added
      <4> QED
        BY <2>1, <3>2, <4>2, <4>3, <4>4, <4>5 DEF Matching
    <3> QED
      BY <2>3, <3>1, <3>2
  <2>7. ASSUME NEW v \in DOMAIN ino'.watch
        PROVE  \E w \in Entries' : w.wd = v
    <3>1. CASE v = wd
      BY <2>2, <2>3, <3>1
    <3>2. CASE v # wd
      <4>1. v \in DOMAIN ino.watch
        BY <3>2 DEF Added
      <4>2. PICK w \in Entries : w.wd = v
        BY <2>1, <4>1 DEF Matching
      <4>3. w.path # path
        BY <3>2, <4>2 DEF Added
      <4> QED
        BY <2>3, <4>2, <4>3
    <3> QED
      BY <3>1, <3>2
  <2>8. Matching'
    BY <2>6, <2>7 DEF Matching, Paths
  <2> QED
    BY <2>4, <2>5, <2>8
\* A watcher that is removed keeps the watches and the entries matched.
<1>RemovedKeeps.
    ASSUME NEW path, Removed(path), UNCHANGED <<setting, fs>>
    PROVE  Watching' /\ Entered' /\ Matching'
  <2> USE <1>RemovedKeeps
  <2>1. Watching /\ Matching
    BY DEF WatchInv
  <2>2. Kernel(ino)' /\ Entered'
    BY DEF Removed, Kernel, Entered
  <2>3. Watching'
    BY <2>1, <2>2 DEF Removed, Watching
  <2>4. Entries' = {v \in Entries : v.path # path}
    BY DEF Removed, Entries
  <2>5. ASSUME NEW w \in Entries'
        PROVE  /\ w.wd \in 1 .. (ino'.next - 1) /\ w.path \in Paths /\ w.path # fs.self
               /\ w.path \in fs.volume => w.wd \in DOMAIN ino'.watch
               /\ w.wd \in DOMAIN ino'.watch =>
                     IF w.path = ConfigPath THEN ino'.watch[w.wd] # Dir /\ ino'.watch[w.wd] \notin fs.volume
                     ELSE ino'.watch[w.wd] = w.path
    <3>1. w \in Entries /\ w.path # path
      BY <2>4
    <3>2. w.wd \in DOMAIN ino.watch => w.wd \in DOMAIN ino'.watch
      <4>1. \A v \in Entries : v.wd = w.wd => v = w
        BY <3>1, EntriesDiffer DEF WatchInv, Entered, Entries
      <4> QED
        BY <3>1, <4>1 DEF Removed
    <3>3. w.wd \in DOMAIN ino'.watch => w.wd \in DOMAIN ino.watch /\ ino'.watch[w.wd] = ino.watch[w.wd]
      BY DEF Removed
    <3>4. ino'.next = ino.next
      BY DEF Removed
    <3> QED
      BY <2>1, <3>1, <3>2, <3>3, <3>4 DEF Matching, Paths
  <2>6. ASSUME NEW v \in DOMAIN ino'.watch
        PROVE  \E w \in Entries' : w.wd = v
    <3>1. v \in DOMAIN ino.watch /\ \A w \in Entries : w.path = path => w.wd # v
      BY DEF Removed
    <3>2. PICK w \in Entries : w.wd = v
      BY <2>1, <3>1 DEF Matching
    <3> QED
      BY <2>4, <3>1, <3>2
  <2>7. Matching'
    BY <2>5, <2>6 DEF Matching, Paths
  <2> QED
    BY <2>2, <2>3, <2>7
\* A step of the thread that leaves the watches.
<1>PlainStep.
    ASSUME UNCHANGED <<setting, fs, kubelet, watchers>>,
           ino'.watch = ino.watch, ino'.next = ino.next, Kernel(ino'), DOMAIN loader' = DOMAIN loader,
           loader'.pc \in {"start", "loop", "handle", "ended", "crashed"},
           loader'.real \in {ConfigPath} \cup 1 .. (fs.next - 1), loader'.real # fs.self,
           runtime_config' \in Content \cup {NoConfig}
    PROVE  WatchInv'
  <2> USE <1>PlainStep
  <2>1. Records' /\ Inodes' /\ Places'
    BY DEF WatchInv, Records, Inodes, Places
  <2>2. Watching' /\ Entered'
    BY DEF WatchInv, Watching, Entered, Kernel
  <2>3. Matching'
    BY DEF WatchInv, Matching, Entries
  <2> QED
    BY <2>1, <2>2, <2>3 DEF WatchInv
\* One that adds a watcher, or removes one.
<1>WatcherStep.
    ASSUME UNCHANGED <<setting, fs, kubelet, runtime_config>>,
           Watching' /\ Entered' /\ Matching', DOMAIN loader' = DOMAIN loader,
           loader'.pc \in {"start", "loop", "handle", "ended", "crashed"}, loader'.real = loader.real
    PROVE  WatchInv'
  BY <1>WatcherStep DEF WatchInv, Records, Inodes, Places
\* AddWatcher keeps the watches and the entries matched, whether the path exists or not.
<1>AddWatcherStep.
    ASSUME NEW path \in Paths, path # fs.self, NEW tag \in TagNames, AddWatcher(path, tag),
           UNCHANGED <<setting, fs>>
    PROVE  Watching' /\ Entered' /\ Matching'
  <2> USE <1>AddWatcherStep
  <2>1. CASE Lookup(path) = NoInode
    <3>1. UNCHANGED <<ino, watchers>>
      BY <2>1 DEF AddWatcher
    <3> QED
      BY <3>1 DEF WatchInv, Watching, Entered, Matching, Entries, Kernel
  <2>2. CASE Lookup(path) # NoInode
    BY <2>2, AddWatcherAdds, <1>AddedKeeps
  <2> QED
    BY <2>1, <2>2
\* The steps of the handlers that add and remove no watcher.
<1>HandlerSteps.
    ASSUME IfLink \/ Canonical \/ Load \/ Parse \/ IfExists \/ Replaced \/ RealReplaced \/ Reset \/ Handled
              \/ NotWatched \/ Stopped \/ Stop
    PROVE  WatchInv'
  <2> USE <1>HandlerSteps
  <2>1. Records /\ Inodes /\ Places /\ Kernel(ino)
    BY DEF WatchInv, Watching
  <2>2. UNCHANGED <<setting, fs, kubelet, ino, watchers>>
    BY DEF IfLink, Canonical, Load, Parse, IfExists, Replaced, RealReplaced, Reset, Handled, NotWatched, Stopped, Stop
  <2>3. runtime_config' \in Content \cup {NoConfig}
    <3>1. CASE UNCHANGED runtime_config
      BY <2>1, <3>1 DEF Places
    <3>2. CASE Parse
      BY <2>1, <3>2 DEF Parse, Places
    <3>3. CASE Reset
      BY <3>3 DEF Reset
    <3> QED
      BY <3>1, <3>2, <3>3 DEF IfLink, Canonical, Load, IfExists, Replaced, RealReplaced, Handled, NotWatched, Stopped, Stop
  <2>4. CASE \E steps : Continue(steps)
    <3>1. DOMAIN loader' = DOMAIN loader /\ loader'.pc = loader.pc /\ loader'.real = loader.real
      BY <2>1, <2>4, ContinueKeeps
    <3> QED
      BY <2>1, <2>2, <2>3, <3>1, <1>PlainStep DEF Places, Inodes
  <2>5. CASE Canonical
    <3>1. /\ DOMAIN loader' = DOMAIN loader /\ loader'.pc \in {loader.pc, "crashed"}
          /\ loader'.real = loader.real \/ loader'.real = ConfigPath
             \/ (fs.entry = "link" /\ loader'.real = fs.target /\ fs.target # NoInode)
      <4>1. CASE Exists
        BY <2>1, <2>5, <4>1 DEF Canonical, Records, Exists, Real
      <4>2. CASE ~Exists
        BY <2>1, <2>5, <4>2 DEF Canonical, Records
      <4> QED
        BY <4>1, <4>2
    <3>2. loader'.real \in {ConfigPath} \cup 1 .. (fs.next - 1) /\ loader'.real # fs.self
      BY <2>1, <3>1, SMTT(60) DEF Inodes, ConfigPath, NoInode
    <3>3. loader'.pc \in {"start", "loop", "handle", "ended", "crashed"}
      BY <2>1, <3>1 DEF Places
    <3> QED
      BY <2>1, <2>2, <2>3, <3>1, <3>2, <3>3, <1>PlainStep
  <2>6. CASE Handled \/ NotWatched \/ Stopped \/ Stop
    <3>1. /\ DOMAIN loader' = DOMAIN loader /\ loader'.pc \in {loader.pc, "loop", "ended"}
          /\ loader'.real = loader.real
      BY <2>1, <2>6 DEF Handled, NotWatched, Stopped, Stop, Records
    <3>2. loader'.pc \in {"start", "loop", "handle", "ended", "crashed"}
      BY <2>1, <3>1 DEF Places
    <3> QED
      BY <2>1, <2>2, <2>3, <3>1, <3>2, <1>PlainStep DEF Inodes
  <2> QED
    BY <2>4, <2>5, <2>6 DEF IfLink, Load, Parse, IfExists, Replaced, RealReplaced, Reset
<1>1. Records /\ Inodes /\ Places
  BY DEF WatchInv
<1>2. ConfigPath \in Paths /\ DirPath \in Paths /\ ConfigPath # fs.self /\ DirPath # fs.self
  BY <1>1, SMTT(60) DEF Paths, Inodes, ConfigPath, DirPath, NoInode
<1>3. CASE Start
  <2>1. Watching' /\ Entered' /\ Matching'
    BY <1>2, <1>3, <1>AddWatcherStep DEF Start, TagNames
  <2>2. DOMAIN loader' = DOMAIN loader /\ loader'.pc = "handle" /\ loader'.real = loader.real
    BY <1>1, <1>3 DEF Start, Records
  <2> QED
    BY <1>3, <2>1, <2>2, <1>WatcherStep DEF Start
<1>4. CASE AddConfig
  <2>1. Watching' /\ Entered' /\ Matching'
    BY <1>2, <1>4, <1>AddWatcherStep DEF AddConfig, TagNames
  <2>2. DOMAIN loader' = DOMAIN loader /\ loader'.pc = loader.pc /\ loader'.real = loader.real
    BY <1>1, <1>4, ContinueKeeps DEF AddConfig
  <2> QED
    BY <1>1, <1>4, <2>1, <2>2, <1>WatcherStep DEF AddConfig, Places
<1>5. CASE AddReal
  <2>1. Watching' /\ Entered' /\ Matching'
    BY <1>1, <1>5, <1>AddWatcherStep DEF AddReal, TagNames, Inodes, Paths
  <2>2. DOMAIN loader' = DOMAIN loader /\ loader'.pc = loader.pc /\ loader'.real = loader.real
    BY <1>1, <1>5, ContinueKeeps DEF AddReal
  <2> QED
    BY <1>1, <1>5, <2>1, <2>2, <1>WatcherStep DEF AddReal, Places
<1>6. CASE RemoveConfig \/ RemoveReal
  <2>1. \E path : RemoveWatcher(FindPath(path)) /\ UNCHANGED <<setting, fs>>
    BY <1>6 DEF RemoveConfig, RemoveReal
  <2>2. Watching' /\ Entered' /\ Matching'
    BY <2>1, RemoveWatcherRemoves, <1>RemovedKeeps
  <2>3. DOMAIN loader' = DOMAIN loader /\ loader'.pc = loader.pc /\ loader'.real = loader.real
    BY <1>1, <1>6, ContinueKeeps DEF RemoveConfig, RemoveReal
  <2> QED
    BY <1>1, <1>6, <2>2, <2>3, <1>WatcherStep DEF RemoveConfig, RemoveReal, Places
<1>7. CASE HandleEvent
  <2>1. /\ UNCHANGED <<setting, fs, kubelet, watchers, runtime_config>>
        /\ Kernel(ino') /\ ino'.watch = ino.watch /\ ino'.next = ino.next
        /\ DOMAIN loader' = DOMAIN loader /\ loader'.real = loader.real
        /\ loader'.pc \in {loader.pc, "ended", "handle"}
    BY <1>7, EventTaken
  <2> QED
    BY <1>1, <2>1, <1>PlainStep DEF Places, Inodes
<1> QED
  BY <1>3, <1>4, <1>5, <1>6, <1>7, <1>HandlerSteps DEF Loader

\* The watches in the kernel and the entries of watchers_ match, in every setting
\* (Inotify.cpp:14-62).
THEOREM WatchInvHolds == LoaderSpec => []WatchInv
<1>1. LoaderInit => WatchInv
  BY WatchInvInit
<1>2. WatchInv /\ [LoaderNext]_loaderVars => WatchInv'
  BY WatchInvStays, EnvironmentKeepsWatchInv, LoaderKeepsWatchInv DEF LoaderNext
<1> QED
  BY <1>1, <1>2, PTL DEF LoaderSpec

\* Every watch in the kernel has its watcher, one for a path and one for a descriptor
\* (Inotify.cpp:14-62), whatever is done to the file and however many events are dropped:
\* the events of a watched inode never go to a watcher that is not there.
THEOREM WatchesAreConsistent == LoaderSpec => []WatchesConsistent
<1>1. WatchInv => WatchesConsistent
  <2> SUFFICES ASSUME WatchInv PROVE WatchesConsistent
    OBVIOUS
  <2>1. LoaderTypeOK
    <3>1. fs.self \in {NoInode} \cup 1 .. fs.next
      BY SMTT(60) DEF WatchInv, Inodes
    <3> QED
      BY <3>1 DEF WatchInv, LoaderTypeOK, Inodes, Places, Entered, OneEach, Watching, Kernel
  <2>2. NoLeakedWatch
    BY SMTT(60) DEF WatchInv, Matching, NoLeakedWatch, FindWd, Entries, Elements
  <2> QED
    BY <2>1, <2>2 DEF WatchesConsistent
<1> QED
  BY <1>1, WatchInvHolds, PTL

=============================================================================
