---------------------------- MODULE LoaderProofs ----------------------------
(***************************************************************************)
(* Proof about ConfigLoader, for every set of settings and any number of   *)
(* changes of the file: with all events handled the configuration is that  *)
(* of the file, which is watched (LoaderConverges).                        *)
(***************************************************************************)
EXTENDS LoaderWatchProofs

\* Zenon is the default prover here; a leaf that needs arithmetic, records or
\* function updates names SMT instead.
USE ZenonT(60)

-----------------------------------------------------------------------------
(***************************************************************************)
(* What is still to come, in the settings of Converged.                    *)
(***************************************************************************)

Calm == setting.unseen = "never" /\ ~setting.racing /\ ~ino.dropped

\* An event of entry w is in the queue.
Told(w, masks) == \E mask \in masks : Has(ino.queue, Event(w.wd, mask, NoName))

ConfigTold(masks) == \E w \in Entries : w.path = ConfigPath /\ Told(w, masks)

RealTold(masks) == \E w \in Entries : w.path \notin {DirPath, ConfigPath} /\ Told(w, masks)

\* The handlers, from any of their steps on.
Adding == {<<"add_config", "link?", "load">>, <<"add_config", "load", "link?">>, <<"replaced">>, <<"exists?">>}

Resolving == {<<"canonical", "add_real", "load">>, <<"canonical", "add_real">>}

Linking == {<<"link?", "load">>, <<"load", "link?">>, <<"parse", "link?">>, <<"link?">>, <<"real_replaced">>}

AddingReal == {<<"add_real", "load">>, <<"add_real">>}

Loading == {<<"load">>, <<"parse">>}

Removing == {<<"remove_config", "reset">>, <<"remove_real", "reset">>, <<"reset">>}

Todo == {<< >>} \cup Adding \cup Resolving \cup Linking \cup AddingReal \cup Loading \cup Removing

WillLink == Adding \cup Linking \cup Resolving \cup AddingReal

WillLoad ==
    Adding \cup Loading
        \cup {<<"link?", "load">>, <<"load", "link?">>, <<"parse", "link?">>, <<"canonical", "add_real", "load">>,
              <<"real_replaced">>, <<"add_real", "load">>}

\* Those of an event of a file that the link has pointed to.
OfReal == {<<"real_replaced">>, <<"remove_real", "reset">>}

WillReset == Removing \cup {<<"replaced">>, <<"real_replaced">>}

OldWatched == kubelet.pc \in {"link", "clean"} /\ kubelet.old # NoInode /\ Watches(kubelet.old)

Running == loader.pc \in {"handle", "loop"}

Program ==
    /\ loader.todo \in Todo /\ (loader.pc # "handle" => loader.todo = << >>)
    /\ loader.pc # "crashed"
    /\ loader.todo \in Resolving \cup AddingReal => fs.entry = "link"
    /\ loader.todo \in AddingReal => loader.real = fs.target
    /\ loader.todo \in OfReal => loader.w # DirPath

Tagged ==
    /\ \A w \in Entries : /\ w.path = DirPath <=> w.tag = "PARENT_PATH"
                          /\ w.path = ConfigPath <=> w.tag = "CONFIG_FILE"
    /\ loader.pc = "start" => watchers = << >> /\ ino.next = 1 /\ ino.queue = << >> /\ kubelet.pc = "idle"
    /\ Running => /\ 1 \in DOMAIN ino.watch /\ ino.watch[1] = Dir
                  /\ \E w \in Entries : w.path = DirPath /\ w.wd = 1

Deployed ==
    /\ setting.deployment = "file" =>
          /\ fs.entry # "link" /\ kubelet.pc = "idle"
          /\ loader.todo # <<"real_replaced">>
          /\ \A w \in Entries : w.path \in {DirPath, ConfigPath}
    /\ setting.deployment = "configmap" =>
          /\ fs.entry # "file"
          /\ fs.target # NoInode => fs.target \in fs.volume
          /\ fs.entry = "link" => (fs.target # NoInode <=> kubelet.pc # "unlink")
          /\ fs.entry = "none" => (fs.target # NoInode <=> kubelet.pc = "link")
    /\ fs.self # NoInode <=> fs.entry # "none"
    /\ kubelet.pc \in {"idle", "link", "unlink", "clean"}
    /\ kubelet.pc = "unlink" => fs.entry = "link"
    /\ kubelet.pc # "idle" /\ kubelet.old # NoInode => kubelet.old \in fs.volume /\ kubelet.old # fs.target
    /\ kubelet.pc \in {"link", "unlink"} =>
          loader.todo = << >> /\ \A e \in Events : Has(ino.queue, e) => e = Versioned

\* No file: its configuration is dropped, or will be.
Absent ==
    loader.pc # "ended" /\ ~Exists =>
        \/ runtime_config = NoConfig \/ kubelet.pc = "unlink" \/ loader.todo \in WillReset
        \/ Has(ino.queue, Deleted) \/ ConfigTold(SelfGone)

\* A file: what was dropped for an earlier one is added again.
Fresh ==
    Running /\ Exists => /\ CreatedLast(ino.queue)
                         /\ loader.todo \in Removing => Has(ino.queue, Created)

\* The file is watched, or will be.
SelfWatched ==
    Running /\ Exists =>
        \/ Watches(fs.self) \/ loader.todo \in Adding \/ Has(ino.queue, Created) \/ ConfigTold(SelfGone)

\* So is the file that the link points to.
RealWatched ==
    Running /\ Exists /\ fs.entry = "link" =>
        \/ Watches(fs.target) \/ loader.todo \in WillLink
        \/ Has(ino.queue, Created) \/ OldWatched \/ RealTold(SelfGone)

\* What the file holds is the configuration, or will be.
Current ==
    Running /\ Exists /\ fs.content[Real] \in Content =>
        \/ runtime_config = fs.content[Real] \/ loader.todo \in WillLoad
        \/ Has(ino.queue, Created) \/ ConfigTold(SelfGone \cup {"MODIFY"})
        \/ fs.entry = "link" /\ (OldWatched \/ RealTold(SelfGone))

CalmInv == Program /\ Tagged /\ Deployed /\ Absent /\ Fresh /\ SelfWatched /\ RealWatched /\ Current

-----------------------------------------------------------------------------
(***************************************************************************)
(* The steps of the handlers, in the settings of Converged.                *)
(***************************************************************************)

\* The first step of what is left tells the others.
LEMMA TodoHeads ==
    ASSUME NEW t \in Todo, t # << >>
    PROVE  /\ Head(t) = "add_config" => t \in {<<"add_config", "link?", "load">>, <<"add_config", "load", "link?">>}
           /\ Head(t) = "replaced" => t = <<"replaced">>
           /\ Head(t) = "exists?" => t = <<"exists?">>
           /\ Head(t) = "canonical" => t \in {<<"canonical", "add_real", "load">>, <<"canonical", "add_real">>}
           /\ Head(t) = "link?" => t \in {<<"link?", "load">>, <<"link?">>}
           /\ Head(t) = "load" => t \in {<<"load", "link?">>, <<"load">>}
           /\ Head(t) = "parse" => t \in {<<"parse", "link?">>, <<"parse">>}
           /\ Head(t) = "real_replaced" => t = <<"real_replaced">>
           /\ Head(t) = "add_real" => t \in {<<"add_real", "load">>, <<"add_real">>}
           /\ Head(t) = "remove_config" => t = <<"remove_config", "reset">>
           /\ Head(t) = "remove_real" => t = <<"remove_real", "reset">>
           /\ Head(t) = "reset" => t = <<"reset">>
BY SMTT(60) DEF Todo, Adding, Resolving, Linking, AddingReal, Loading, Removing

\* What is left, with none of the steps that rely on what an earlier one found.
Plain(u) == u \in Todo /\ u \notin Removing /\ u \notin Resolving /\ u \notin AddingReal /\ u \notin OfReal

\* The class of what is left is told by its first step.
LEMMA ClassHeads ==
    ASSUME NEW t
    PROVE  /\ t \in Removing => t # << >> /\ Head(t) \in {"remove_config", "remove_real", "reset"}
           /\ t \in Resolving => t # << >> /\ Head(t) = "canonical"
           /\ t \in AddingReal => t # << >> /\ Head(t) = "add_real"
           /\ t \in OfReal => t # << >> /\ Head(t) \in {"real_replaced", "remove_real"}
           /\ t \in WillReset => t # << >> /\ Head(t) \in {"remove_config", "remove_real", "reset", "replaced", "real_replaced"}
           /\ t \in Adding => t # << >> /\ Head(t) \in {"add_config", "replaced", "exists?"}
BY SMTT(60) DEF WillReset, OfReal, Adding, Resolving, Linking, AddingReal, Loading, Removing

\* The classes of the handlers whose steps rely on nothing.
LEMMA PlainTodo ==
    /\ Plain(<< >>) /\ << >> \notin WillReset
    /\ \A u \in {<<"link?", "load">>, <<"load", "link?">>, <<"parse", "link?">>} :
          Plain(u) /\ u \in WillLink /\ u \in WillLoad /\ u # << >>
    /\ \A u \in {<<"load">>, <<"parse">>} : Plain(u) /\ u \in WillLoad /\ u # << >>
    /\ Plain(<<"link?">>) /\ <<"link?">> \in WillLink /\ <<"link?">> # << >>
    /\ \A u \in {<<"add_config", "link?", "load">>, <<"add_config", "load", "link?">>} :
          Plain(u) /\ u \in Adding /\ u \in WillLink /\ u \in WillLoad /\ u # << >>
<1>1. \A a, b, c : Head(<<a, b, c>>) = a /\ <<a, b, c>> # << >>
  BY SMTT(60)
<1>2. \A a, b : Head(<<a, b>>) = a /\ <<a, b>> # << >>
  BY SMTT(60)
<1>3. \A a : Head(<<a>>) = a /\ <<a>> # << >>
  BY SMTT(60)
<1>4. Plain(<< >>) /\ << >> \notin WillReset
  BY ClassHeads DEF Plain, Todo
<1>5. \A u \in {<<"link?", "load">>, <<"load", "link?">>, <<"parse", "link?">>, <<"load">>, <<"parse">>, <<"link?">>,
                <<"add_config", "link?", "load">>, <<"add_config", "load", "link?">>} :
         u # << >> /\ Head(u) \in {"link?", "load", "parse", "add_config"}
  BY SMTT(60)
<1>6. \A u \in {<<"link?", "load">>, <<"load", "link?">>, <<"parse", "link?">>, <<"load">>, <<"parse">>, <<"link?">>,
                <<"add_config", "link?", "load">>, <<"add_config", "load", "link?">>} : Plain(u)
  <2>1. \A u \in {<<"link?", "load">>, <<"load", "link?">>, <<"parse", "link?">>, <<"load">>, <<"parse">>, <<"link?">>,
                  <<"add_config", "link?", "load">>, <<"add_config", "load", "link?">>} : u \in Todo
    BY DEF Todo, Adding, Linking, Loading
  <2> QED
    BY <1>5, <2>1, ClassHeads, SMTT(60) DEF Plain
<1>7. \A u \in {<<"link?", "load">>, <<"load", "link?">>, <<"parse", "link?">>} : u \in WillLink /\ u \in WillLoad
  BY DEF WillLink, WillLoad, Linking
<1>8. \A u \in {<<"load">>, <<"parse">>} : u \in WillLoad
  BY DEF WillLoad, Loading
<1>9. <<"link?">> \in WillLink
  BY DEF WillLink, Linking
<1>10. \A u \in {<<"add_config", "link?", "load">>, <<"add_config", "load", "link?">>} :
          u \in Adding /\ u \in WillLink /\ u \in WillLoad
  BY DEF WillLink, WillLoad, Adding
<1> QED
  BY <1>3, <1>4, <1>5, <1>6, <1>7, <1>8, <1>9, <1>10

\* The thread starts with the configuration of the file, or with none.
LEMMA CalmInvInit ==
    ASSUME LoaderInit
    PROVE  CalmInv
<1>1. /\ \/ /\ fs.entry = "none" /\ fs.self = NoInode /\ fs.target = NoInode /\ fs.volume = {}
         \/ /\ setting.deployment = "file"
            /\ fs.entry = "file" /\ fs.self = 1 /\ fs.target = NoInode /\ fs.volume = {}
         \/ /\ setting.deployment # "file"
            /\ fs.entry = "link" /\ fs.self = 2 /\ fs.target = 1 /\ fs.volume = {1}
  BY SMTT(60) DEF LoaderInit
<1>2. loader.pc = "start" /\ loader.todo = << >> /\ watchers = << >> /\ kubelet.pc = "idle"
         /\ ino.queue = << >> /\ ino.next = 1
  BY DEF LoaderInit
<1>3. ~Exists => runtime_config = NoConfig
  BY DEF LoaderInit
<1>4. Entries = {}
  BY <1>2, SMTT(60) DEF Entries, Elements
<1>5. Plain(loader.todo)
  BY <1>2, PlainTodo
<1>6. loader.todo # <<"real_replaced">>
  BY <1>2, SMTT(60)
<1>7. Program
  BY <1>2, <1>5 DEF Program, Plain
<1>8. Tagged
  BY <1>2, <1>4 DEF Tagged, Running
<1>9. Deployed
  BY <1>1, <1>2, <1>4, <1>6, SMTT(60) DEF Deployed, NoInode
<1>10. Absent /\ Fresh /\ SelfWatched /\ RealWatched /\ Current
  BY <1>2, <1>3 DEF Absent, Fresh, SelfWatched, RealWatched, Current, Running
<1> QED
  BY <1>7, <1>8, <1>9, <1>10 DEF CalmInv

\* The parts of the invariant are about the same files, events and watches.
LEMMA SameView ==
    ASSUME UNCHANGED <<fs, kubelet, ino, watchers>>
    PROVE  /\ (Exists' <=> Exists) /\ Real' = Real /\ Entries' = Entries
           /\ \A masks : /\ ConfigTold(masks)' <=> ConfigTold(masks)
                         /\ RealTold(masks)' <=> RealTold(masks)
           /\ (OldWatched' <=> OldWatched) /\ (Watches(fs.self)' <=> Watches(fs.self))
           /\ (Watches(fs.target)' <=> Watches(fs.target))
<1>1. Entries' = Entries
  BY DEF Entries, Elements
<1>2. (Exists' <=> Exists) /\ Real' = Real
  BY DEF Exists, Real
<1>3. \A masks : (ConfigTold(masks)' <=> ConfigTold(masks)) /\ (RealTold(masks)' <=> RealTold(masks))
  BY <1>1 DEF ConfigTold, RealTold, Told
<1>4. (Watches(fs.self)' <=> Watches(fs.self)) /\ (Watches(fs.target)' <=> Watches(fs.target)) /\ (OldWatched' <=> OldWatched)
  BY DEF Watches, OldWatched
<1> QED
  BY <1>1, <1>2, <1>3, <1>4

\* A step that only moves the thread.
LEMMA PlaceStep ==
    ASSUME CalmInv, UNCHANGED <<setting, fs, kubelet, ino, watchers, runtime_config>>,
           loader'.todo = loader.todo, loader'.w = loader.w, loader'.real = loader.real,
           \/ loader'.pc = loader.pc
           \/ loader'.pc = "loop" /\ loader.pc = "handle" /\ loader.todo = << >>
           \/ loader'.pc = "ended" /\ loader.pc \in {"start", "loop"}
    PROVE  CalmInv'
<1> USE SameView DEF CalmInv
<1>1. Program'
  BY DEF Program
<1>2. Tagged'
  BY DEF Tagged, Running
<1>3. Deployed'
  BY DEF Deployed
<1>4. Absent'
  BY DEF Absent
<1>5. Fresh'
  BY DEF Fresh, Running
<1>6. SelfWatched'
  BY DEF SelfWatched, Running
<1>7. RealWatched'
  BY DEF RealWatched, Running
<1>8. Current'
  BY DEF Current, Running
<1> QED
  BY <1>1, <1>2, <1>3, <1>4, <1>5, <1>6, <1>7, <1>8

\* The classes of the other handlers, from any of their steps on.
LEMMA OtherTodo ==
    /\ \A u \in {<<"canonical", "add_real", "load">>, <<"canonical", "add_real">>} :
          u \in Todo /\ u \in Resolving /\ u \in WillLink /\ u \notin Removing /\ u \notin AddingReal /\ u \notin OfReal
    /\ \A u \in {<<"add_real", "load">>, <<"add_real">>} :
          u \in Todo /\ u \in AddingReal /\ u \in WillLink /\ u \notin Removing /\ u \notin Resolving /\ u \notin OfReal
    /\ <<"canonical", "add_real", "load">> \in WillLoad /\ <<"add_real", "load">> \in WillLoad
    /\ \A u \in {<<"remove_config", "reset">>, <<"remove_real", "reset">>, <<"reset">>} :
          u \in Todo /\ u \in Removing /\ u \in WillReset /\ u \notin Resolving /\ u \notin AddingReal
    /\ <<"remove_real", "reset">> \in OfReal /\ <<"remove_config", "reset">> \notin OfReal /\ <<"reset">> \notin OfReal
    /\ \A u \in {<<"replaced">>, <<"real_replaced">>} :
          /\ u \in Todo /\ u \in WillReset /\ u \in WillLink /\ u \in WillLoad
          /\ u \notin Removing /\ u \notin Resolving /\ u \notin AddingReal
    /\ <<"replaced">> \notin OfReal /\ <<"real_replaced">> \in OfReal
    /\ \A u \in {<<"replaced">>, <<"exists?">>} : u \in Adding /\ u \in WillLink /\ u \in WillLoad /\ u \in Todo
    /\ Plain(<<"exists?">>) /\ Plain(<<"replaced">>)
<1>1. \A u \in {<<"canonical", "add_real", "load">>, <<"canonical", "add_real">>} : u # << >> /\ Head(u) = "canonical"
  BY SMTT(60)
<1>2. \A u \in {<<"add_real", "load">>, <<"add_real">>} : u # << >> /\ Head(u) = "add_real"
  BY SMTT(60)
<1>3. /\ \A u \in {<<"remove_config", "reset">>, <<"reset">>} : u # << >> /\ Head(u) \in {"remove_config", "reset"}
      /\ <<"remove_real", "reset">> # << >> /\ Head(<<"remove_real", "reset">>) = "remove_real"
  BY SMTT(60)
<1>4. /\ \A u \in {<<"replaced">>, <<"exists?">>} : u # << >> /\ Head(u) \in {"replaced", "exists?"}
      /\ <<"real_replaced">> # << >> /\ Head(<<"real_replaced">>) = "real_replaced"
  BY SMTT(60)
<1>5. \A u \in {<<"canonical", "add_real", "load">>, <<"canonical", "add_real">>} : u \in Todo /\ u \in Resolving /\ u \in WillLink
  BY DEF Todo, Resolving, WillLink
<1>6. \A u \in {<<"add_real", "load">>, <<"add_real">>} : u \in Todo /\ u \in AddingReal /\ u \in WillLink
  BY DEF Todo, AddingReal, WillLink
<1>7. <<"canonical", "add_real", "load">> \in WillLoad /\ <<"add_real", "load">> \in WillLoad
  BY DEF WillLoad
<1>8. \A u \in {<<"remove_config", "reset">>, <<"remove_real", "reset">>, <<"reset">>} :
          u \in Todo /\ u \in Removing /\ u \in WillReset
  BY DEF Todo, Removing, WillReset
<1>9. <<"remove_real", "reset">> \in OfReal /\ <<"real_replaced">> \in OfReal
  BY DEF OfReal
<1>10. \A u \in {<<"replaced">>, <<"real_replaced">>} : u \in Todo /\ u \in WillReset /\ u \in WillLink /\ u \in WillLoad
  BY DEF Todo, WillReset, WillLink, WillLoad, Adding, Linking
<1>11. \A u \in {<<"replaced">>, <<"exists?">>} : u \in Adding /\ u \in WillLink /\ u \in WillLoad /\ u \in Todo
  BY DEF Todo, WillLink, WillLoad, Adding
<1> QED
  BY <1>1, <1>2, <1>3, <1>4, <1>5, <1>6, <1>7, <1>8, <1>9, <1>10, <1>11, ClassHeads DEF Plain

\* Every event is answered by steps that make up for what it told of.
LEMMA CalmHandleEvent ==
    ASSUME WatchInv, CalmInv, HandleEvent
    PROVE  CalmInv'
\* An event is taken, and u is what is to be done for it.
<1>EventStep.
    ASSUME NEW e, e = Head(ino.queue), ino.queue # << >>,
           UNCHANGED <<setting, fs, kubelet, watchers, runtime_config>>,
           ino'.watch = ino.watch, ino'.next = ino.next, ino'.queue = Tail(ino.queue),
           loader.pc = "loop", loader'.pc \in {"loop", "handle"},
           NEW u \in Todo, loader'.todo = u, loader'.pc = "loop" => u = << >>,
           u \notin Resolving, u \notin AddingReal,
           u \in OfReal => loader'.w # DirPath,
           u = <<"real_replaced">> => setting.deployment # "file",
           e = Versioned => u = << >>,
           u \in Removing => e = Deleted,
           e = Deleted => u \in WillReset,
           e = Created => u \in Adding /\ u \in WillLink /\ u \in WillLoad,
           \A w \in Entries : w.path = ConfigPath /\ e.wd = w.wd /\ e.mask \in SelfGone =>
              u \in WillReset /\ u \in Adding /\ u \in WillLoad,
           \A w \in Entries : w.path = ConfigPath /\ e.wd = w.wd /\ e.mask = "MODIFY" => u \in WillLoad,
           \A w \in Entries : w.path \notin {DirPath, ConfigPath} /\ e.wd = w.wd /\ e.mask \in SelfGone =>
              u \in WillLink /\ u \in WillLoad
    PROVE  CalmInv'
  <2> USE <1>EventStep
  <2>1. /\ Tail(ino.queue) \in Seq(Events) /\ e \in Events
        /\ \A x \in Events : Has(ino.queue, x) <=> (Has(ino'.queue, x) \/ x = e)
        /\ CreatedLast(ino.queue) => CreatedLast(ino'.queue) /\ (e = Deleted => Has(ino'.queue, Created))
    BY TailQueue, SMTT(60) DEF WatchInv, Watching, Kernel
  <2>2. Entries' = Entries /\ (Exists' <=> Exists) /\ Real' = Real
    BY DEF Entries, Elements, Exists, Real
  <2>3. (Watches(fs.self)' <=> Watches(fs.self)) /\ (Watches(fs.target)' <=> Watches(fs.target)) /\ (OldWatched' <=> OldWatched)
    BY DEF Watches, OldWatched
  <2>4. loader.todo = << >> /\ loader.todo \notin WillReset /\ loader.todo \notin Adding /\ loader.todo \notin WillLink
           /\ loader.todo \notin WillLoad
    <3>1. << >> \notin Linking /\ << >> \notin Loading
      BY DEF Linking, Loading
    <3>2. << >> \notin WillLoad
      BY DEF WillLoad, Adding, Loading
    <3> QED
      BY <3>1, <3>2, ClassHeads DEF CalmInv, Program, WillLink
  <2>5. \A w \in Entries : w.wd \in Int
    BY EntriesDiffer DEF WatchInv, Entered, Entries, WatcherRecord
  <2>6. \A w \in Entries, masks \in SUBSET Masks : Told(w, masks) => Told(w, masks)' \/ (e.wd = w.wd /\ e.mask \in masks)
    <3> SUFFICES ASSUME NEW w \in Entries, NEW masks \in SUBSET Masks, Told(w, masks), ~(e.wd = w.wd /\ e.mask \in masks)
                 PROVE  Told(w, masks)'
      OBVIOUS
    <3>1. PICK mask \in masks : Has(ino.queue, Event(w.wd, mask, NoName))
      BY DEF Told
    <3> DEFINE x == Event(w.wd, mask, NoName)
    <3>2. x \in Events /\ x.wd = w.wd /\ x.mask = mask
      BY <2>5, EventsAre, SMTT(60) DEF Names
    <3>3. x # e
      BY <3>2
    <3>4. Has(ino'.queue, x)
      BY <2>1, <3>1, <3>2, <3>3
    <3> QED
      BY <3>4 DEF Told
  <2>7. SelfGone \in SUBSET Masks /\ SelfGone \cup {"MODIFY"} \in SUBSET Masks
    BY DEF SelfGone, Masks
  <2>8. ConfigTold(SelfGone) => ConfigTold(SelfGone)' \/ (u \in WillReset /\ u \in Adding /\ u \in WillLoad)
    BY <2>2, <2>6, <2>7 DEF ConfigTold
  <2>9. ConfigTold(SelfGone \cup {"MODIFY"}) => ConfigTold(SelfGone \cup {"MODIFY"})' \/ u \in WillLoad
    BY <2>2, <2>6, <2>7 DEF ConfigTold
  <2>10. RealTold(SelfGone) => RealTold(SelfGone)' \/ (u \in WillLink /\ u \in WillLoad)
    BY <2>2, <2>6, <2>7 DEF RealTold
  <2>11. Has(ino.queue, Created) => Has(ino'.queue, Created) \/ (u \in Adding /\ u \in WillLink /\ u \in WillLoad)
    BY <2>1, EventsAre
  <2>12. Has(ino.queue, Deleted) => Has(ino'.queue, Deleted) \/ u \in WillReset
    BY <2>1, EventsAre
  <2>13. Program'
    BY DEF CalmInv, Program
  <2>14. Tagged'
    BY <2>2 DEF CalmInv, Tagged, Running
  <2>15. Deployed'
    <3>1. kubelet.pc \in {"link", "unlink"} => u = << >> /\ \A x \in Events : Has(ino'.queue, x) => x = Versioned
      BY <2>1 DEF CalmInv, Deployed
    <3> QED
      BY <2>2, <3>1 DEF CalmInv, Deployed
  <2>16. Absent'
    BY <2>2, <2>4, <2>8, <2>12 DEF CalmInv, Absent
  <2>17. Fresh'
    BY <2>1, <2>2 DEF CalmInv, Fresh, Running
  <2>18. SelfWatched'
    BY <2>2, <2>3, <2>4, <2>8, <2>11 DEF CalmInv, SelfWatched, Running
  <2>19. RealWatched'
    BY <2>2, <2>3, <2>4, <2>10, <2>11 DEF CalmInv, RealWatched, Running
  <2>20. Current'
    BY <2>2, <2>3, <2>4, <2>9, <2>10, <2>11 DEF CalmInv, Current, Running
  <2> QED
    BY <2>13, <2>14, <2>15, <2>16, <2>17, <2>18, <2>19, <2>20 DEF CalmInv
\* The thread ends when the directory goes away.
<1>EndStep.
    ASSUME ino.queue # << >>,
           UNCHANGED <<setting, fs, kubelet, watchers, runtime_config>>,
           ino'.watch = ino.watch, ino'.next = ino.next, ino'.queue = Tail(ino.queue),
           loader.pc = "loop", loader'.pc = "ended", loader'.todo = loader.todo
    PROVE  CalmInv'
  <2> USE <1>EndStep
  <2>1. \A x \in Events : Has(ino'.queue, x) => Has(ino.queue, x)
    BY TailQueue, SMTT(60) DEF WatchInv, Watching, Kernel
  <2>2. Entries' = Entries
    BY DEF Entries, Elements
  <2>3. loader.todo = << >>
    BY DEF CalmInv, Program
  <2>4. Program'
    BY <2>3, PlainTodo DEF Program, Plain
  <2>5. Tagged'
    BY <2>2 DEF CalmInv, Tagged, Running
  <2>6. Deployed'
    BY <2>1, <2>2 DEF CalmInv, Deployed
  <2>7. Absent' /\ Fresh' /\ SelfWatched' /\ RealWatched' /\ Current'
    BY DEF Absent, Fresh, SelfWatched, RealWatched, Current, Running
  <2> QED
    BY <2>4, <2>5, <2>6, <2>7 DEF CalmInv
\* What is done for an event of the directory, the file and the file it points to.
<1>DirReaction.
    ASSUME NEW e \in Events, e.mask \notin SelfGone, e.wd = 1
    PROVE  LET u == Reaction(e, "PARENT_PATH") IN
           /\ u \in Todo /\ u \notin Resolving /\ u \notin AddingReal /\ u \notin OfReal
           /\ e = Versioned => u = << >>
           /\ u \in Removing => e = Deleted
           /\ e = Deleted => u \in WillReset
           /\ e = Created => u \in Adding /\ u \in WillLink /\ u \in WillLoad
  <2> USE <1>DirReaction
  <2> DEFINE u == Reaction(e, "PARENT_PATH")
  <2>1. e = Event(e.wd, e.mask, e.name)
    BY DEF Event, Events
  <2>2. e = Created <=> e.name = "config" /\ e.mask = "CREATE"
    BY <2>1, SMTT(60) DEF Created, Event
  <2>3. e = Deleted <=> e.name = "config" /\ e.mask = "DELETE"
    BY <2>1, SMTT(60) DEF Deleted, Event
  <2>4. e = Versioned => e.name = "version"
    BY SMTT(60) DEF Versioned, Event
  <2>5. CASE e = Created
    <3>1. u = <<"add_config", "load", "link?">>
      BY <2>2, <2>5 DEF Reaction
    <3> QED
      BY <2>5, <3>1, PlainTodo, EventsAre DEF Plain
  <2>6. CASE e = Deleted
    <3>1. u = <<"remove_config", "reset">>
      BY <2>3, <2>6 DEF Reaction
    <3> QED
      BY <2>6, <3>1, OtherTodo, EventsAre
  <2>7. CASE e # Created /\ e # Deleted
    <3>1. u = << >>
      BY <2>2, <2>3, <2>7 DEF Reaction
    <3> QED
      BY <2>7, <3>1, PlainTodo DEF Plain
  <2> QED
    BY <2>5, <2>6, <2>7
\* An event of the file.
<1>ConfigReaction.
    ASSUME NEW e \in Events
    PROVE  LET u == Reaction(e, "CONFIG_FILE") IN
           /\ Plain(u)
           /\ e.mask \in SelfGone => u \in WillReset /\ u \in Adding /\ u \in WillLoad
           /\ e.mask = "MODIFY" => u \in WillLoad
  <2> USE <1>ConfigReaction
  <2> DEFINE u == Reaction(e, "CONFIG_FILE")
  <2>1. CASE e.mask \in SelfGone
    <3>1. u = <<"replaced">> /\ e.mask # "MODIFY"
      BY <2>1 DEF Reaction, SelfGone
    <3> QED
      BY <3>1, OtherTodo
  <2>2. CASE e.mask = "MODIFY"
    <3>1. u = <<"link?", "load">> /\ e.mask \notin SelfGone
      BY <2>2 DEF Reaction, SelfGone
    <3> QED
      BY <3>1, PlainTodo
  <2>3. CASE e.mask \notin SelfGone /\ e.mask # "MODIFY"
    <3>1. u = << >>
      BY <2>3 DEF Reaction
    <3> QED
      BY <2>3, <3>1, PlainTodo
  <2> QED
    BY <2>1, <2>2, <2>3
\* An event of the file that the link has pointed to.
<1>RealReaction.
    ASSUME NEW e \in Events
    PROVE  LET u == Reaction(e, "CONFIG_REALPATH") IN
           /\ u \in Todo /\ u \notin Resolving /\ u \notin AddingReal /\ u \notin Removing
           /\ e.mask \in SelfGone => u \in WillLink /\ u \in WillLoad
  <2> USE <1>RealReaction
  <2> DEFINE u == Reaction(e, "CONFIG_REALPATH")
  <2>1. CASE e.mask \in SelfGone
    <3>1. u = <<"real_replaced">>
      BY <2>1 DEF Reaction, SelfGone
    <3> QED
      BY <3>1, OtherTodo
  <2>2. CASE e.mask = "MODIFY"
    <3>1. u = <<"load">> /\ e.mask \notin SelfGone
      BY <2>2 DEF Reaction, SelfGone
    <3> QED
      BY <3>1, PlainTodo DEF Plain
  <2>3. CASE e.mask \notin SelfGone /\ e.mask # "MODIFY"
    <3>1. u = << >>
      BY <2>3 DEF Reaction
    <3> QED
      BY <2>3, <3>1, PlainTodo DEF Plain
  <2> QED
    BY <2>1, <2>2, <2>3
<1> DEFINE e == Head(ino.queue)
           u == loader'.todo
<1>1. /\ UNCHANGED <<setting, fs, kubelet, watchers, runtime_config>> /\ loader.pc = "loop" /\ ino.queue # << >>
      /\ ino'.watch = ino.watch /\ ino'.next = ino.next /\ ino'.queue = Tail(ino.queue)
  BY EventTaken
<1>2. e \in Events /\ loader.todo = << >>
  BY <1>1, TailQueue DEF WatchInv, Watching, Kernel, CalmInv, Program
<1>3. PICK d \in Entries : d.path = DirPath /\ d.wd = 1
  BY <1>1 DEF CalmInv, Tagged, Running
<1>4. \A v, w \in Entries : v.wd = w.wd => v = w
  BY EntriesDiffer DEF WatchInv, Entered, Entries
<1>5. \A w \in Entries : w.wd = 1 <=> w.path = DirPath
  BY <1>3, EntriesDiffer DEF WatchInv, Entered, Entries
<1>6. <<"real_replaced">> \in OfReal /\ << >> \in Todo /\ DirPath # ConfigPath
  BY OtherTodo, PlainTodo, SMTT(60) DEF Plain, DirPath, ConfigPath
<1>7. CASE (\A w \in Entries : w.wd # e.wd) /\ loader' = loader
  <2>1. e # Versioned /\ e # Created /\ e # Deleted
    BY <1>3, <1>7, EventsAre
  <2>2. << >> # <<"real_replaced">>
    OBVIOUS
  <2> HIDE DEF e
  <2>3. u = << >> /\ Plain(u) /\ loader'.pc = "loop"
    BY <1>1, <1>2, <1>7, PlainTodo
  <2> QED
    BY <1>1, <1>7, <2>1, <2>2, <2>3, <1>EventStep DEF Plain, e
<1>8. ASSUME NEW w \in Entries, w.wd = e.wd, loader'.pc = "ended", u = loader.todo
      PROVE  CalmInv'
  BY <1>1, <1>8, <1>EndStep
<1>9. ASSUME NEW w \in Entries, w.wd = e.wd, ~(w.tag = "PARENT_PATH" /\ e.mask \in SelfGone),
             loader'.pc = "handle", u = Reaction(e, w.tag), loader'.w = w.path
      PROVE  CalmInv'
  <2>1. \A v \in Entries : v.wd = e.wd => v = w
    BY <1>4, <1>9
  <2>2. /\ w.path = DirPath <=> w.tag = "PARENT_PATH"
        /\ w.path = ConfigPath <=> w.tag = "CONFIG_FILE"
        /\ w.tag \in TagNames
    BY EntriesDiffer DEF CalmInv, Tagged, WatchInv, Entered, Entries, WatcherRecord
  <2>3. CASE w.path = DirPath
    <3>1. /\ u \in Todo /\ u \notin Resolving /\ u \notin AddingReal /\ u \notin OfReal
          /\ e = Versioned => u = << >>
          /\ u \in Removing => e = Deleted
          /\ e = Deleted => u \in WillReset
          /\ e = Created => u \in Adding /\ u \in WillLink /\ u \in WillLoad
      BY <1>2, <1>5, <1>9, <2>2, <2>3, <1>DirReaction
    <3> HIDE DEF e
    <3> QED
      BY <1>1, <1>6, <1>9, <2>1, <2>3, <3>1, <1>EventStep DEF e
  <2>4. CASE w.path = ConfigPath
    <3>1. /\ Plain(u)
          /\ e.mask \in SelfGone => u \in WillReset /\ u \in Adding /\ u \in WillLoad
          /\ e.mask = "MODIFY" => u \in WillLoad
      BY <1>2, <1>9, <2>2, <2>4, <1>ConfigReaction
    <3>2. e # Versioned /\ e # Created /\ e # Deleted
      BY <1>5, <1>6, <1>9, <2>4, EventsAre, SMTT(60)
    <3> HIDE DEF e
    <3> QED
      BY <1>1, <1>6, <1>9, <2>1, <2>4, <3>1, <3>2, <1>EventStep DEF e, Plain
  <2>5. CASE w.path \notin {DirPath, ConfigPath}
    <3>1. /\ u \in Todo /\ u \notin Resolving /\ u \notin AddingReal /\ u \notin Removing
          /\ e.mask \in SelfGone => u \in WillLink /\ u \in WillLoad
      BY <1>2, <1>9, <2>2, <2>5, <1>RealReaction DEF TagNames
    <3>2. e # Versioned /\ e # Created /\ e # Deleted
      BY <1>5, <1>6, <1>9, <2>5, EventsAre, SMTT(60)
    <3>3. setting.deployment # "file"
      BY <2>5 DEF CalmInv, Deployed
    <3> HIDE DEF e
    <3> QED
      BY <1>1, <1>6, <1>9, <2>1, <2>5, <3>1, <3>2, <3>3, <1>EventStep, SMTT(60) DEF e
  <2> QED
    BY <2>3, <2>4, <2>5
<1> QED
  BY <1>7, <1>8, <1>9, EventTaken

\* What the first step leaves of the handler.
LEMMA TodoTails ==
    ASSUME NEW t \in Todo, t # << >>
    PROVE  /\ Head(t) = "add_config" => Tail(t) \in {<<"link?", "load">>, <<"load", "link?">>}
           /\ Head(t) \in {"replaced", "exists?", "real_replaced", "reset"} => Tail(t) = << >>
           /\ Head(t) = "link?" => \/ t = <<"link?", "load">> /\ Tail(t) = <<"load">>
                                   \/ t = <<"link?">> /\ Tail(t) = << >>
           /\ Head(t) = "add_real" => \/ t = <<"add_real", "load">> /\ Tail(t) = <<"load">>
                                      \/ t = <<"add_real">> /\ Tail(t) = << >>
           /\ Head(t) = "load" => \/ t = <<"load", "link?">> /\ Tail(t) = <<"link?">>
                                  \/ t = <<"load">> /\ Tail(t) = << >>
           /\ Head(t) = "parse" => \/ t = <<"parse", "link?">> /\ Tail(t) = <<"link?">>
                                   \/ t = <<"parse">> /\ Tail(t) = << >>
           /\ Head(t) = "canonical" => \/ t = <<"canonical", "add_real", "load">> /\ Tail(t) = <<"add_real", "load">>
                                       \/ t = <<"canonical", "add_real">> /\ Tail(t) = <<"add_real">>
           /\ Head(t) \in {"remove_config", "remove_real"} => Tail(t) = <<"reset">>
<1>1. /\ Tail(<<"add_config", "link?", "load">>) = <<"link?", "load">>
      /\ Tail(<<"add_config", "load", "link?">>) = <<"load", "link?">>
      /\ Tail(<<"canonical", "add_real", "load">>) = <<"add_real", "load">>
  BY SMTT(60)
<1>2. /\ Tail(<<"link?", "load">>) = <<"load">> /\ Tail(<<"add_real", "load">>) = <<"load">>
      /\ Tail(<<"load", "link?">>) = <<"link?">> /\ Tail(<<"parse", "link?">>) = <<"link?">>
      /\ Tail(<<"canonical", "add_real">>) = <<"add_real">>
      /\ Tail(<<"remove_config", "reset">>) = <<"reset">> /\ Tail(<<"remove_real", "reset">>) = <<"reset">>
  BY SMTT(60)
<1>3. /\ Tail(<<"replaced">>) = << >> /\ Tail(<<"exists?">>) = << >> /\ Tail(<<"real_replaced">>) = << >>
      /\ Tail(<<"reset">>) = << >> /\ Tail(<<"link?">>) = << >> /\ Tail(<<"add_real">>) = << >>
      /\ Tail(<<"load">>) = << >> /\ Tail(<<"parse">>) = << >>
  BY SMTT(60)
<1> QED
  BY <1>1, <1>2, <1>3, TodoHeads

\* The steps of the handlers that leave the watches.
LEMMA ContinueTodo ==
    ASSUME WatchInv, Program, NEW steps, Continue(steps), loader.pc = "handle"
    PROVE  /\ loader.todo \in Todo /\ loader'.todo = steps \o Tail(loader.todo)
           /\ loader'.pc = "handle" /\ loader'.w = loader.w /\ loader'.real = loader.real
BY ContinueKeeps DEF Program, WatchInv

\* Nothing put before what is left.
LEMMA NoSteps ==
    ASSUME NEW s, s = << >> \/ s = <<"link?">> \/ s = <<"load">> \/ s = <<"reset">>
                    \/ s = <<"link?", "load">> \/ s = <<"load", "link?">>
    PROVE  << >> \o s = s
BY SMTT(60)

\* A link that is resolved is there, and so is the file it points to.
LEMMA ResolvedExists ==
    ASSUME WatchInv, CalmInv, loader.todo # << >>, fs.entry # "none"
    PROVE  /\ Exists /\ (fs.entry = "link" => fs.target \in fs.volume /\ setting.deployment = "configmap")
           /\ fs.self # NoInode
BY Limits DEF CalmInv, Deployed, Exists, Real, WatchInv, Records

\* A watcher is added that is not that of the directory.
LEMMA AddedTagged ==
    ASSUME WatchInv, Tagged, Running, NEW path, path # DirPath, NEW tag, NEW wd, Added(path, tag, wd),
           tag # "PARENT_PATH", path = ConfigPath <=> tag = "CONFIG_FILE", loader'.pc = "handle"
    PROVE  Tagged'
<1>1. PICK w \in Entries : w.path = DirPath /\ w.wd = 1
  BY DEF Tagged
<1>2. \A v \in Entries : v.path = path => v.wd # 1
  BY <1>1, EntriesDiffer DEF WatchInv, Entered, Entries
<1>3. 1 # wd
  BY <1>1 DEF Added
<1>4. 1 \in DOMAIN ino'.watch /\ ino'.watch[1] = Dir
  BY <1>2, <1>3, SMTT(60) DEF Added, Tagged
<1>5. Entries' = {v \in Entries : v.path # path} \cup {[wd |-> wd, path |-> path, tag |-> tag]}
  BY DEF Added, Entries
<1>6. w \in Entries'
  BY <1>1, <1>5
<1>7. \A v \in Entries' : (v.path = DirPath <=> v.tag = "PARENT_PATH") /\ (v.path = ConfigPath <=> v.tag = "CONFIG_FILE")
  BY <1>5, SMTT(60) DEF Tagged
<1> QED
  BY <1>1, <1>4, <1>6, <1>7 DEF Tagged, Running

\* So is the file that the link points to.
LEMMA CalmAddReal ==
    ASSUME WatchInv, CalmInv, AddReal
    PROVE  CalmInv'
\* The file that the link points to keeps the watch it had, and so do the others.
<1>AddedReal.
    ASSUME NEW path \in fs.volume, NEW tag, NEW wd, Added(path, tag, wd), UNCHANGED <<setting, fs, kubelet>>
    PROVE  /\ Watches(path)'
           /\ \A i : i # path /\ Watches(i) => Watches(i)'
           /\ \A masks : ConfigTold(masks) => ConfigTold(masks)'
           /\ \A masks : RealTold(masks) => RealTold(masks)'
  <2> USE <1>AddedReal
  <2>1. path \in Int /\ path > 0 /\ Lookup(path) = path /\ path \notin {DirPath, ConfigPath}
    BY SMTT(60) DEF WatchInv, Inodes, Lookup, DirPath, ConfigPath
  <2>2. Watches(path)'
    BY <2>1 DEF Added, Watches
  <2>3. ASSUME NEW i, i # path, Watches(i)
        PROVE  Watches(i)'
    <3>1. PICK v \in DOMAIN ino.watch : ino.watch[v] = i
      BY <2>3 DEF Watches
    <3>2. \A w \in Entries : w.wd = v => w.path # path
      BY <2>1, <2>3, <3>1 DEF WatchInv, Matching
    <3>3. PICK w \in Entries : w.wd = v
      BY DEF WatchInv, Matching
    <3>4. v # wd
      BY <3>2, <3>3 DEF Added
    <3>5. v \in DOMAIN ino'.watch /\ ino'.watch[v] = i
      BY <3>1, <3>2, <3>4 DEF Added
    <3> QED
      BY <3>5 DEF Watches
  <2>4. Entries' = {v \in Entries : v.path # path} \cup {[wd |-> wd, path |-> path, tag |-> tag]} /\ ino'.queue = ino.queue
    BY DEF Added, Entries
  <2>5. \A masks : ConfigTold(masks) => ConfigTold(masks)'
    BY <2>1, <2>4 DEF ConfigTold, Told
  <2>6. \A w \in Entries : w.path = path => w.wd = wd
    BY <2>1, SMTT(60) DEF WatchInv, Matching, Added
  <2>7. ASSUME NEW masks, RealTold(masks)
        PROVE  RealTold(masks)'
    <3>1. PICK w \in Entries : w.path \notin {DirPath, ConfigPath} /\ Told(w, masks)
      BY <2>7 DEF RealTold
    <3>2. PICK mask \in masks : Has(ino.queue, Event(w.wd, mask, NoName))
      BY <3>1 DEF Told
    <3>3. CASE w.path # path
      BY <2>4, <3>1, <3>2, <3>3 DEF RealTold, Told
    <3>4. CASE w.path = path
      <4> DEFINE e == [wd |-> wd, path |-> path, tag |-> tag]
      <4>1. e \in Entries' /\ e.wd = w.wd /\ e.path = w.path
        BY <2>4, <2>6, <3>4
      <4> HIDE DEF e
      <4> QED
        BY <2>4, <3>1, <3>2, <4>1 DEF RealTold, Told
    <3> QED
      BY <3>3, <3>4
  <2> QED
    BY <2>2, <2>3, <2>5, <2>7
\* The watch that is added leaves the load to come.
<1>AfterAddReal.
    ASSUME NEW t \in Todo, t # << >>, Head(t) = "add_real"
    PROVE  Plain(Tail(t)) /\ (t \in WillLoad => Tail(t) \in WillLoad) /\ << >> \o Tail(t) = Tail(t)
  <2> USE <1>AfterAddReal
  <2>1. <<"add_real">> \notin WillLoad
    BY DEF WillLoad, Adding, Loading
  <2>2. \/ t = <<"add_real", "load">> /\ Tail(t) = <<"load">>
        \/ t = <<"add_real">> /\ Tail(t) = << >>
    BY TodoTails
  <2> QED
    BY <2>1, <2>2, PlainTodo, NoSteps
<1> DEFINE t == loader.todo
           u == loader'.todo
<1>1. /\ t \in Todo /\ t # << >> /\ Head(t) = "add_real" /\ loader.pc = "handle"
      /\ loader'.pc = "handle" /\ loader'.w = loader.w /\ loader'.real = loader.real
      /\ UNCHANGED <<setting, fs, kubelet, runtime_config>> /\ AddWatcher(loader.real, "CONFIG_REALPATH")
      /\ u = << >> \o Tail(t)
  BY ContinueTodo DEF AddReal, Step, CalmInv
<1>2. Plain(u) /\ (t \in WillLoad => u \in WillLoad)
  BY <1>1, <1>AfterAddReal
<1>3. u # <<"real_replaced">> /\ t \notin WillReset /\ t \notin Adding
  BY <1>1, <1>2, OtherTodo, ClassHeads DEF Plain
<1>4. t \in AddingReal
  BY <1>1, TodoHeads DEF AddingReal
<1>5. fs.entry = "link" /\ loader.real = fs.target
  BY <1>4 DEF CalmInv, Program
<1>6. Exists /\ fs.target \in fs.volume /\ setting.deployment = "configmap"
  BY <1>1, <1>5, ResolvedExists
<1>7. fs.target \in Paths /\ fs.target # fs.self /\ Lookup(fs.target) = fs.target /\ fs.target \notin {DirPath, ConfigPath, NoInode}
  BY <1>6, SMTT(60) DEF WatchInv, Inodes, Paths, Lookup, DirPath, ConfigPath, NoInode
<1>8. PICK wd \in Int : Added(fs.target, "CONFIG_REALPATH", wd)
  BY <1>1, <1>5, <1>7, AddWatcherAdds DEF TagNames
<1>9. Watches(fs.target)' /\ (Exists' <=> Exists) /\ Real' = Real
  BY <1>1, <1>6, <1>8, <1>AddedReal DEF Exists, Real
<1>10. \A i : i # fs.target /\ Watches(i) => Watches(i)'
  BY <1>1, <1>6, <1>8, <1>AddedReal
<1>11. \A masks : (ConfigTold(masks) => ConfigTold(masks)') /\ (RealTold(masks) => RealTold(masks)')
  BY <1>1, <1>6, <1>8, <1>AddedReal
<1>12. ino'.queue = ino.queue
  BY <1>8 DEF Added
<1>13. kubelet.pc \notin {"link", "unlink"}
  BY <1>1 DEF CalmInv, Deployed
<1>14. Program'
  BY <1>1, <1>2 DEF Program, Plain
<1>15. Tagged'
  BY <1>1, <1>7, <1>8, AddedTagged DEF CalmInv, Running
<1>16. Deployed'
  BY <1>1, <1>6, <1>12, <1>13 DEF CalmInv, Deployed
<1>17. Absent'
  BY <1>6, <1>9 DEF Absent
<1>18. Fresh'
  BY <1>1, <1>2, <1>6, <1>12 DEF CalmInv, Fresh, Running, Plain
<1>19. SelfWatched'
  <2>1. Watches(fs.self) => Watches(fs.self)'
    BY <1>1, <1>7, <1>10 DEF Watches
  <2> QED
    BY <1>1, <1>3, <1>6, <1>11, <1>12, <2>1 DEF CalmInv, SelfWatched, Running
<1>20. RealWatched'
  BY <1>9 DEF RealWatched
<1>21. Current'
  <2>1. OldWatched => OldWatched'
    <3>1. OldWatched => kubelet.old # fs.target
      BY DEF OldWatched, CalmInv, Deployed
    <3>2. OldWatched => Watches(kubelet.old)'
      BY <1>1, <1>10, <3>1 DEF OldWatched, Watches
    <3> QED
      BY <1>1, <3>2 DEF OldWatched
  <2> QED
    BY <1>1, <1>2, <1>6, <1>9, <1>11, <1>12, <2>1 DEF CalmInv, Current, Running
<1> QED
  BY <1>14, <1>15, <1>16, <1>17, <1>18, <1>19, <1>20, <1>21 DEF CalmInv

\* A step of a handler that leaves the watches.
LEMMA QuietStep ==
    ASSUME CalmInv, UNCHANGED <<setting, fs, kubelet, ino, watchers>>,
           loader.pc = "handle", loader'.pc = "handle", loader'.w = loader.w,
           loader.todo # << >>, loader'.todo \in Todo,
           loader'.todo \in Resolving \cup AddingReal => fs.entry = "link",
           loader'.todo \in AddingReal => loader'.real = fs.target,
           loader'.todo \in OfReal => loader.todo \in OfReal, loader'.todo # <<"real_replaced">>,
           ~Exists => \/ runtime_config' = NoConfig
                      \/ runtime_config' = runtime_config /\ loader.todo \notin WillReset
                      \/ loader'.todo \in WillReset,
           Exists /\ loader'.todo \in Removing => loader.todo \in Removing,
           Exists /\ loader.todo \in Adding => loader'.todo \in Adding,
           Exists /\ fs.entry = "link" /\ loader.todo \in WillLink => loader'.todo \in WillLink,
           Exists /\ fs.content[Real] \in Content =>
              \/ runtime_config' = fs.content[Real] \/ Has(ino.queue, Created)
              \/ runtime_config' = runtime_config /\ (loader.todo \in WillLoad => loader'.todo \in WillLoad)
    PROVE  CalmInv'
<1> USE SameView DEF CalmInv
<1>1. Program'
  BY DEF Program
<1>2. Tagged'
  BY DEF Tagged, Running
<1>3. Deployed'
  BY DEF Deployed, Program
<1>4. Absent'
  BY DEF Absent
<1>5. Fresh'
  BY DEF Fresh, Running
<1>6. SelfWatched'
  BY DEF SelfWatched, Running
<1>7. RealWatched'
  BY DEF RealWatched, Running
<1>8. Current'
  BY DEF Current, Running
<1> QED
  BY <1>1, <1>2, <1>3, <1>4, <1>5, <1>6, <1>7, <1>8

\* The file is watched from here on.
LEMMA CalmAddConfig ==
    ASSUME WatchInv, CalmInv, AddConfig
    PROVE  CalmInv'
<1> DEFINE t == loader.todo
           u == loader'.todo
<1>1. /\ t \in Todo /\ t # << >> /\ Head(t) = "add_config" /\ loader.pc = "handle"
      /\ loader'.pc = "handle" /\ loader'.w = loader.w /\ loader'.real = loader.real
      /\ UNCHANGED <<setting, fs, kubelet, runtime_config>> /\ AddWatcher(ConfigPath, "CONFIG_FILE")
      /\ u = << >> \o Tail(t)
  BY ContinueTodo DEF AddConfig, Step, CalmInv
<1>2. Plain(u) /\ u \in WillLink /\ u \in WillLoad /\ u # << >>
  <2>1. u \in {<<"link?", "load">>, <<"load", "link?">>}
    BY <1>1, TodoTails, NoSteps
  <2> QED
    BY <2>1, PlainTodo
<1>3. u # <<"real_replaced">> /\ t \notin WillReset
  BY <1>1, <1>2, OtherTodo, ClassHeads DEF Plain
<1>4. CASE fs.self = NoInode
  <2>1. UNCHANGED <<ino, watchers>>
    BY <1>1, <1>4, SMTT(60) DEF AddWatcher, Lookup, ConfigPath, DirPath
  <2>2. ~Exists
    BY <1>4 DEF Exists, Real, CalmInv, Deployed
  <2> QED
    BY <1>1, <1>2, <1>3, <2>1, <2>2, QuietStep DEF Plain
<1>5. CASE fs.self # NoInode
  <2>1. Lookup(ConfigPath) = fs.self /\ ConfigPath \in Paths /\ ConfigPath # fs.self
    BY SMTT(60) DEF Lookup, ConfigPath, DirPath, Paths, WatchInv, Inodes, NoInode
  <2>2. PICK wd \in Int : Added(ConfigPath, "CONFIG_FILE", wd)
    BY <1>1, <1>5, <2>1, AddWatcherAdds DEF TagNames
  <2>3. fs.entry # "none"
    BY <1>5 DEF CalmInv, Deployed
  <2>4. Exists /\ (Exists' <=> Exists)
    BY <1>1, <2>3, ResolvedExists DEF Exists, Real
  <2>5. ino'.queue = ino.queue /\ Watches(fs.self)'
    BY <1>1, <2>1, <2>2 DEF Added, Watches
  <2>6. kubelet.pc \notin {"link", "unlink"}
    BY <1>1 DEF CalmInv, Deployed
  <2>7. Program'
    BY <1>1, <1>2 DEF Program, Plain
  <2>8. Tagged'
    BY <1>1, <2>2, AddedTagged, SMTT(60) DEF CalmInv, Running, DirPath, ConfigPath
  <2>9. Deployed'
    <3>1. \A v \in Entries' : v \in Entries \/ v.path = ConfigPath
      BY <2>2, SMTT(60) DEF Added, Entries
    <3> QED
      BY <1>1, <1>3, <2>5, <2>6, <3>1 DEF CalmInv, Deployed
  <2>10. Absent'
    BY <2>4 DEF Absent
  <2>11. Fresh'
    BY <1>1, <1>2, <2>4, <2>5 DEF CalmInv, Fresh, Running, Plain
  <2>12. SelfWatched' /\ RealWatched' /\ Current'
    BY <1>2, <2>5 DEF SelfWatched, RealWatched, Current
  <2> QED
    BY <2>7, <2>8, <2>9, <2>10, <2>11, <2>12 DEF CalmInv
<1> QED
  BY <1>4, <1>5

\* A watcher is removed that is not that of the directory.
LEMMA CalmRemove ==
    ASSUME WatchInv, CalmInv, RemoveConfig \/ RemoveReal
    PROVE  CalmInv'
<1> DEFINE t == loader.todo
           u == loader'.todo
           path == IF Head(t) = "remove_config" THEN ConfigPath ELSE loader.w
<1>1. /\ t \in Todo /\ t # << >> /\ Head(t) \in {"remove_config", "remove_real"} /\ loader.pc = "handle"
      /\ loader'.pc = "handle" /\ loader'.w = loader.w /\ loader'.real = loader.real
      /\ UNCHANGED <<setting, fs, kubelet, runtime_config>> /\ RemoveWatcher(FindPath(path))
      /\ u = << >> \o Tail(t)
  BY ContinueTodo DEF RemoveConfig, RemoveReal, Step, CalmInv
<1>2. /\ u \in Todo /\ u \in Removing /\ u \in WillReset /\ u \notin Resolving /\ u \notin AddingReal /\ u \notin OfReal
      /\ u # << >>
  <2>1. u = <<"reset">>
    BY <1>1, TodoTails, NoSteps
  <2> QED
    BY <2>1, OtherTodo, SMTT(60)
<1>3. t \in Removing /\ (Head(t) = "remove_real" => t \in OfReal)
  BY <1>1, TodoHeads, OtherTodo
<1>4. path # DirPath
  BY <1>1, <1>3, SMTT(60) DEF CalmInv, Program, DirPath, ConfigPath
<1> HIDE DEF path
<1>5. Removed(path)
  BY <1>1, RemoveWatcherRemoves
<1>6. /\ ino'.queue = ino.queue /\ Entries' = {v \in Entries : v.path # path}
      /\ \A v \in DOMAIN ino.watch : (\A w \in Entries : w.path = path => w.wd # v)
            => v \in DOMAIN ino'.watch /\ ino'.watch[v] = ino.watch[v]
  BY <1>5 DEF Removed, Entries
<1>7. kubelet.pc \notin {"link", "unlink"}
  BY <1>1 DEF CalmInv, Deployed
<1>8. u # <<"real_replaced">>
  BY <1>2, OtherTodo
<1>9. (Exists' <=> Exists) /\ (Exists => Has(ino.queue, Created))
  BY <1>1, <1>3 DEF Exists, Real, CalmInv, Fresh, Running
<1>10. Program'
  BY <1>1, <1>2 DEF Program
<1>11. Tagged'
  <2>1. PICK w \in Entries : w.path = DirPath /\ w.wd = 1
    BY <1>1 DEF CalmInv, Tagged, Running
  <2>2. \A v \in Entries : v.path = path => v.wd # 1
    BY <1>4, <2>1, EntriesDiffer DEF WatchInv, Entered, Entries
  <2>3. 1 \in DOMAIN ino'.watch /\ ino'.watch[1] = Dir
    BY <1>1, <1>6, <2>2 DEF CalmInv, Tagged, Running
  <2>4. w \in Entries'
    BY <1>4, <1>6, <2>1
  <2>5. \A v \in Entries' : (v.path = DirPath <=> v.tag = "PARENT_PATH") /\ (v.path = ConfigPath <=> v.tag = "CONFIG_FILE")
    BY <1>6 DEF CalmInv, Tagged
  <2> QED
    BY <1>1, <2>1, <2>3, <2>4, <2>5 DEF Tagged, Running
<1>12. Deployed'
  BY <1>1, <1>6, <1>7, <1>8 DEF CalmInv, Deployed
<1>13. Absent'
  BY <1>2 DEF Absent
<1>14. Fresh'
  BY <1>1, <1>6, <1>9 DEF CalmInv, Fresh, Running
<1>15. SelfWatched' /\ RealWatched' /\ Current'
  BY <1>6, <1>9 DEF SelfWatched, RealWatched, Current
<1> QED
  BY <1>10, <1>11, <1>12, <1>13, <1>14, <1>15 DEF CalmInv

\* The first step watches the directory, and then looks for the file.
LEMMA CalmStart ==
    ASSUME WatchInv, CalmInv, Start
    PROVE  CalmInv'
<1> DEFINE u == loader'.todo
<1>1. DOMAIN loader = {"pc", "todo", "w", "real", "should_stop"}
  BY DEF WatchInv, Records
<1>2. /\ loader.pc = "start" /\ loader'.pc = "handle" /\ u = <<"exists?">>
      /\ UNCHANGED <<setting, fs, kubelet, runtime_config>> /\ AddWatcher(DirPath, "PARENT_PATH")
  BY <1>1 DEF Start
<1>3. loader.todo = << >> /\ watchers = << >> /\ ino.next = 1 /\ ino.queue = << >> /\ kubelet.pc = "idle"
  BY <1>2 DEF CalmInv, Program, Tagged
<1>4. Entries = {}
  BY <1>3, SMTT(60) DEF Entries, Elements
<1>5. DirPath \in Paths /\ DirPath # fs.self /\ Lookup(DirPath) = Dir /\ Dir # NoInode
  BY SMTT(60) DEF DirPath, ConfigPath, Paths, Lookup, Dir, NoInode, WatchInv, Inodes
<1>6. DOMAIN ino.watch = {}
  BY <1>3, SMTT(60) DEF WatchInv, Watching, Kernel
<1>7. Added(DirPath, "PARENT_PATH", 1)
  <2>1. PICK wd \in Int : Added(DirPath, "PARENT_PATH", wd)
    BY <1>2, <1>5, AddWatcherAdds DEF TagNames
  <2>2. wd = 1
    BY <1>3, <1>6, <2>1 DEF Added
  <2> QED
    BY <2>1, <2>2
<1>8. ino'.queue = << >> /\ 1 \in DOMAIN ino'.watch /\ ino'.watch[1] = Dir
  BY <1>3, <1>5, <1>7 DEF Added
<1>9. Entries' = {[wd |-> 1, path |-> DirPath, tag |-> "PARENT_PATH"]}
  BY <1>4, <1>7 DEF Added, Entries
<1>10. Plain(u) /\ u \in Adding /\ u \in WillLink /\ u \in WillLoad
  BY <1>2, OtherTodo
<1>11. u # <<"real_replaced">>
  BY <1>10, OtherTodo DEF Plain
<1>12. Program'
  BY <1>2, <1>10 DEF Program, Plain
<1>13. Tagged'
  BY <1>2, <1>8, <1>9, SMTT(60) DEF Tagged, Running, DirPath, ConfigPath
<1>14. Deployed'
  BY <1>2, <1>3, <1>9, <1>11, SMTT(60) DEF CalmInv, Deployed
<1>15. Absent'
  <2>1. Exists' <=> Exists
    BY <1>2 DEF Exists, Real
  <2>2. ~Has(ino.queue, Deleted) /\ ~ConfigTold(SelfGone) /\ loader.todo \notin WillReset
    BY <1>3, <1>4, PlainTodo, SMTT(60) DEF Has, ConfigTold
  <2> QED
    BY <1>2, <1>3, <2>1, <2>2 DEF CalmInv, Absent
<1>16. Fresh'
  BY <1>8, <1>10, SMTT(60) DEF Fresh, Plain, CreatedLast
<1>17. SelfWatched' /\ RealWatched' /\ Current'
  BY <1>10 DEF SelfWatched, RealWatched, Current
<1> QED
  BY <1>12, <1>13, <1>14, <1>15, <1>16, <1>17 DEF CalmInv

\* Steps put before nothing.
LEMMA NothingLeft ==
    /\ << >> \o << >> = << >> /\ <<"add_config", "link?", "load">> \o << >> = <<"add_config", "link?", "load">>
    /\ <<"remove_config", "reset">> \o << >> = <<"remove_config", "reset">>
    /\ <<"remove_real", "reset">> \o << >> = <<"remove_real", "reset">>
    /\ <<"canonical", "add_real", "load">> \o << >> = <<"canonical", "add_real", "load">>
BY SMTT(60)

\* A link that is still there is resolved again.
LEMMA CalmRealReplaced ==
    ASSUME WatchInv, CalmInv, RealReplaced
    PROVE  CalmInv'
<1> DEFINE t == loader.todo
           u == loader'.todo
<1>1. /\ t \in Todo /\ t # << >> /\ Head(t) = "real_replaced" /\ loader.pc = "handle"
      /\ loader'.pc = "handle" /\ loader'.w = loader.w /\ loader'.real = loader.real
      /\ UNCHANGED <<setting, fs, kubelet, ino, watchers, runtime_config>>
      /\ fs.entry = "link" => u = <<"canonical", "add_real", "load">> \o Tail(t)
      /\ fs.entry # "link" => u = <<"remove_real", "reset">> \o Tail(t)
  BY ContinueTodo DEF RealReplaced, Step, CalmInv
<1>2. Tail(t) = << >>
  BY <1>1, TodoTails
<1>3. /\ fs.entry = "link" => u = <<"canonical", "add_real", "load">>
      /\ fs.entry # "link" => u = <<"remove_real", "reset">>
  BY <1>1, <1>2, NothingLeft
<1>4. t \in OfReal /\ t \notin Adding /\ t = <<"real_replaced">>
  BY <1>1, OtherTodo, TodoHeads, ClassHeads
<1>5. CASE fs.entry = "link"
  <2>1. /\ u \in Todo /\ u \in Resolving /\ u \in WillLink /\ u \in WillLoad
        /\ u \notin Removing /\ u \notin AddingReal /\ u \notin OfReal
    BY <1>3, <1>5, OtherTodo
  <2>2. u # <<"real_replaced">>
    BY <2>1, OtherTodo
  <2>3. Exists
    BY <1>1, <1>5, Limits DEF CalmInv, Deployed, Exists, Real, WatchInv, Records
  <2> QED
    BY <1>1, <1>4, <1>5, <2>1, <2>2, <2>3, QuietStep
<1>6. CASE fs.entry # "link"
  <2>1. u \in Todo /\ u \in WillReset /\ u \notin Resolving /\ u \notin AddingReal /\ u \in OfReal
    BY <1>3, <1>6, OtherTodo
  <2>2. u # <<"real_replaced">>
    BY <1>3, <1>6, OtherTodo
  <2>3. ~Exists
    BY <1>1, <1>4, <1>6, Limits DEF CalmInv, Deployed, Exists, Real, WatchInv, Records, Inodes
  <2> QED
    BY <1>1, <1>4, <1>6, <2>1, <2>2, <2>3, QuietStep
<1> QED
  BY <1>5, <1>6

\* A file that is there is added and loaded, and one that is not is removed.
LEMMA CalmExists ==
    ASSUME WatchInv, CalmInv, IfExists \/ Replaced
    PROVE  CalmInv'
<1> DEFINE t == loader.todo
           u == loader'.todo
<1>1. /\ t \in Todo /\ t # << >> /\ Head(t) \in {"exists?", "replaced"} /\ loader.pc = "handle"
      /\ loader'.pc = "handle" /\ loader'.w = loader.w /\ loader'.real = loader.real
      /\ UNCHANGED <<setting, fs, kubelet, ino, watchers, runtime_config>>
      /\ Exists => u = <<"add_config", "link?", "load">> \o Tail(t)
      /\ ~Exists /\ Head(t) = "exists?" => u = << >> \o Tail(t)
      /\ ~Exists /\ Head(t) = "replaced" => u = <<"remove_config", "reset">> \o Tail(t)
  BY ContinueTodo DEF IfExists, Replaced, Step, CalmInv
<1>2. Tail(t) = << >>
  BY <1>1, TodoTails
<1>3. /\ Exists => u = <<"add_config", "link?", "load">>
      /\ ~Exists /\ Head(t) = "exists?" => u = << >>
      /\ ~Exists /\ Head(t) = "replaced" => u = <<"remove_config", "reset">>
  BY <1>1, <1>2, NothingLeft
<1>4. Head(t) = "exists?" => t \notin WillReset
  BY <1>1, ClassHeads
<1>5. CASE Exists
  <2>1. Plain(u) /\ u \in Adding /\ u \in WillLink /\ u \in WillLoad
    BY <1>3, <1>5, PlainTodo
  <2>2. u # <<"real_replaced">>
    BY <2>1, OtherTodo DEF Plain
  <2> QED
    BY <1>1, <1>5, <2>1, <2>2, QuietStep DEF Plain
<1>6. CASE ~Exists /\ Head(t) = "exists?"
  <2>1. Plain(u)
    BY <1>3, <1>6, PlainTodo
  <2>2. u # <<"real_replaced">>
    BY <2>1, OtherTodo DEF Plain
  <2> QED
    BY <1>1, <1>4, <1>6, <2>1, <2>2, QuietStep DEF Plain
<1>7. CASE ~Exists /\ Head(t) = "replaced"
  <2>1. u \in Todo /\ u \in WillReset /\ u \notin Resolving /\ u \notin AddingReal /\ u \notin OfReal
    BY <1>3, <1>7, OtherTodo
  <2>2. u # <<"real_replaced">>
    BY <2>1, OtherTodo
  <2> QED
    BY <1>1, <1>7, <2>1, <2>2, QuietStep
<1> QED
  BY <1>1, <1>5, <1>6, <1>7

\* How the provers see steps put before others.
LEMMA Joined ==
    ASSUME NEW a, NEW b, NEW c
    PROVE  (<<a>> \o <<b>> = <<a, b>>) /\ (<<a, b>> \o <<c>> = <<a, b, c>>)
<1>1. <<a>> \o <<b>> = <<a, b>>
  <2> DEFINE s == <<a>> \o <<b>>
  <2>1. s \in Seq({a, b}) /\ Len(s) = 2 /\ s[1] = a /\ s[2] = b
    BY SMTT(60)
  <2> HIDE DEF s
  <2>2. s = <<a, b>>
    BY <2>1, SMTT(60)
  <2> QED
    BY <2>2 DEF s
<1>2. <<a, b>> \o <<c>> = <<a, b, c>>
  <2> DEFINE s == <<a, b>> \o <<c>>
  <2>1. s \in Seq({a, b, c}) /\ Len(s) = 3 /\ s[1] = a /\ s[2] = b /\ s[3] = c
    BY SMTT(60)
  <2> HIDE DEF s
  <2>2. s = <<a, b, c>>
    BY <2>1, SMTT(60)
  <2> QED
    BY <2>2 DEF s
<1> QED
  BY <1>1, <1>2

\* A link is resolved next, and a file is not.
LEMMA CalmIfLink ==
    ASSUME WatchInv, CalmInv, IfLink
    PROVE  CalmInv'
\* What the steps leave: the loads and the watches to come are kept.
<1>AfterIfLink.
    ASSUME NEW t \in Todo, t # << >>, Head(t) = "link?", NEW u,
           u = Tail(t) \/ u = <<"canonical", "add_real">> \o Tail(t)
    PROVE  /\ u \in Todo /\ u \notin Removing /\ u \notin AddingReal /\ u \notin OfReal
           /\ u = Tail(t) => u \notin Resolving
           /\ u # Tail(t) => u \in WillLink
           /\ t \in WillLoad => u \in WillLoad
  <2> USE <1>AfterIfLink
  <2>1. CASE t = <<"link?", "load">> /\ Tail(t) = <<"load">>
    <3>1. CASE u = <<"load">>
      BY <2>1, <3>1, PlainTodo DEF Plain
    <3>2. CASE u = <<"canonical", "add_real", "load">>
      BY <2>1, <3>2, OtherTodo, SMTT(60)
    <3> QED
      BY <2>1, <3>1, <3>2, Joined, SMTT(60)
  <2>2. CASE t = <<"link?">> /\ Tail(t) = << >>
    <3>1. CASE u = << >>
      <4>1. t \notin WillLoad
        BY <2>2 DEF WillLoad, Adding, Loading
      <4> QED
        BY <2>2, <3>1, <4>1, PlainTodo DEF Plain
    <3>2. CASE u = <<"canonical", "add_real">>
      <4>1. t \notin WillLoad
        BY <2>2 DEF WillLoad, Adding, Loading
      <4> QED
        BY <2>2, <3>2, <4>1, OtherTodo, SMTT(60)
    <3>3. <<"canonical", "add_real">> \o << >> = <<"canonical", "add_real">>
      BY SMTT(60)
    <3> QED
      BY <2>2, <3>1, <3>2, <3>3
  <2> QED
    BY <2>1, <2>2, TodoTails
<1> DEFINE t == loader.todo
           u == loader'.todo
<1>1. /\ t \in Todo /\ t # << >> /\ Head(t) = "link?" /\ loader.pc = "handle"
      /\ loader'.pc = "handle" /\ loader'.w = loader.w /\ loader'.real = loader.real
      /\ u = (IF fs.entry = "link" THEN <<"canonical", "add_real">> ELSE << >>) \o Tail(t)
      /\ UNCHANGED <<setting, fs, kubelet, ino, watchers, runtime_config>>
  BY ContinueTodo DEF IfLink, Step, CalmInv
<1>2. fs.entry # "link" => u = Tail(t)
  BY <1>1, NoSteps, TodoTails
<1>3. fs.entry = "link" => u # Tail(t)
  BY <1>1, TodoTails, Joined, SMTT(60)
<1>4. /\ u \in Todo /\ u \notin Removing /\ u \notin AddingReal /\ u \notin OfReal
      /\ fs.entry # "link" => u \notin Resolving
      /\ fs.entry = "link" => u \in WillLink
      /\ t \in WillLoad => u \in WillLoad
  <2>1. u = Tail(t) \/ u = <<"canonical", "add_real">> \o Tail(t)
    BY <1>1, <1>2
  <2>2. t \in Todo /\ t # << >> /\ Head(t) = "link?"
    BY <1>1
  <2> HIDE DEF t, u
  <2>3. /\ u \in Todo /\ u \notin Removing /\ u \notin AddingReal /\ u \notin OfReal
        /\ u = Tail(t) => u \notin Resolving
        /\ u # Tail(t) => u \in WillLink
        /\ t \in WillLoad => u \in WillLoad
    BY <2>1, <2>2, <1>AfterIfLink
  <2> QED
    BY <1>2, <1>3, <2>3
<1>5. t \notin WillReset /\ t \notin Adding
  BY <1>1, ClassHeads
<1> QED
  BY <1>1, <1>4, <1>5, QuietStep, OtherTodo

\* Parse takes what the file holds, and Load leaves that to it.
LEMMA CalmLoad ==
    ASSUME WatchInv, CalmInv, Load \/ Parse
    PROVE  CalmInv'
\* A load that is the last step adds no watch.
<1>LoadingLinksNothing.
 <<"load">> \notin Linking /\ <<"parse">> \notin Linking
  BY DEF Linking
\* A load that is done leaves the watch to come.
<1>AfterLoad.
    ASSUME NEW t \in Todo, t # << >>, Head(t) \in {"load", "parse"}, NEW u,
           u = Tail(t) \/ u = <<"parse">> \o Tail(t)
    PROVE  /\ Plain(u) /\ (t \in WillLink => u \in WillLink)
           /\ u # Tail(t) => u \in WillLoad
  <2> USE <1>AfterLoad
  <2>1. CASE Tail(t) = <<"link?">>
    BY <2>1, Joined, PlainTodo
  <2>2. CASE t \in {<<"load">>, <<"parse">>} /\ Tail(t) = << >>
    <3>1. t \notin WillLink
      <4>1. t # << >> /\ Head(t) \in {"load", "parse"} /\ t \notin Linking
        BY <2>2, <1>LoadingLinksNothing
      <4> QED
        BY <4>1, ClassHeads DEF WillLink
    <3>2. <<"parse">> \o << >> = <<"parse">>
      BY SMTT(60)
    <3> QED
      BY <2>2, <3>1, <3>2, PlainTodo
  <2> QED
    BY <2>1, <2>2, TodoTails
<1> DEFINE t == loader.todo
           u == loader'.todo
<1>1. /\ t \in Todo /\ t # << >> /\ Head(t) \in {"load", "parse"} /\ loader.pc = "handle"
      /\ loader'.pc = "handle" /\ loader'.w = loader.w /\ loader'.real = loader.real
      /\ UNCHANGED <<setting, fs, kubelet, ino, watchers>>
      /\ \/ u = << >> \o Tail(t) /\ ~(Exists /\ Head(t) = "load")
         \/ u = <<"parse">> \o Tail(t) /\ Head(t) = "load"
      /\ Head(t) = "load" => runtime_config' = runtime_config
      /\ Head(t) = "parse" =>
            runtime_config' = IF Exists /\ fs.content[Real] \in Content THEN fs.content[Real] ELSE runtime_config
  BY ContinueTodo DEF Load, Parse, Step, CalmInv
<1>2. << >> \o Tail(t) = Tail(t) /\ <<"parse">> \o Tail(t) # Tail(t)
  BY <1>1, NoSteps, TodoTails, Joined, SMTT(60)
<1>3. Plain(u) /\ (t \in WillLink => u \in WillLink) /\ (Head(t) = "load" /\ Exists => u \in WillLoad)
  <2>1. u = Tail(t) \/ u = <<"parse">> \o Tail(t)
    BY <1>1, <1>2
  <2>2. Head(t) = "load" /\ Exists => u # Tail(t)
    BY <1>1, <1>2
  <2> HIDE DEF t, u
  <2> QED
    BY <1>1, <2>1, <2>2, <1>AfterLoad
<1>4. t \notin WillReset /\ t \notin Adding
  BY <1>1, ClassHeads
<1>5. u # <<"real_replaced">>
  BY <1>3, OtherTodo DEF Plain
<1> QED
  BY <1>1, <1>3, <1>4, <1>5, QuietStep DEF Plain

\* The configuration is dropped: a file that is there by now has its event in the queue.
LEMMA CalmReset ==
    ASSUME WatchInv, CalmInv, Reset
    PROVE  CalmInv'
<1> DEFINE t == loader.todo
           u == loader'.todo
<1>1. /\ t \in Todo /\ t # << >> /\ Head(t) = "reset" /\ loader.pc = "handle"
      /\ loader'.pc = "handle" /\ loader'.w = loader.w /\ loader'.real = loader.real
      /\ UNCHANGED <<setting, fs, kubelet, ino, watchers>> /\ runtime_config' = NoConfig
      /\ u = << >> \o Tail(t)
  BY ContinueTodo DEF Reset, Step, CalmInv
<1>2. u = << >>
  BY <1>1, TodoTails, SMTT(60)
<1>3. Plain(u)
  BY <1>2, PlainTodo
<1>4. t = <<"reset">> /\ t \in Removing /\ t \notin Adding
  BY <1>1, TodoHeads, OtherTodo, ClassHeads
<1>5. t \notin WillLink
  <2>1. <<"reset">> \notin Linking
    BY DEF Linking
  <2> QED
    BY <1>1, <1>4, <2>1, ClassHeads DEF WillLink
<1>6. Exists => Has(ino.queue, Created)
  BY <1>1, <1>4 DEF CalmInv, Fresh, Running
<1>7. u # <<"real_replaced">>
  BY <1>2, SMTT(60)
<1> QED
  BY <1>1, <1>3, <1>4, <1>5, <1>6, <1>7, QuietStep DEF Plain

\* A handler is done, the loop is left or not entered, and Stop is called.
LEMMA CalmPlaces ==
    ASSUME WatchInv, CalmInv, Handled \/ Stopped \/ NotWatched \/ Stop
    PROVE  CalmInv'
<1>1. DOMAIN loader = {"pc", "todo", "w", "real", "should_stop"}
  BY DEF WatchInv, Records
<1>2. CASE Handled
  BY <1>1, <1>2, PlaceStep DEF Handled
<1>3. CASE Stopped
  BY <1>1, <1>3, PlaceStep DEF Stopped
<1>4. CASE Stop
  BY <1>1, <1>4, PlaceStep DEF Stop
<1>5. CASE NotWatched
  BY <1>1, <1>5, PlaceStep DEF NotWatched
<1> QED
  BY <1>2, <1>3, <1>4, <1>5

\* canonical finds the file, so that it does not throw (ConfigLoader.cpp:545, :617, :635).
LEMMA CalmCanonical ==
    ASSUME WatchInv, CalmInv, Canonical
    PROVE  CalmInv'
<1> DEFINE t == loader.todo
           u == loader'.todo
<1>1. t \in Todo /\ t # << >> /\ Head(t) = "canonical" /\ loader.pc = "handle" /\ t \in Resolving
  <2>1. t \in Todo /\ t # << >> /\ Head(t) = "canonical" /\ loader.pc = "handle"
    BY DEF Canonical, Step, CalmInv, Program
  <2> QED
    BY <2>1, TodoHeads DEF Resolving
<1>2. fs.entry = "link" /\ Exists
  BY <1>1, ResolvedExists DEF CalmInv, Program
<1>3. DOMAIN loader = {"pc", "todo", "w", "real", "should_stop"}
  BY DEF WatchInv, Records
<1>4. /\ loader'.pc = "handle" /\ loader'.w = loader.w /\ loader'.real = fs.target
      /\ UNCHANGED <<setting, fs, kubelet, ino, watchers, runtime_config>> /\ u = Tail(t)
  BY <1>1, <1>2, <1>3 DEF Canonical, Real
<1>5. /\ u \in Todo /\ u \in AddingReal /\ u \in WillLink /\ u \notin Removing /\ u \notin Resolving /\ u \notin OfReal
      /\ t \in WillLoad => u \in WillLoad
  <2>1. <<"canonical", "add_real">> \notin WillLoad
    BY DEF WillLoad, Adding, Loading
  <2>2. \/ t = <<"canonical", "add_real", "load">> /\ u = <<"add_real", "load">>
        \/ t = <<"canonical", "add_real">> /\ u = <<"add_real">>
    BY <1>1, <1>4, TodoTails
  <2> QED
    BY <2>1, <2>2, OtherTodo
<1>6. t \notin WillReset /\ t \notin Adding /\ u # <<"real_replaced">>
  BY <1>1, <1>5, ClassHeads, OtherTodo
<1> QED
  BY <1>1, <1>2, <1>4, <1>5, <1>6, QuietStep

\* Every step of the thread, and Stop, keeps CalmInv.
LEMMA LoaderKeepsCalmInv ==
    ASSUME WatchInv, CalmInv, Loader \/ Stop
    PROVE  CalmInv'
BY CalmStart, CalmHandleEvent, CalmPlaces, CalmAddConfig, CalmIfLink, CalmCanonical, CalmAddReal, CalmLoad, CalmExists,
   CalmRealReplaced, CalmRemove, CalmReset DEF Loader

-----------------------------------------------------------------------------
(***************************************************************************)
(* The file system, in the settings of Converged.                          *)
(***************************************************************************)

\* A setting stays, and events that were dropped stay dropped.
LEMMA DropsStay ==
    ASSUME WatchInv, LoaderNext, ~ino'.dropped
    PROVE  ~ino.dropped /\ setting' = setting
<1>1. setting' = setting
  BY DEF LoaderNext, Loader, Start, NotWatched, HandleEvent, Stopped, Stop, Handled, AddConfig, IfLink, Canonical, AddReal, Load, Parse,
         IfExists, Replaced, RealReplaced, RemoveConfig, RemoveReal, Reset, Environment, CreateFile, MoveFileAway,
         DeleteFile, MoveDirectory, CreateLink, DeleteLink, RemoveOld, WriteFile, MoveFileIn, Publish, Op
<1> SUFFICES ~ino.dropped
  BY <1>1
<1>2. CASE UNCHANGED ino
  BY <1>2
<1>3. ASSUME NEW i, NEW mask \in Masks, NEW name \in Names, ino' = Raise(ino, i, mask, name)
      PROVE  ~ino.dropped
  BY <1>3, RaisedLess DEF Raised
<1>4. ASSUME NEW i, ino' = Gone(ino, i)
      PROVE  ~ino.dropped
  BY <1>4, GoneLess DEF Left
<1>5. ASSUME ino' \in Unlink(ino, fs.self)
      PROVE  ~ino.dropped
  <2>1. fs.self # Dir
    BY SMTT(60) DEF WatchInv, Inodes, Dir, NoInode
  <2> QED
    BY <1>5, <2>1, UnlinkLess DEF Unlinked
<1>6. ASSUME NEW path \in Paths, path # fs.self, NEW tag \in TagNames, AddWatcher(path, tag)
      PROVE  ~ino.dropped
  <2>1. CASE Lookup(path) = NoInode
    BY <1>6, <2>1 DEF AddWatcher
  <2>2. CASE Lookup(path) # NoInode
    BY <1>6, <2>2, AddWatcherAdds DEF Added
  <2> QED
    BY <2>1, <2>2
<1>7. ASSUME NEW path, RemoveWatcher(FindPath(path))
      PROVE  ~ino.dropped
  BY <1>7, RemoveWatcherRemoves DEF Removed
<1>8. ConfigPath \in Paths /\ DirPath \in Paths /\ ConfigPath # fs.self /\ DirPath # fs.self
         /\ loader.real \in Paths /\ loader.real # fs.self
  BY SMTT(60) DEF Paths, WatchInv, Inodes, ConfigPath, DirPath, NoInode
<1>9. CASE Loader \/ Stop
  <2>1. CASE Start \/ AddConfig \/ AddReal
    BY <1>6, <1>8, <2>1 DEF Start, AddConfig, AddReal, TagNames
  <2>2. CASE RemoveConfig \/ RemoveReal
    BY <1>7, <2>2 DEF RemoveConfig, RemoveReal
  <2>3. CASE HandleEvent
    BY <2>3, EventTaken
  <2> QED
    BY <1>2, <1>9, <2>1, <2>2, <2>3
    DEF Loader, NotWatched, Stopped, Stop, Handled, IfLink, Canonical, Load, Parse, IfExists, Replaced, RealReplaced, Reset
<1>10. CASE Environment
  <2>1. CASE CreateFile \/ MoveFileAway \/ MoveDirectory \/ (\E c : WriteFile(c)) \/ (\E c : Publish(c))
    BY <1>3, <2>1 DEF CreateFile, MoveFileAway, MoveDirectory, WriteFile, Publish, Masks, Names
  <2>2. CASE CreateLink
    BY <1>2, <1>3, <2>2 DEF CreateLink, Masks, Names
  <2>3. CASE DeleteFile \/ DeleteLink
    BY <1>5, <2>3 DEF DeleteFile, DeleteLink
  <2>4. CASE RemoveOld \/ \E c : MoveFileIn(c)
    BY <1>2, <1>4, <2>4 DEF RemoveOld, MoveFileIn
  <2> QED
    BY <1>10, <2>1, <2>2, <2>3, <2>4 DEF Environment
<1> QED
  BY <1>9, <1>10 DEF LoaderNext

\* The queue only grows.
Grows == \A x \in Events : Has(ino.queue, x) => Has(ino'.queue, x)

\* What was told stays told.
LEMMA ToldStays ==
    ASSUME WatchInv, Grows, watchers' = watchers
    PROVE  /\ Entries' = Entries
           /\ ConfigTold(SelfGone) => ConfigTold(SelfGone)'
           /\ ConfigTold(SelfGone \cup {"MODIFY"}) => ConfigTold(SelfGone \cup {"MODIFY"})'
           /\ RealTold(SelfGone) => RealTold(SelfGone)'
<1>1. Entries' = Entries
  BY DEF Entries, Elements
<1>2. \A w \in Entries, masks \in SUBSET Masks : Told(w, masks) => Told(w, masks)'
  <2> SUFFICES ASSUME NEW w \in Entries, NEW masks \in SUBSET Masks, Told(w, masks)
               PROVE  Told(w, masks)'
    OBVIOUS
  <2>1. PICK mask \in masks : Has(ino.queue, Event(w.wd, mask, NoName))
    BY DEF Told
  <2>2. Event(w.wd, mask, NoName) \in Events
    BY EventsAre, EntriesDiffer, SMTT(60) DEF Names, WatchInv, Entered, Entries, WatcherRecord
  <2>3. Has(ino'.queue, Event(w.wd, mask, NoName))
    BY <2>1, <2>2 DEF Grows
  <2> QED
    BY <2>3 DEF Told
<1>3. SelfGone \in SUBSET Masks /\ SelfGone \cup {"MODIFY"} \in SUBSET Masks
  BY DEF SelfGone, Masks
<1> QED
  BY <1>1, <1>2, <1>3 DEF ConfigTold, RealTold

\* An event of an entry that was just queued.
LEMMA ToldNow ==
    ASSUME watchers' = watchers, NEW w \in Entries, NEW masks, NEW mask \in masks,
           Has(ino'.queue, Event(w.wd, mask, NoName))
    PROVE  /\ w.path = ConfigPath => ConfigTold(masks)'
           /\ w.path \notin {DirPath, ConfigPath} => RealTold(masks)'
<1>1. Entries' = Entries
  BY DEF Entries, Elements
<1> QED
  BY <1>1 DEF ConfigTold, RealTold, Told

\* The watch of the file belongs to the entry of its path.
LEMMA WatchOfSelf ==
    ASSUME WatchInv, NEW wd \in DOMAIN ino.watch, ino.watch[wd] = fs.self, fs.self # NoInode
    PROVE  \E w \in Entries : w.path = ConfigPath /\ w.wd = wd
BY SMTT(60) DEF WatchInv, Matching

\* One that was deleted is watched no more, and one that is left is.
LEMMA TaggedStays ==
    ASSUME WatchInv, Tagged, UNCHANGED <<watchers, loader>>, NEW I, Less(I), Dir \notin I,
           loader.pc = "start" => ino'.queue = << >> /\ kubelet'.pc = "idle"
    PROVE  Tagged'
<1>1. Entries' = Entries
  BY DEF Entries, Elements
<1> QED
  BY <1>1 DEF Tagged, Less, Running

\* Before the thread starts no event is queued.
LEMMA NoWatchYet ==
    ASSUME WatchInv, Tagged, loader.pc = "start"
    PROVE  DOMAIN ino.watch = {} /\ ino.queue = << >> /\ kubelet.pc = "idle"
BY SMTT(60) DEF Tagged, WatchInv, Watching, Kernel

\* An event on an inode, other than that the file was deleted, which keeps the rest.
LEMMA RaisedView ==
    ASSUME WatchInv, ~ino'.dropped, NEW i, NEW mask \in Masks, NEW name \in Names, Raised(ino, ino', i, mask, name)
    PROVE  /\ Grows
           /\ DOMAIN ino.watch = {} => ino'.queue = ino.queue
           /\ \A j : Watches(j)' <=> Watches(j)
           /\ mask # "DELETE" /\ CreatedLast(ino.queue) => CreatedLast(ino'.queue)
           /\ \A wd \in DOMAIN ino.watch : ino.watch[wd] = i =>
                 /\ Queued(ino.queue, ino'.queue, Event(wd, mask, name))
                 /\ Has(ino'.queue, Event(wd, mask, name))
<1>1. \A wd \in DOMAIN ino.watch : wd \in Int
  BY SMTT(60) DEF WatchInv, Watching, Kernel
<1>2. \A j : Watches(j)' <=> Watches(j)
  BY DEF Raised, Watches
<1>3. CASE \A wd \in DOMAIN ino.watch : ino.watch[wd] # i
  <2>1. ino' = ino
    BY <1>3 DEF Raised
  <2> QED
    BY <1>2, <1>3, <2>1 DEF Grows
<1>4. ASSUME NEW wd \in DOMAIN ino.watch, ino.watch[wd] = i
      PROVE  /\ Queued(ino.queue, ino'.queue, Event(wd, mask, name)) /\ Has(ino'.queue, Event(wd, mask, name)) /\ Grows
             /\ mask # "DELETE" /\ CreatedLast(ino.queue) => CreatedLast(ino'.queue)
  <2>1. Event(wd, mask, name) \in Events /\ Event(wd, mask, name).mask = mask /\ Deleted.mask = "DELETE"
    BY <1>1, EventsAre, SMTT(60) DEF Deleted, Masks, Names
  <2>2. Queued(ino.queue, ino'.queue, Event(wd, mask, name))
    BY <1>4 DEF Raised
  <2>3. mask # "DELETE" => Event(wd, mask, name) # Deleted
    BY <2>1
  <2> QED
    BY <2>1, <2>2, <2>3 DEF Queued, Grows
<1> QED
  BY <1>2, <1>3, <1>4

\* The same, and the watch goes away.
LEMMA LeftView ==
    ASSUME WatchInv, ~ino'.dropped, NEW i, Left(ino, ino', i)
    PROVE  /\ Grows
           /\ DOMAIN ino.watch = {} => ino'.queue = ino.queue
           /\ \A j : j # i /\ Watches(j) => Watches(j)'
           /\ CreatedLast(ino.queue) => CreatedLast(ino'.queue)
           /\ \A wd \in DOMAIN ino.watch : ino.watch[wd] = i => Has(ino'.queue, Event(wd, "DELETE_SELF", NoName))
<1>1. \A wd \in DOMAIN ino.watch : wd \in Int
  BY SMTT(60) DEF WatchInv, Watching, Kernel
<1>2. \A j : j # i /\ Watches(j) => Watches(j)'
  BY DEF Left, Watches
<1>3. CASE \A wd \in DOMAIN ino.watch : ino.watch[wd] # i
  <2>1. ino'.queue = ino.queue
    BY <1>3 DEF Left
  <2> QED
    BY <1>2, <1>3, <2>1 DEF Grows
<1>4. ASSUME NEW wd \in DOMAIN ino.watch, ino.watch[wd] = i
      PROVE  /\ Has(ino'.queue, Event(wd, "DELETE_SELF", NoName)) /\ Grows
             /\ CreatedLast(ino.queue) => CreatedLast(ino'.queue)
  <2> DEFINE e == Event(wd, "DELETE_SELF", NoName)
  <2>1. e \in Events /\ e.mask = "DELETE_SELF" /\ Deleted.mask = "DELETE"
    BY <1>1, EventsAre, SMTT(60) DEF Deleted, Masks, Names
  <2>2. Queued(ino.queue, ino'.queue, e)
    BY <1>4 DEF Left
  <2>3. e # Deleted
    BY <2>1
  <2> HIDE DEF e
  <2>4. Has(ino'.queue, e) /\ Grows /\ (CreatedLast(ino.queue) => CreatedLast(ino'.queue))
    BY <2>1, <2>2, <2>3 DEF Queued, Grows
  <2> QED
    BY <2>4 DEF e
<1> QED
  BY <1>2, <1>3, <1>4

\* With a plain file nothing is resolved.
LEMMA FileDeployment ==
    ASSUME CalmInv, setting.deployment = "file"
    PROVE  /\ loader.todo \notin Resolving /\ loader.todo \notin AddingReal /\ fs.entry # "link"
           /\ kubelet.pc = "idle" /\ ~OldWatched
BY DEF CalmInv, Program, Deployed, OldWatched

\* A file that is added is loaded.
LEMMA AddingLoads == Adding \subseteq WillLoad
BY DEF WillLoad

\* A file that is created has its event.
LEMMA CalmCreateFile ==
    ASSUME WatchInv, Calm, CalmInv, CreateFile, ~ino'.dropped
    PROVE  CalmInv'
<1>1. /\ setting.deployment = "file" /\ UNCHANGED <<setting, watchers, loader, runtime_config, kubelet>>
      /\ fs' = [WithFile(Empty) EXCEPT !.ops = @ + 1] /\ ino' = Raise(ino, Dir, "CREATE", "config")
  BY DEF CreateFile, Op
<1>2. fs'.entry = "file" /\ fs'.self = fs.next
  BY <1>1, FileOps DEF WatchInv
<1>3. Exists'
  <2>1. fs.next # NoInode
    BY SMTT(60) DEF WatchInv, Inodes, NoInode
  <2> QED
    BY <1>2, <2>1 DEF Exists, Real
<1>4. Raised(ino, ino', Dir, "CREATE", "config") /\ Less({})
  BY <1>1, RaisedLess DEF Masks, Names
<1>5. DOMAIN ino.watch = {} => ino'.queue = ino.queue
  BY <1>4, RaisedView DEF Masks, Names
<1>6. Running => Has(ino'.queue, Created) /\ CreatedLast(ino'.queue)
  <2> SUFFICES ASSUME Running
               PROVE  Has(ino'.queue, Created) /\ CreatedLast(ino'.queue)
    OBVIOUS
  <2>1. 1 \in DOMAIN ino.watch /\ ino.watch[1] = Dir
    BY DEF CalmInv, Tagged
  <2>2. Queued(ino.queue, ino'.queue, Created) /\ Has(ino'.queue, Created)
    BY <1>4, <2>1, RaisedView DEF Masks, Names, Created
  <2> QED
    BY <2>2 DEF Queued
<1>7. Entries' = Entries /\ (Running' <=> Running)
  BY <1>1 DEF Entries, Elements, Running
<1>8. Program'
  BY <1>1, FileDeployment DEF CalmInv, Program
<1>9. Tagged'
  BY <1>1, <1>4, <1>5, NoWatchYet, TaggedStays DEF CalmInv
<1>10. Deployed'
  <2>1. fs'.self # NoInode
    BY <1>2, SMTT(60) DEF WatchInv, Inodes, NoInode
  <2> QED
    BY <1>1, <1>2, <1>7, <2>1, FileDeployment DEF CalmInv, Deployed
<1>11. Absent'
  BY <1>3 DEF Absent
<1>12. Fresh'
  BY <1>6, <1>7 DEF Fresh
<1>13. SelfWatched' /\ RealWatched' /\ Current'
  BY <1>6, <1>7 DEF SelfWatched, RealWatched, Current
<1> QED
  BY <1>8, <1>9, <1>10, <1>11, <1>12, <1>13 DEF CalmInv

\* One that is written has its event, or will be loaded anyway.
LEMMA CalmWriteFile ==
    ASSUME WatchInv, Calm, CalmInv, NEW c, WriteFile(c), ~ino'.dropped
    PROVE  CalmInv'
<1>1. /\ setting.deployment = "file" /\ UNCHANGED <<setting, watchers, loader, runtime_config, kubelet>>
      /\ fs' = [fs EXCEPT !.content[fs.self] = c, !.ops = @ + 1] /\ ino' = Raise(ino, fs.self, "MODIFY", NoName)
      /\ fs.entry = "file"
  BY DEF WriteFile, Op
<1>2. /\ fs'.entry = fs.entry /\ fs'.self = fs.self /\ fs'.next = fs.next
      /\ fs'.target = fs.target /\ fs'.volume = fs.volume
  BY <1>1, FileOps DEF WatchInv
<1>3. Exists /\ Exists' /\ fs.self # NoInode
  BY <1>1, <1>2 DEF Exists, Real, CalmInv, Deployed
<1>4. Raised(ino, ino', fs.self, "MODIFY", NoName) /\ Less({})
  BY <1>1, RaisedLess DEF Masks, Names
<1>5. /\ Grows /\ (DOMAIN ino.watch = {} => ino'.queue = ino.queue)
      /\ \A j : Watches(j)' <=> Watches(j)
      /\ CreatedLast(ino.queue) => CreatedLast(ino'.queue)
      /\ \A wd \in DOMAIN ino.watch : ino.watch[wd] = fs.self => Has(ino'.queue, Event(wd, "MODIFY", NoName))
  BY <1>4, RaisedView DEF Masks, Names
<1>6. (Running' <=> Running) /\ Entries' = Entries /\ (ConfigTold(SelfGone) => ConfigTold(SelfGone)')
  BY <1>1, <1>5, ToldStays DEF Running
<1>7. (Watches(fs.self)' <=> Watches(fs.self)) /\ (Has(ino.queue, Created) => Has(ino'.queue, Created))
  BY <1>2, <1>5, EventsAre, SMTT(60) DEF Grows, Watches
<1>8. Watches(fs.self) => ConfigTold(SelfGone \cup {"MODIFY"})'
  <2> SUFFICES ASSUME Watches(fs.self)
               PROVE  ConfigTold(SelfGone \cup {"MODIFY"})'
    OBVIOUS
  <2>1. PICK wd \in DOMAIN ino.watch : ino.watch[wd] = fs.self
    BY DEF Watches
  <2>2. PICK w \in Entries : w.path = ConfigPath /\ w.wd = wd
    BY <1>3, <2>1, WatchOfSelf
  <2>3. Has(ino'.queue, Event(w.wd, "MODIFY", NoName))
    BY <1>5, <2>1, <2>2
  <2>4. "MODIFY" \in SelfGone \cup {"MODIFY"}
    OBVIOUS
  <2> QED
    BY <1>1, <2>2, <2>3, <2>4, ToldNow
<1>9. Program'
  BY <1>1, <1>2 DEF CalmInv, Program
<1>10. Tagged'
  BY <1>1, <1>4, <1>5, NoWatchYet, TaggedStays DEF CalmInv
<1>11. Deployed'
  BY <1>1, <1>2, <1>6, FileDeployment DEF CalmInv, Deployed
<1>12. Absent'
  BY <1>3 DEF Absent
<1>13. Fresh'
  BY <1>1, <1>3, <1>5, <1>6, <1>7 DEF CalmInv, Fresh
<1>14. SelfWatched'
  BY <1>1, <1>3, <1>6, <1>7 DEF CalmInv, SelfWatched
<1>15. RealWatched'
  BY <1>1, <1>2 DEF RealWatched
<1>16. Current'
  <2>1. ConfigTold(SelfGone)' => ConfigTold(SelfGone \cup {"MODIFY"})'
    BY DEF ConfigTold, Told
  <2> QED
    BY <1>1, <1>3, <1>6, <1>7, <1>8, <2>1, AddingLoads DEF CalmInv, SelfWatched, Current
<1> QED
  BY <1>9, <1>10, <1>11, <1>12, <1>13, <1>14, <1>15, <1>16 DEF CalmInv

\* One that is moved over the file tells of the end of the old one.
LEMMA CalmMoveFileIn ==
    ASSUME WatchInv, Calm, CalmInv, NEW c, MoveFileIn(c), ~ino'.dropped
    PROVE  CalmInv'
<1>1. /\ setting.deployment = "file" /\ UNCHANGED <<setting, watchers, loader, runtime_config, kubelet>>
      /\ fs' = [WithFile(c) EXCEPT !.ops = @ + 1] /\ fs.entry = "file" /\ ino' = Gone(ino, fs.self)
  <2>1. setting.deployment = "file" /\ fs.entry # "none" /\ fs.entry # "link" /\ fs.entry \in {"none", "file", "link"}
    BY FileDeployment DEF MoveFileIn, Calm, WatchInv, Inodes
  <2> QED
    BY <2>1 DEF MoveFileIn, Op
<1>2. fs'.entry = "file" /\ fs'.self = fs.next
  BY <1>1, FileOps DEF WatchInv
<1>3. fs.self # NoInode /\ fs'.self # NoInode /\ fs.self # Dir
  BY <1>1, <1>2, SMTT(60) DEF CalmInv, Deployed, WatchInv, Inodes, NoInode, Dir
<1>4. Exists /\ Exists'
  BY <1>1, <1>2, <1>3 DEF Exists, Real
<1>5. Left(ino, ino', fs.self) /\ Less({fs.self})
  BY <1>1, GoneLess
<1>6. /\ Grows /\ (DOMAIN ino.watch = {} => ino'.queue = ino.queue)
      /\ CreatedLast(ino.queue) => CreatedLast(ino'.queue)
      /\ \A wd \in DOMAIN ino.watch : ino.watch[wd] = fs.self => Has(ino'.queue, Event(wd, "DELETE_SELF", NoName))
  BY <1>5, LeftView
<1>7. (Running' <=> Running) /\ Entries' = Entries /\ (ConfigTold(SelfGone) => ConfigTold(SelfGone)')
  BY <1>1, <1>6, ToldStays DEF Running
<1>8. Has(ino.queue, Created) => Has(ino'.queue, Created)
  BY <1>6, EventsAre DEF Grows
<1>9. Watches(fs.self) => ConfigTold(SelfGone)'
  <2> SUFFICES ASSUME Watches(fs.self)
               PROVE  ConfigTold(SelfGone)'
    OBVIOUS
  <2>1. PICK wd \in DOMAIN ino.watch : ino.watch[wd] = fs.self
    BY DEF Watches
  <2>2. PICK w \in Entries : w.path = ConfigPath /\ w.wd = wd
    BY <1>3, <2>1, WatchOfSelf
  <2>3. Has(ino'.queue, Event(w.wd, "DELETE_SELF", NoName))
    BY <1>6, <2>1, <2>2
  <2>4. "DELETE_SELF" \in SelfGone
    BY DEF SelfGone
  <2> QED
    BY <1>1, <2>2, <2>3, <2>4, ToldNow
<1>10. Program'
  BY <1>1, FileDeployment DEF CalmInv, Program
<1>11. Tagged'
  <2>1. Dir \notin {fs.self}
    BY <1>3
  <2> QED
    BY <1>1, <1>5, <1>6, <2>1, NoWatchYet, TaggedStays DEF CalmInv
<1>12. Deployed'
  BY <1>1, <1>2, <1>3, <1>7, FileDeployment DEF CalmInv, Deployed
<1>13. Absent'
  BY <1>4 DEF Absent
<1>14. Fresh'
  BY <1>1, <1>4, <1>6, <1>7, <1>8 DEF CalmInv, Fresh
<1>15. SelfWatched'
  BY <1>1, <1>4, <1>7, <1>8, <1>9 DEF CalmInv, SelfWatched
<1>16. RealWatched'
  BY <1>2 DEF RealWatched
<1>17. Current'
  <2>1. ConfigTold(SelfGone)' => ConfigTold(SelfGone \cup {"MODIFY"})'
    BY DEF ConfigTold, Told
  <2> QED
    BY <1>1, <1>4, <1>7, <1>8, <1>9, <2>1, AddingLoads DEF CalmInv, SelfWatched, Current
<1> QED
  BY <1>10, <1>11, <1>12, <1>13, <1>14, <1>15, <1>16, <1>17 DEF CalmInv

\* What holds of a file holds vacuously when there is none.
LEMMA NoFile ==
    ASSUME ~Exists'
    PROVE  Fresh' /\ SelfWatched' /\ RealWatched' /\ Current'
BY DEF Fresh, SelfWatched, RealWatched, Current

\* One that is moved away has its event.
LEMMA CalmMoveFileAway ==
    ASSUME WatchInv, Calm, CalmInv, MoveFileAway, ~ino'.dropped
    PROVE  CalmInv'
<1>1. /\ setting.deployment = "file" /\ UNCHANGED <<setting, watchers, loader, runtime_config, kubelet>>
      /\ fs' = [WithoutFile EXCEPT !.ops = @ + 1] /\ fs.entry = "file" /\ ino' = Raise(ino, fs.self, "MOVE_SELF", NoName)
      /\ Watches(fs.self)
  BY DEF MoveFileAway, Op, Calm
<1>2. fs'.entry = "none" /\ fs'.self = NoInode
  BY <1>1, FileOps DEF WatchInv
<1>3. ~Exists' /\ fs.self # NoInode
  BY <1>1, <1>2 DEF Exists, Real, CalmInv, Deployed
<1>4. Raised(ino, ino', fs.self, "MOVE_SELF", NoName) /\ Less({})
  BY <1>1, RaisedLess DEF Masks, Names
<1>5. /\ DOMAIN ino.watch = {} => ino'.queue = ino.queue
      /\ \A wd \in DOMAIN ino.watch : ino.watch[wd] = fs.self => Has(ino'.queue, Event(wd, "MOVE_SELF", NoName))
  BY <1>4, RaisedView DEF Masks, Names
<1>6. Entries' = Entries
  BY <1>1 DEF Entries, Elements
<1>7. ConfigTold(SelfGone)'
  <2>1. PICK wd \in DOMAIN ino.watch : ino.watch[wd] = fs.self
    BY <1>1 DEF Watches
  <2>2. PICK w \in Entries : w.path = ConfigPath /\ w.wd = wd
    BY <1>3, <2>1, WatchOfSelf
  <2>3. Has(ino'.queue, Event(w.wd, "MOVE_SELF", NoName))
    BY <1>5, <2>1, <2>2
  <2>4. "MOVE_SELF" \in SelfGone
    BY DEF SelfGone
  <2> QED
    BY <1>1, <2>2, <2>3, <2>4, ToldNow
<1>8. Program'
  BY <1>1, FileDeployment DEF CalmInv, Program
<1>9. Tagged'
  BY <1>1, <1>4, <1>5, NoWatchYet, TaggedStays DEF CalmInv
<1>10. Deployed'
  BY <1>1, <1>2, <1>6, FileDeployment DEF CalmInv, Deployed
<1>11. Absent'
  BY <1>7 DEF Absent
<1> QED
  BY <1>3, <1>8, <1>9, <1>10, <1>11, NoFile DEF CalmInv

\* One that is deleted has the event of the directory.
LEMMA CalmDeleteFile ==
    ASSUME WatchInv, Calm, CalmInv, DeleteFile, ~ino'.dropped
    PROVE  CalmInv'
<1>1. /\ setting.deployment = "file" /\ UNCHANGED <<setting, watchers, loader, runtime_config, kubelet>>
      /\ fs' = [WithoutFile EXCEPT !.ops = @ + 1] /\ fs.entry = "file" /\ ino' \in Unlink(ino, fs.self)
      /\ Watches(Dir)
  BY DEF DeleteFile, Op, Calm
<1>2. fs'.entry = "none" /\ fs'.self = NoInode
  BY <1>1, FileOps DEF WatchInv
<1>3. ~Exists' /\ fs.self # Dir
  BY <1>1, <1>2, SMTT(60) DEF Exists, Real, WatchInv, Inodes, NoInode, Dir
<1>4. Unlinked(ino, ino', fs.self) /\ Less({fs.self})
  BY <1>1, <1>3, UnlinkLess
<1>5. Entries' = Entries
  BY <1>1 DEF Entries, Elements
<1>6. loader.pc # "start"
  BY <1>1, NoWatchYet DEF CalmInv, Watches
<1>7. loader.pc # "ended" => Has(ino'.queue, Deleted)
  <2>1. loader.pc # "ended" => Running
    BY <1>6 DEF Running, CalmInv, Program, WatchInv, Places
  <2>2. Running => 1 \in DOMAIN ino.watch /\ ino.watch[1] = Dir
    BY DEF CalmInv, Tagged
  <2> QED
    BY <1>4, <2>1, <2>2 DEF Unlinked, Deleted
<1>8. Program'
  BY <1>1, FileDeployment DEF CalmInv, Program
<1>9. Tagged'
  <2>1. Dir \notin {fs.self}
    BY <1>3
  <2> QED
    BY <1>1, <1>4, <1>6, <2>1, TaggedStays DEF CalmInv
<1>10. Deployed'
  BY <1>1, <1>2, <1>5, FileDeployment DEF CalmInv, Deployed
<1>11. Absent'
  BY <1>1, <1>7 DEF Absent
<1> QED
  BY <1>3, <1>8, <1>9, <1>10, <1>11, NoFile DEF CalmInv

\* The file, its watches and what is to be done about it stay, and events are added.
LEMMA GrowStep ==
    ASSUME WatchInv, CalmInv, Grows, UNCHANGED <<setting, watchers, loader, runtime_config>>,
           Program' /\ Tagged' /\ Deployed', kubelet.pc # "unlink",
           fs'.entry = fs.entry, fs'.self = fs.self, fs'.target = fs.target, fs'.content = fs.content,
           CreatedLast(ino.queue) => CreatedLast(ino'.queue),
           Watches(fs.self) => Watches(fs.self)', Watches(fs.target) => Watches(fs.target)',
           OldWatched => OldWatched' \/ RealTold(SelfGone)'
    PROVE  CalmInv'
<1>1. (Exists' <=> Exists) /\ Real' = Real
  BY DEF Exists, Real
<1>2. /\ Entries' = Entries
      /\ ConfigTold(SelfGone) => ConfigTold(SelfGone)'
      /\ ConfigTold(SelfGone \cup {"MODIFY"}) => ConfigTold(SelfGone \cup {"MODIFY"})'
      /\ RealTold(SelfGone) => RealTold(SelfGone)'
  BY ToldStays
<1>3. (Has(ino.queue, Created) => Has(ino'.queue, Created)) /\ (Has(ino.queue, Deleted) => Has(ino'.queue, Deleted))
  BY EventsAre DEF Grows
<1>4. Absent'
  BY <1>1, <1>2, <1>3 DEF CalmInv, Absent
<1>5. Fresh'
  BY <1>1, <1>3 DEF CalmInv, Fresh, Running
<1>6. SelfWatched'
  BY <1>1, <1>2, <1>3 DEF CalmInv, SelfWatched, Running
<1>7. RealWatched'
  BY <1>1, <1>2, <1>3 DEF CalmInv, RealWatched, Running
<1>8. Current'
  BY <1>1, <1>2, <1>3 DEF CalmInv, Current, Running
<1> QED
  BY <1>4, <1>5, <1>6, <1>7, <1>8 DEF CalmInv

\* A directory that is moved away leaves the file.
LEMMA CalmMoveDirectory ==
    ASSUME WatchInv, Calm, CalmInv, MoveDirectory, ~ino'.dropped
    PROVE  CalmInv'
<1>1. /\ setting.deployment = "file" /\ UNCHANGED <<setting, watchers, loader, runtime_config, kubelet>>
      /\ fs' = [fs EXCEPT !.ops = @ + 1] /\ ino' = Raise(ino, Dir, "MOVE_SELF", NoName)
  BY DEF MoveDirectory, Op
<1>2. /\ fs'.entry = fs.entry /\ fs'.self = fs.self /\ fs'.next = fs.next
      /\ fs'.target = fs.target /\ fs'.volume = fs.volume /\ fs'.content = fs.content
  BY <1>1, FileOps DEF WatchInv
<1>3. Raised(ino, ino', Dir, "MOVE_SELF", NoName) /\ Less({})
  BY <1>1, RaisedLess DEF Masks, Names
<1>4. /\ Grows /\ (DOMAIN ino.watch = {} => ino'.queue = ino.queue)
      /\ \A j : Watches(j)' <=> Watches(j)
      /\ CreatedLast(ino.queue) => CreatedLast(ino'.queue)
  BY <1>3, RaisedView DEF Masks, Names
<1>5. (Watches(fs.self) => Watches(fs.self)') /\ (Watches(fs.target) => Watches(fs.target)')
  BY <1>2, <1>4, SMTT(60) DEF Watches
<1>6. Entries' = Entries
  BY <1>1 DEF Entries, Elements
<1>7. Program'
  BY <1>1, <1>2 DEF CalmInv, Program
<1>8. Tagged'
  BY <1>1, <1>3, <1>4, NoWatchYet, TaggedStays DEF CalmInv
<1>9. Deployed'
  BY <1>1, <1>2, <1>6, FileDeployment DEF CalmInv, Deployed
<1>10. kubelet.pc # "unlink" /\ ~OldWatched
  BY <1>1, FileDeployment
<1> QED
  BY <1>1, <1>2, <1>4, <1>5, <1>7, <1>8, <1>9, <1>10, GrowStep

\* All events handled, and nothing published since: what is to come has come.
LEMMA Settled ==
    ASSUME CalmInv, Idle, kubelet.pc = "idle"
    PROVE  /\ loader.todo = << >>
           /\ ~Exists => runtime_config = NoConfig
           /\ Exists => Watches(fs.self)
           /\ Exists /\ fs.entry = "link" => Watches(fs.target)
           /\ Exists /\ fs.content[Real] \in Content => runtime_config = fs.content[Real]
<1>1. loader.pc = "loop" /\ ino.queue = << >> /\ loader.todo = << >> /\ Running
  BY DEF Idle, CalmInv, Program, Running
<1>2. loader.todo \notin WillReset /\ loader.todo \notin Adding /\ loader.todo \notin WillLink /\ loader.todo \notin WillLoad
  <2>1. << >> \notin Linking /\ << >> \notin WillLoad
    BY DEF Linking, WillLoad, Adding, Loading
  <2> QED
    BY <1>1, <2>1, ClassHeads DEF WillLink
<1>3. \A e : ~Has(ino.queue, e)
  BY <1>1, SMTT(60) DEF Has
<1>4. \A masks : ~ConfigTold(masks) /\ ~RealTold(masks)
  BY <1>3 DEF ConfigTold, RealTold, Told
<1>5. ~OldWatched
  BY DEF OldWatched
<1>6. ~Exists => runtime_config = NoConfig
  BY <1>1, <1>2, <1>3, <1>4 DEF CalmInv, Absent
<1>7. Exists => Watches(fs.self)
  BY <1>1, <1>2, <1>3, <1>4 DEF CalmInv, SelfWatched
<1>8. Exists /\ fs.entry = "link" => Watches(fs.target)
  BY <1>1, <1>2, <1>3, <1>4, <1>5 DEF CalmInv, RealWatched
<1>9. Exists /\ fs.content[Real] \in Content => runtime_config = fs.content[Real]
  BY <1>1, <1>2, <1>3, <1>4, <1>5 DEF CalmInv, Current
<1> QED
  BY <1>1, <1>6, <1>7, <1>8, <1>9

\* A version is published when the last one was handled: the old file has a watch.
LEMMA CalmPublish ==
    ASSUME WatchInv, Calm, CalmInv, NEW c, Publish(c), ~ino'.dropped
    PROVE  CalmInv'
<1>1. fs.next # NoInode /\ fs.next \in Nat \ {0}
  BY SMTT(60) DEF WatchInv, Inodes, NoInode
<1>2. /\ setting.deployment = "configmap" /\ kubelet.pc = "idle" /\ (c = NoConfig => fs.entry = "link")
      /\ Idle /\ UNCHANGED <<setting, watchers, loader, runtime_config>>
      /\ fs'.entry = fs.entry /\ fs'.self = fs.self /\ fs'.next = fs.next + 1
      /\ c = NoConfig => fs'.target = NoInode /\ fs'.volume = fs.volume /\ kubelet'.pc = "unlink"
      /\ c # NoConfig => fs'.target = fs.next /\ fs'.volume = fs.volume \cup {fs.next} /\ kubelet'.pc = "link"
      /\ kubelet'.old = fs.target
      /\ ino' = Raise(ino, Dir, "CREATE", "version")
  BY <1>1, PublishOps DEF Calm, WatchInv
<1>3. Raised(ino, ino', Dir, "CREATE", "version") /\ Less({})
  BY <1>2, RaisedLess DEF Masks, Names
<1>4. loader.pc = "loop" /\ ino.queue = << >> /\ loader.todo = << >>
  BY <1>2, Settled DEF Idle
<1>5. 1 \in DOMAIN ino.watch /\ ino.watch[1] = Dir
  BY <1>4 DEF CalmInv, Tagged, Running
<1>6. Queued(ino.queue, ino'.queue, Versioned) /\ \A j : Watches(j)' <=> Watches(j)
  BY <1>3, <1>5, RaisedView DEF Masks, Names, Versioned
<1>7. CreatedLast(ino'.queue) /\ \A e \in Events : Has(ino'.queue, e) => e = Versioned
  BY <1>4, <1>6, EventsAre, SMTT(60) DEF Queued, CreatedLast, Has
<1>8. fs.entry \in {"none", "link"}
  BY <1>2 DEF CalmInv, Deployed, WatchInv, Inodes
<1>9. fs.entry = "link" => Exists /\ fs.target # NoInode
  BY <1>2 DEF CalmInv, Deployed, Exists, Real
<1>10. fs.entry = "none" => ~Exists /\ ~Exists' /\ fs.target = NoInode
  BY <1>2 DEF CalmInv, Deployed, Exists, Real
<1>11. fs.entry = "link" /\ c # NoConfig => Watches(fs.self)' /\ OldWatched'
  <2> SUFFICES ASSUME fs.entry = "link", c # NoConfig
               PROVE  Watches(fs.self)' /\ OldWatched'
    OBVIOUS
  <2>1. Watches(fs.self) /\ Watches(fs.target)
    BY <1>2, <1>9, Settled
  <2>2. Watches(fs.self)' /\ Watches(kubelet.old)'
    BY <1>2, <1>6, <2>1, SMTT(60) DEF Watches
  <2> QED
    BY <1>2, <1>9, <2>2 DEF OldWatched
<1>12. c = NoConfig => ~Exists'
  BY <1>2 DEF Exists, Real
<1>13. Program'
  BY <1>2, <1>4, PlainTodo DEF CalmInv, Program, Plain
<1>14. Tagged'
  BY <1>2, <1>3, <1>4, TaggedStays DEF CalmInv
<1>15. Deployed'
  <2>1. fs.target # NoInode => fs.target \in fs.volume /\ fs.target # fs.next
    BY <1>1, <1>2, SMTT(60) DEF CalmInv, Deployed, WatchInv, Inodes
  <2>2. kubelet'.old # NoInode => kubelet'.old \in fs'.volume /\ kubelet'.old # fs'.target
    BY <1>2, <2>1
  <2>3. fs'.target # NoInode => fs'.target \in fs'.volume
    BY <1>2
  <2>4. fs'.self # NoInode <=> fs'.entry # "none"
    BY <1>2 DEF CalmInv, Deployed
  <2>5. fs'.entry = "link" => (fs'.target # NoInode <=> kubelet'.pc # "unlink")
    BY <1>1, <1>2
  <2>6. fs'.entry = "none" => (fs'.target # NoInode <=> kubelet'.pc = "link")
    BY <1>1, <1>2
  <2> QED
    BY <1>2, <1>4, <1>7, <1>8, <2>2, <2>3, <2>4, <2>5, <2>6 DEF Deployed
<1>16. Absent'
  <2>1. fs.entry = "none" => runtime_config' = NoConfig
    BY <1>2, <1>10, Settled
  <2>2. fs.entry = "link" /\ c # NoConfig => Exists'
    BY <1>1, <1>2 DEF Exists, Real
  <2> QED
    BY <1>2, <1>8, <2>1, <2>2 DEF Absent
<1>17. Fresh'
  BY <1>2, <1>4, <1>7, PlainTodo DEF Fresh, Plain
<1>18. SelfWatched' /\ RealWatched'
  BY <1>8, <1>10, <1>11, <1>12 DEF SelfWatched, RealWatched
<1>19. Current'
  BY <1>2, <1>8, <1>10, <1>11, <1>12 DEF Current
<1> QED
  BY <1>13, <1>14, <1>15, <1>16, <1>17, <1>18, <1>19 DEF CalmInv

\* A link that is created has the event of the directory.
LEMMA CalmCreateLink ==
    ASSUME WatchInv, Calm, CalmInv, CreateLink, ~ino'.dropped
    PROVE  CalmInv'
<1>1. /\ kubelet.pc = "link" /\ kubelet'.pc = "clean" /\ kubelet'.old = kubelet.old
      /\ UNCHANGED <<setting, watchers, loader, runtime_config>>
  BY LinkOps DEF CreateLink, WatchInv
<1>2. setting.deployment = "configmap" /\ loader.todo = << >> /\ fs.entry # "file" /\ fs.target # NoInode
  BY <1>1, Limits DEF CalmInv, Deployed, WatchInv, Records, Inodes
<1>3. CASE fs.entry = "link"
  <2>1. UNCHANGED <<fs, ino>>
    BY <1>3 DEF CreateLink
  <2>2. (OldWatched => OldWatched') /\ Grows /\ Entries' = Entries
    BY <1>1, <2>1 DEF OldWatched, Watches, Grows, Entries, Elements
  <2>3. Program'
    BY <1>1, <2>1 DEF CalmInv, Program
  <2>4. Tagged'
    BY <1>1, <2>1, <2>2 DEF CalmInv, Tagged, Running
  <2>5. Deployed'
    BY <1>1, <1>2, <1>3, <2>1, <2>2 DEF CalmInv, Deployed
  <2>6. (Watches(fs.self) => Watches(fs.self)') /\ (Watches(fs.target) => Watches(fs.target)')
    BY <2>1 DEF Watches
  <2> QED
    BY <1>1, <2>1, <2>2, <2>3, <2>4, <2>5, <2>6, GrowStep
<1>4. CASE fs.entry # "link"
  <2>1. /\ fs'.entry = "link" /\ fs'.self = fs.next /\ fs'.next = fs.next + 1
        /\ fs'.target = fs.target /\ fs'.volume = fs.volume /\ ino' = Raise(ino, Dir, "CREATE", "config")
    BY <1>4, CreateLinkOps DEF WatchInv
  <2>2. Raised(ino, ino', Dir, "CREATE", "config") /\ Less({})
    BY <2>1, RaisedLess DEF Masks, Names
  <2>3. Exists' /\ fs'.self # NoInode
    BY <1>2, <2>1, SMTT(60) DEF Exists, Real, WatchInv, Inodes, NoInode
  <2>4. Running => Has(ino'.queue, Created) /\ CreatedLast(ino'.queue)
    <3> SUFFICES ASSUME Running
                 PROVE  Has(ino'.queue, Created) /\ CreatedLast(ino'.queue)
      OBVIOUS
    <3>1. 1 \in DOMAIN ino.watch /\ ino.watch[1] = Dir
      BY DEF CalmInv, Tagged
    <3>2. Queued(ino.queue, ino'.queue, Created) /\ Has(ino'.queue, Created)
      BY <2>2, <3>1, RaisedView DEF Masks, Names, Created
    <3> QED
      BY <3>2 DEF Queued
  <2>5. (Running' <=> Running) /\ loader.pc # "start"
    BY <1>1 DEF Running, CalmInv, Tagged
  <2>6. Program'
    BY <1>1, <1>2, PlainTodo DEF CalmInv, Program, Plain
  <2>7. Tagged'
    BY <1>1, <2>2, <2>5, TaggedStays DEF CalmInv
  <2>8. Deployed'
    BY <1>1, <1>2, <2>1, <2>3 DEF CalmInv, Deployed
  <2>9. Absent'
    BY <2>3 DEF Absent
  <2>10. Fresh' /\ SelfWatched' /\ RealWatched' /\ Current'
    BY <2>4, <2>5 DEF Fresh, SelfWatched, RealWatched, Current
  <2> QED
    BY <2>6, <2>7, <2>8, <2>9, <2>10 DEF CalmInv
<1> QED
  BY <1>3, <1>4

\* So has one that is deleted.
LEMMA CalmDeleteLink ==
    ASSUME WatchInv, Calm, CalmInv, DeleteLink, ~ino'.dropped
    PROVE  CalmInv'
<1>1. /\ kubelet.pc = "unlink" /\ kubelet'.pc = "clean" /\ kubelet'.old = kubelet.old
      /\ UNCHANGED <<setting, watchers, loader, runtime_config>> /\ fs' = WithoutFile /\ ino' \in Unlink(ino, fs.self)
  BY LinkOps DEF DeleteLink, WatchInv
<1>2. setting.deployment = "configmap" /\ loader.todo = << >> /\ fs.entry = "link" /\ fs.target = NoInode
  BY <1>1, Limits DEF CalmInv, Deployed, WatchInv, Records
<1>3. /\ fs'.entry = "none" /\ fs'.self = NoInode /\ fs'.next = fs.next
      /\ fs'.target = fs.target /\ fs'.volume = fs.volume
  BY <1>1, FileOps DEF WatchInv
<1>4. ~Exists' /\ fs.self # Dir
  BY <1>3, SMTT(60) DEF Exists, Real, WatchInv, Inodes, NoInode, Dir
<1>5. Unlinked(ino, ino', fs.self) /\ Less({fs.self})
  BY <1>1, <1>4, UnlinkLess
<1>6. loader.pc # "start"
  BY <1>1 DEF CalmInv, Tagged
<1>7. loader.pc # "ended" => Has(ino'.queue, Deleted)
  <2>1. loader.pc # "ended" => Running
    BY <1>6 DEF Running, CalmInv, Program, WatchInv, Places
  <2>2. Running => 1 \in DOMAIN ino.watch /\ ino.watch[1] = Dir
    BY DEF CalmInv, Tagged
  <2> QED
    BY <1>5, <2>1, <2>2 DEF Unlinked, Deleted
<1>8. Program'
  BY <1>1, <1>2, PlainTodo DEF CalmInv, Program, Plain
<1>9. Tagged'
  <2>1. Dir \notin {fs.self}
    BY <1>4
  <2> QED
    BY <1>1, <1>5, <1>6, <2>1, TaggedStays DEF CalmInv
<1>10. Deployed'
  BY <1>1, <1>2, <1>3 DEF CalmInv, Deployed
<1>11. Absent'
  BY <1>1, <1>7 DEF Absent
<1> QED
  BY <1>4, <1>8, <1>9, <1>10, <1>11, NoFile DEF CalmInv

\* The old file tells of its end through its watch.
LEMMA CalmRemoveOld ==
    ASSUME WatchInv, Calm, CalmInv, RemoveOld, ~ino'.dropped
    PROVE  CalmInv'
<1>1. /\ kubelet.pc = "clean" /\ kubelet'.pc = "idle"
      /\ fs'.entry = fs.entry /\ fs'.self = fs.self /\ fs'.next = fs.next
      /\ fs'.target = fs.target /\ fs'.volume = fs.volume \ {kubelet.old} /\ fs'.content = fs.content
      /\ UNCHANGED <<setting, watchers, loader, runtime_config>>
      /\ ino' = Gone(ino, kubelet.old)
  BY RemoveOldOps DEF RemoveOld, WatchInv
<1>2. Left(ino, ino', kubelet.old) /\ Less({kubelet.old})
  BY <1>1, GoneLess
<1>3. /\ Grows
      /\ \A j : j # kubelet.old /\ Watches(j) => Watches(j)'
      /\ CreatedLast(ino.queue) => CreatedLast(ino'.queue)
      /\ \A wd \in DOMAIN ino.watch : ino.watch[wd] = kubelet.old => Has(ino'.queue, Event(wd, "DELETE_SELF", NoName))
  BY <1>2, LeftView
<1>4. kubelet.old # NoInode => kubelet.old \in fs.volume /\ kubelet.old # fs.target /\ kubelet.old # fs.self
  BY <1>1 DEF CalmInv, Deployed, WatchInv, Inodes
<1>5. ~Watches(NoInode) /\ kubelet.old # Dir
  BY <1>4, SMTT(60) DEF Watches, WatchInv, Watching, Inodes, NoInode, Dir
<1>6. /\ Watches(fs.self) => fs.self # kubelet.old
      /\ Watches(fs.target) => fs.target # kubelet.old
  BY <1>4, <1>5
<1>7. (Watches(fs.self) => Watches(fs.self)') /\ (Watches(fs.target) => Watches(fs.target)')
  BY <1>1, <1>3, <1>6, SMTT(60) DEF Watches
<1>8. OldWatched => RealTold(SelfGone)'
  <2> SUFFICES ASSUME OldWatched
               PROVE  RealTold(SelfGone)'
    OBVIOUS
  <2>1. PICK wd \in DOMAIN ino.watch : ino.watch[wd] = kubelet.old
    BY DEF OldWatched, Watches
  <2>2. kubelet.old \in fs.volume /\ kubelet.old \notin {DirPath, ConfigPath}
    BY <1>4, SMTT(60) DEF OldWatched, WatchInv, Inodes, DirPath, ConfigPath
  <2>3. PICK w \in Entries : w.wd = wd
    BY DEF WatchInv, Matching
  <2>4. w.path = kubelet.old
    BY <2>1, <2>2, <2>3 DEF WatchInv, Matching
  <2>5. Has(ino'.queue, Event(w.wd, "DELETE_SELF", NoName))
    BY <1>3, <2>1, <2>3
  <2>6. "DELETE_SELF" \in SelfGone
    BY DEF SelfGone
  <2> QED
    BY <1>1, <2>2, <2>4, <2>5, <2>6, ToldNow
<1>9. Entries' = Entries /\ setting.deployment = "configmap" /\ loader.pc # "start"
  BY <1>1, Limits, SMTT(60) DEF Entries, Elements, CalmInv, Deployed, Tagged, WatchInv, Records
<1>10. Program'
  BY <1>1 DEF CalmInv, Program
<1>11. Tagged'
  <2>1. Dir \notin {kubelet.old}
    BY <1>5
  <2> QED
    BY <1>1, <1>2, <1>9, <2>1, TaggedStays DEF CalmInv
<1>12. Deployed'
  BY <1>1, <1>4, <1>9 DEF CalmInv, Deployed
<1> QED
  BY <1>1, <1>3, <1>7, <1>8, <1>10, <1>11, <1>12, GrowStep

\* Every change of the file system keeps CalmInv.
LEMMA EnvironmentKeepsCalmInv ==
    ASSUME WatchInv, Calm, CalmInv, Environment, ~ino'.dropped
    PROVE  CalmInv'
BY CalmCreateFile, CalmWriteFile, CalmMoveFileIn, CalmMoveFileAway, CalmDeleteFile, CalmMoveDirectory, CalmPublish,
   CalmCreateLink, CalmDeleteLink, CalmRemoveOld DEF Environment

-----------------------------------------------------------------------------
(***************************************************************************)
(* LoaderConverges.                                                        *)
(***************************************************************************)

\* In the settings in which every change is told of, and while no event was dropped, a
\* difference between the file and the configuration, or its watches, has an event in the
\* queue or a step of a handler that will make up for it.
THEOREM CalmInvHolds == LoaderSpec => [](Calm => CalmInv)
<1>1. LoaderInit => (Calm => CalmInv)
  BY CalmInvInit
<1>2. WatchInv /\ (Calm => CalmInv) /\ [LoaderNext]_loaderVars => (Calm => CalmInv)'
  <2> SUFFICES ASSUME WatchInv, Calm => CalmInv, [LoaderNext]_loaderVars, Calm'
               PROVE  CalmInv'
    OBVIOUS
  <2>1. CASE LoaderNext
    <3>1. Calm /\ ~ino'.dropped
      BY <2>1, DropsStay DEF Calm
    <3> QED
      BY <2>1, <3>1, LoaderKeepsCalmInv, EnvironmentKeepsCalmInv DEF LoaderNext
  <2>2. CASE UNCHANGED loaderVars
    <3>1. UNCHANGED <<setting, fs, kubelet, ino, watchers, loader, runtime_config>>
      BY <2>2 DEF loaderVars
    <3>2. CalmInv
      BY <3>1 DEF Calm
    <3> QED
      BY <3>1, <3>2, PlaceStep
  <2> QED
    BY <2>1, <2>2
<1> QED
  BY <1>1, <1>2, WatchInvHolds, PTL DEF LoaderSpec

\* With all events handled the configuration is that of the file, or the default when there
\* is none; the directory, the file and the file it points to are watched; and no change of
\* the file has ended the process (ConfigLoader.cpp:553-671).  This holds for any number of
\* changes, made between any two steps of the handlers, unless a change was one of which no
\* watch tells, a version was published before the last one was handled, or events were dropped.
THEOREM LoaderConverges == LoaderSpec => []Converged
<1>1. WatchInv /\ (Calm => CalmInv) => Converged
  <2> SUFFICES ASSUME WatchInv, CalmInv
               PROVE  UpToDate /\ Watched /\ NoRestartNeeded
    BY DEF Converged, Calm
  <2>1. UpToDate
    BY Settled DEF UpToDate
  <2>2. Watched
    <3> SUFFICES ASSUME Idle, kubelet.pc = "idle", Exists
                 PROVE  Watches(Dir) /\ Watches(fs.self) /\ Watches(Real)
      BY DEF Watched
    <3>1. Watches(fs.self) /\ (fs.entry = "link" => Watches(fs.target))
      BY Settled
    <3>2. Watches(Real)
      BY <3>1 DEF Real
    <3>3. Watches(Dir)
      BY DEF CalmInv, Tagged, Running, Idle, Watches
    <3> QED
      BY <3>1, <3>2, <3>3
  <2>3. NoRestartNeeded
    BY DEF CalmInv, Program, NoRestartNeeded
  <2> QED
    BY <2>1, <2>2, <2>3
<1> QED
  BY <1>1, WatchInvHolds, CalmInvHolds, PTL

=============================================================================
