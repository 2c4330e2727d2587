---------------------------- MODULE ConfigLoader -----------------------------
(***************************************************************************)
(* The runtime configuration: the thread that watches the configuration    *)
(* file with inotify and reloads it (ConfigLoader.cpp, Inotify.cpp), and   *)
(* the file system it watches, in which the file is a plain file that an   *)
(* administrator edits, or a symbolic link into a volume that the kubelet  *)
(* publishes: config -> ..data/config, ..data -> a directory per version.  *)
(* The steps of a handler interleave with those of the file system.        *)
(*                                                                         *)
(* inotify is modelled from how the code uses it: one watch per inode,     *)
(* descriptors that are never reused, one queue of events, in which an     *)
(* event equal to the last one queued is merged with it.  IN_IGNORED, which *)
(* no branch reacts to, is left out.                                       *)
(***************************************************************************)
EXTENDS Integers, Sequences, FiniteSets

CONSTANTS
    Content,        \* contents that parse
    Settings,       \* the settings in which the loader runs
    MaxOps          \* bound: operations on the file system

\* A setting: how the file is deployed; the changes that are made while no watch tells
\* of them, none, removals before the thread starts, or moves of a file to or from a
\* path that has no watch; whether the kubelet starts to publish before the last
\* version was handled; and max_queued_events.
AllSettings ==
    [deployment : {"file", "configmap"}, unseen : {"never", "start", "moves"}, racing : BOOLEAN,
     queue_limit : Nat \ {0}]

ASSUME LoaderAssumption == Settings \subseteq AllSettings /\ MaxOps \in Nat

VARIABLES
    setting,    \* the setting, which does not change
    fs,         \* the file system
    kubelet,    \* where the kubelet is in publishing a version
    ino,        \* the kernel's side of inotify
    watchers,   \* Inotify::watchers_
    loader,     \* the thread: its place, the steps still to do, the real path it found
    runtime_config      \* CollectorConfig::runtime_config_

loaderVars == <<setting, fs, kubelet, ino, watchers, loader, runtime_config>>

\* f with the value v at k.
With(f, k, v) == [x \in DOMAIN f \cup {k} |-> IF x = k THEN v ELSE f[x]]

Dir == 0            \* the inode of the directory
NoInode == -1
Empty == "empty"    \* a file just created or truncated does not parse
NoConfig == "none"
NoName == "self"     \* the name in an event of the watched inode itself

\* The inode that opening the configuration file reaches; exists() of it.
Real == IF fs.entry = "link" THEN fs.target ELSE fs.self
Exists == Real # NoInode

\* The inode at a path.  The path of inode i of the volume is i.
DirPath == 0
ConfigPath == -2

Lookup(path) ==
    CASE path = DirPath -> Dir
      [] path = ConfigPath -> fs.self
      [] OTHER -> IF path \in fs.volume THEN path ELSE NoInode

-----------------------------------------------------------------------------
(***************************************************************************)
(* inotify.                                                                *)
(***************************************************************************)

Event(wd, mask, name) == [wd |-> wd, mask |-> mask, name |-> name]

\* An event is merged with an equal one before it.  A queue that is full takes one
\* more event, which says so.
Enqueue(n, e) ==
    LET q == n.queue IN
    IF q # << >> /\ q[Len(q)] = e THEN n
    ELSE IF Len(q) < setting.queue_limit THEN [n EXCEPT !.queue = Append(q, e)]
    ELSE IF Len(q) = setting.queue_limit
         THEN [n EXCEPT !.queue = Append(q, Event(NoInode, "Q_OVERFLOW", NoName)), !.dropped = TRUE]
    ELSE n

\* The event on inode i, if it is watched.
Raise(n, i, mask, name) ==
    LET wds == {wd \in DOMAIN n.watch : n.watch[wd] = i}
    IN  IF wds = {} THEN n
        ELSE Enqueue(n, Event(CHOOSE wd \in wds : TRUE, mask, name))

Unwatch(n, wds) == [n EXCEPT !.watch = [wd \in DOMAIN n.watch \ wds |-> n.watch[wd]]]

\* The last link to inode i goes away, and the watch with it.
Gone(n, i) == Unwatch(Raise(n, i, "DELETE_SELF", NoName), {wd \in DOMAIN n.watch : n.watch[wd] = i})

\* A file is unlinked: kernels differ in which of the two events comes first.
Unlink(n, i) ==
    {Gone(Raise(n, Dir, "DELETE", "config"), i), Raise(Gone(n, i), Dir, "DELETE", "config")}

\* inotify_add_watch on inode i: the descriptor and the new state.
AddWatch(n, i) ==
    LET wds == {wd \in DOMAIN n.watch : n.watch[wd] = i}
    IN  IF wds # {} THEN [wd |-> CHOOSE wd \in wds : TRUE, ino |-> n]
        ELSE [wd |-> n.next, ino |-> [n EXCEPT !.watch = With(@, n.next, i), !.next = @ + 1]]

-----------------------------------------------------------------------------
(***************************************************************************)
(* Inotify.cpp.                                                            *)
(***************************************************************************)

FindPath(path) == {k \in DOMAIN watchers : watchers[k].path = path}

FindWd(wd) == {k \in DOMAIN watchers : watchers[k].wd = wd}

\* Faulty variant: the watch of a file that was replaced is kept.
AddWatcherKeepingOld(path, tag) ==
    IF Lookup(path) = NoInode THEN UNCHANGED <<ino, watchers>>
    ELSE LET r == AddWatch(ino, Lookup(path)) IN
         IF FindPath(path) = {}
         THEN ino' = r.ino /\ watchers' = Append(watchers, [wd |-> r.wd, path |-> path, tag |-> tag])
         ELSE LET k == CHOOSE k \in FindPath(path) : TRUE IN
              /\ ino' = r.ino
              /\ watchers' = [watchers EXCEPT ![k] = [wd |-> r.wd, path |-> path, tag |-> tag]]

AddWatcher(path, tag) ==
    IF Lookup(path) = NoInode THEN UNCHANGED <<ino, watchers>>
    ELSE LET r == AddWatch(ino, Lookup(path)) IN
         IF FindPath(path) = {}
         THEN ino' = r.ino /\ watchers' = Append(watchers, [wd |-> r.wd, path |-> path, tag |-> tag])
         ELSE LET k == CHOOSE k \in FindPath(path) : TRUE
                  old == watchers[k].wd
              IN
              /\ ino' = IF old # r.wd THEN Unwatch(r.ino, {old}) ELSE r.ino
              /\ watchers' = [watchers EXCEPT ![k] = [wd |-> r.wd, path |-> path, tag |-> tag]]

\* watchers_.erase
Erase(s, i) == [j \in 1..(Len(s) - 1) |-> IF j < i THEN s[j] ELSE s[j + 1]]

RemoveWatcher(ks) ==
    IF ks = {} THEN UNCHANGED <<ino, watchers>>
    ELSE LET k == CHOOSE k \in ks : TRUE IN
         /\ ino' = Unwatch(ino, {watchers[k].wd})
         /\ watchers' = Erase(watchers, k)

-----------------------------------------------------------------------------
(***************************************************************************)
(* The steps that the handlers are made of.                                *)
(***************************************************************************)

Continue(steps) == loader' = [loader EXCEPT !.todo = steps \o Tail(@)]

Step(name) == loader.pc = "handle" /\ loader.todo # << >> /\ Head(loader.todo) = name

AddConfig == Step("add_config") /\ AddWatcher(ConfigPath, "CONFIG_FILE") /\ Continue(<< >>)
             /\ UNCHANGED <<setting, fs, kubelet, runtime_config>>

\* if (is_symlink(file)) AddFileWatcher(canonical(file), LOADER_CONFIG_REALPATH)
IfLink ==
    /\ Step("link?")
    /\ Continue(IF fs.entry = "link" THEN <<"canonical", "add_real">> ELSE << >>)
    /\ UNCHANGED <<setting, fs, kubelet, ino, watchers, runtime_config>>

\* canonical throws when the file cannot be reached, and nothing catches it.
Canonical ==
    /\ Step("canonical")
    /\ IF Exists
       THEN loader' = [loader EXCEPT !.todo = Tail(@), !.real = IF fs.entry = "link" THEN Real ELSE ConfigPath]
       ELSE loader' = [loader EXCEPT !.pc = "crashed"]
    /\ UNCHANGED <<setting, fs, kubelet, ino, watchers, runtime_config>>

AddReal == Step("add_real") /\ AddWatcher(loader.real, "CONFIG_REALPATH") /\ Continue(<< >>)
           /\ UNCHANGED <<setting, fs, kubelet, runtime_config>>

\* LoadConfiguration: exists, then the file is read.
Load ==
    /\ Step("load")
    /\ Continue(IF Exists THEN <<"parse">> ELSE << >>)
    /\ UNCHANGED <<setting, fs, kubelet, ino, watchers, runtime_config>>

\* A file that cannot be read or does not parse leaves the configuration.
Parse ==
    /\ Step("parse")
    /\ runtime_config' = IF Exists /\ fs.content[Real] \in Content THEN fs.content[Real] ELSE runtime_config
    /\ Continue(<< >>)
    /\ UNCHANGED <<setting, fs, kubelet, ino, watchers>>

\* if (exists(file)) ... of WatchFile.
IfExists ==
    /\ Step("exists?")
    /\ Continue(IF Exists THEN <<"add_config", "link?", "load">> ELSE << >>)
    /\ UNCHANGED <<setting, fs, kubelet, ino, watchers, runtime_config>>

\* Faulty variant: the new file is loaded and not watched.
ReplacedUnwatched ==
    /\ Step("replaced")
    /\ Continue(IF Exists THEN <<"link?", "load">> ELSE <<"remove_config", "reset">>)
    /\ UNCHANGED <<setting, fs, kubelet, ino, watchers, runtime_config>>

\* HandleConfigFileEvent, when the file was moved or deleted.
Replaced ==
    /\ Step("replaced")
    /\ Continue(IF Exists THEN <<"add_config", "link?", "load">> ELSE <<"remove_config", "reset">>)
    /\ UNCHANGED <<setting, fs, kubelet, ino, watchers, runtime_config>>

\* HandleConfigRealpathEvent, when the real file was moved or deleted.
RealReplaced ==
    /\ Step("real_replaced")
    /\ Continue(IF fs.entry = "link" THEN <<"canonical", "add_real", "load">> ELSE <<"remove_real", "reset">>)
    /\ UNCHANGED <<setting, fs, kubelet, ino, watchers, runtime_config>>

RemoveConfig == Step("remove_config") /\ RemoveWatcher(FindPath(ConfigPath)) /\ Continue(<< >>)
                /\ UNCHANGED <<setting, fs, kubelet, runtime_config>>

RemoveReal == Step("remove_real") /\ RemoveWatcher(FindPath(loader.w)) /\ Continue(<< >>)
              /\ UNCHANGED <<setting, fs, kubelet, runtime_config>>

\* ResetRuntimeConfig
Reset == Step("reset") /\ runtime_config' = NoConfig /\ Continue(<< >>) /\ UNCHANGED <<setting, fs, kubelet, ino, watchers>>

Handled ==
    /\ loader.pc = "handle" /\ loader.todo = << >>
    /\ loader' = [loader EXCEPT !.pc = "loop"]
    /\ UNCHANGED <<setting, fs, kubelet, ino, watchers, runtime_config>>

-----------------------------------------------------------------------------
(***************************************************************************)
(* WatchFile and HandleEvent.                                              *)
(***************************************************************************)

Start ==
    /\ loader.pc = "start"
    /\ AddWatcher(DirPath, "PARENT_PATH")
    /\ loader' = [loader EXCEPT !.pc = "handle", !.todo = <<"exists?">>]
    /\ UNCHANGED <<setting, fs, kubelet, runtime_config>>

\* WatchFile returns: there is no inotify instance, or the directory cannot be
\* watched.
NotWatched ==
    /\ loader.pc = "start"
    /\ loader' = [loader EXCEPT !.pc = "ended"]
    /\ UNCHANGED <<setting, fs, kubelet, ino, watchers, runtime_config>>

SelfGone == {"MOVE_SELF", "DELETE_SELF"}

\* The steps with which HandleConfigDirectoryEvent, HandleConfigFileEvent and
\* HandleConfigRealpathEvent answer an event.
Reaction(e, tag) ==
    CASE tag = "PARENT_PATH" /\ e.name = "config" /\ e.mask = "CREATE" -> <<"add_config", "load", "link?">>
      [] tag = "PARENT_PATH" /\ e.name = "config" /\ e.mask = "DELETE" -> <<"remove_config", "reset">>
      [] tag = "CONFIG_FILE" /\ e.mask = "MODIFY" -> <<"link?", "load">>
      [] tag = "CONFIG_FILE" /\ e.mask \in SelfGone -> <<"replaced">>
      [] tag = "CONFIG_REALPATH" /\ e.mask = "MODIFY" -> <<"load">>
      [] tag = "CONFIG_REALPATH" /\ e.mask \in SelfGone -> <<"real_replaced">>
      [] OTHER -> << >>

\* GetNext and HandleEvent: an event without a watcher is ignored, and the
\* thread ends when the directory goes away.
HandleEvent ==
    /\ loader.pc = "loop" /\ ~loader.should_stop /\ ino.queue # << >>
    /\ ino' = [ino EXCEPT !.queue = Tail(@)]
    /\ LET e == Head(ino.queue) IN
       \/ FindWd(e.wd) = {} /\ UNCHANGED loader
       \/ FindWd(e.wd) # {}
          /\ LET w == watchers[CHOOSE k \in FindWd(e.wd) : TRUE] IN
             loader' = IF w.tag = "PARENT_PATH" /\ e.mask \in SelfGone
                       THEN [loader EXCEPT !.pc = "ended"]
                       ELSE [loader EXCEPT !.pc = "handle", !.todo = Reaction(e, w.tag), !.w = w.path]
    /\ UNCHANGED <<setting, fs, kubelet, watchers, runtime_config>>

\* GetNext waits for at most two seconds, so that the loop is left.
Stopped ==
    /\ loader.pc = "loop" /\ loader.should_stop
    /\ loader' = [loader EXCEPT !.pc = "ended"]
    /\ UNCHANGED <<setting, fs, kubelet, ino, watchers, runtime_config>>

\* ConfigLoader::Stop.
Stop ==
    /\ ~loader.should_stop
    /\ loader' = [loader EXCEPT !.should_stop = TRUE]
    /\ UNCHANGED <<setting, fs, kubelet, ino, watchers, runtime_config>>

Loader ==
    \/ Start \/ NotWatched \/ HandleEvent \/ Stopped \/ Handled
    \/ AddConfig \/ IfLink \/ Canonical \/ AddReal \/ Load \/ Parse \/ IfExists
    \/ Replaced \/ RealReplaced \/ RemoveConfig \/ RemoveReal \/ Reset

-----------------------------------------------------------------------------
(***************************************************************************)
(* The file system: an administrator and a plain file.                     *)
(***************************************************************************)

Op(f) ==
    /\ fs.ops < MaxOps
    /\ fs' = [f EXCEPT !.ops = @ + 1]
    /\ UNCHANGED <<setting, watchers, loader, runtime_config>>

Watches(i) == \E wd \in DOMAIN ino.watch : ino.watch[wd] = i

\* A new inode with content c at the path of the configuration file.
WithFile(c) ==
    [fs EXCEPT !.entry = "file", !.self = fs.next, !.content = With(@, fs.next, c), !.next = @ + 1]

WithoutFile == [fs EXCEPT !.entry = "none", !.self = NoInode]

CreateFile ==
    /\ setting.deployment = "file" /\ fs.entry = "none"
    /\ Op(WithFile(Empty))
    /\ ino' = Raise(ino, Dir, "CREATE", "config")
    /\ UNCHANGED kubelet

WriteFile(c) ==
    /\ setting.deployment = "file" /\ fs.entry = "file" /\ fs.content[fs.self] # c
    /\ Op([fs EXCEPT !.content[fs.self] = c])
    /\ ino' = Raise(ino, fs.self, "MODIFY", NoName)
    /\ UNCHANGED kubelet

\* rename of a complete file onto the path: IN_MOVED_TO is not subscribed to.
MoveFileIn(c) ==
    /\ setting.deployment = "file" /\ (fs.entry = "none" => (setting.unseen = "moves" /\ Watches(Dir)))
    /\ Op(WithFile(c))
    /\ ino' = IF fs.entry = "file" THEN Gone(ino, fs.self) ELSE ino
    /\ UNCHANGED kubelet

\* rename to another place: the watch follows the inode.
MoveFileAway ==
    /\ setting.deployment = "file" /\ fs.entry = "file"
    /\ Watches(fs.self) \/ (setting.unseen = "moves" /\ Watches(Dir))
    /\ Op(WithoutFile)
    /\ ino' = Raise(ino, fs.self, "MOVE_SELF", NoName)
    /\ UNCHANGED kubelet

DeleteFile ==
    /\ setting.deployment = "file" /\ fs.entry = "file" /\ (Watches(Dir) \/ setting.unseen = "start")
    /\ Op(WithoutFile)
    /\ ino' \in Unlink(ino, fs.self)
    /\ UNCHANGED kubelet

\* The directory is moved away.
MoveDirectory ==
    /\ setting.deployment = "file"
    /\ Op(fs)
    /\ ino' = Raise(ino, Dir, "MOVE_SELF", NoName)
    /\ UNCHANGED kubelet

-----------------------------------------------------------------------------
(***************************************************************************)
(* The file system: the kubelet and a volume.                              *)
(***************************************************************************)

Idle == loader.pc = "loop" /\ ino.queue = << >>

\* ..data is replaced by one for a version with content c, or for one without
\* the file; the directory of the new version raises an event of its own.
Publish(c) ==
    /\ setting.deployment = "configmap" /\ kubelet.pc = "idle"
    /\ IF setting.racing THEN Watches(Dir) ELSE Idle
    /\ c = NoConfig => fs.entry = "link"
    /\ LET i == IF c = NoConfig THEN NoInode ELSE fs.next IN
       /\ Op([fs EXCEPT !.target = i, !.next = @ + 1,
                        !.volume = IF i = NoInode THEN @ ELSE @ \cup {i},
                        !.content = With(@, fs.next, c)])
       /\ kubelet' = [pc |-> IF i = NoInode THEN "unlink" ELSE "link", old |-> fs.target]
    /\ ino' = Raise(ino, Dir, "CREATE", "version")

\* The link is created when there is none.
CreateLink ==
    /\ kubelet.pc = "link"
    /\ kubelet' = [kubelet EXCEPT !.pc = "clean"]
    /\ IF fs.entry = "link" THEN UNCHANGED <<fs, ino>>
       ELSE /\ fs' = [fs EXCEPT !.entry = "link", !.self = fs.next, !.next = @ + 1]
            /\ ino' = Raise(ino, Dir, "CREATE", "config")
    /\ UNCHANGED <<setting, watchers, loader, runtime_config>>

DeleteLink ==
    /\ kubelet.pc = "unlink"
    /\ kubelet' = [kubelet EXCEPT !.pc = "clean"]
    /\ fs' = WithoutFile
    /\ ino' \in Unlink(ino, fs.self)
    /\ UNCHANGED <<setting, watchers, loader, runtime_config>>

\* The directory of the old version is removed.
RemoveOld ==
    /\ kubelet.pc = "clean"
    /\ kubelet' = [pc |-> "idle", old |-> NoInode]
    /\ fs' = [fs EXCEPT !.volume = @ \ {kubelet.old}]
    /\ ino' = Gone(ino, kubelet.old)
    /\ UNCHANGED <<setting, watchers, loader, runtime_config>>

Environment ==
    \/ CreateFile \/ MoveFileAway \/ DeleteFile \/ MoveDirectory \/ CreateLink \/ DeleteLink \/ RemoveOld
    \/ \E c \in Content \cup {Empty} : WriteFile(c)
    \/ \E c \in Content : MoveFileIn(c)
    \/ \E c \in Content \cup {NoConfig} : Publish(c)

-----------------------------------------------------------------------------
\* The thread starts after the configuration was loaded for the first time;
\* the file may have changed since.
LoaderInit ==
    /\ setting \in Settings
    /\ \E c \in Content :
          fs \in {[entry |-> "none", self |-> NoInode, target |-> NoInode, volume |-> {}, content |-> << >>,
                   next |-> 1, ops |-> 0],
                  IF setting.deployment = "file"
                  THEN [entry |-> "file", self |-> 1, target |-> NoInode, volume |-> {}, content |-> [i \in {1} |-> c],
                        next |-> 2, ops |-> 0]
                  ELSE [entry |-> "link", self |-> 2, target |-> 1, volume |-> {1}, content |-> [i \in {1} |-> c],
                        next |-> 3, ops |-> 0]}
    /\ kubelet = [pc |-> "idle", old |-> NoInode]
    /\ ino = [watch |-> << >>, next |-> 1, queue |-> << >>, dropped |-> FALSE]
    /\ watchers = << >>
    /\ loader = [pc |-> "start", todo |-> << >>, w |-> DirPath, real |-> ConfigPath, should_stop |-> FALSE]
    /\ runtime_config \in IF Exists THEN Content ELSE {NoConfig}

LoaderNext == Loader \/ Stop \/ Environment

LoaderSpec == LoaderInit /\ [][LoaderNext]_loaderVars

\* The thread runs, and the kubelet finishes what it started.
LoaderFairness == WF_loaderVars(Loader) /\ WF_loaderVars(CreateLink \/ DeleteLink \/ RemoveOld)

LoaderFairSpec == LoaderSpec /\ LoaderFairness

-----------------------------------------------------------------------------
\* Types; at most one watcher per path, and one per descriptor.
LoaderTypeOK ==
    /\ fs.entry \in {"none", "file", "link"} /\ fs.self \in {NoInode} \cup 1 .. fs.next
    /\ runtime_config \in Content \cup {NoConfig}
    /\ loader.pc \in {"start", "loop", "handle", "ended", "crashed"}
    /\ \A k, l \in DOMAIN watchers : k # l => /\ watchers[k].path # watchers[l].path
                                             /\ watchers[k].wd # watchers[l].wd
    /\ Len(ino.queue) <= setting.queue_limit + 1

\* Every watch in the kernel has its entry in watchers_, so that no event is
\* taken for one without a watcher (Inotify.cpp:25).
NoLeakedWatch ==
    \A wd \in DOMAIN ino.watch : FindWd(wd) # {}

\* Every watch in the kernel has its watcher, one for a path and one for a
\* descriptor, also after events were dropped (Inotify.cpp:25).
WatchesConsistent == LoaderTypeOK /\ NoLeakedWatch

\* When the loader has handled all events, the configuration is that of the
\* file, or the default when there is none: whatever the order in which the
\* events of several changes reach handlers that look at the file as it is by
\* then (ConfigLoader.cpp:572-671).  A file that does not parse keeps the
\* configuration it found.
UpToDate ==
    Idle /\ kubelet.pc = "idle" /\ ~loader.should_stop
        => /\ ~Exists => runtime_config = NoConfig
           /\ Exists /\ fs.content[Real] \in Content => runtime_config = fs.content[Real]

\* The file that is loaded is a file that is watched: once all events are
\* handled the next change of the file, or of its directory, will be seen.
Watched ==
    Idle /\ kubelet.pc = "idle" /\ Exists
        => \A i \in {Dir, fs.self, Real} : Watches(i)

\* Neither a reload nor the end of the directory ends the process; see
\* docs/references.md:157, "(without a need for restart)".
NoRestartNeeded == loader.pc # "crashed"

\* With all events handled, the configuration is that of the file and the file that
\* was loaded is watched, and no change of the file has ended the process
\* (ConfigLoader.cpp:553-671): unless a change was one of which no watch tells, a
\* version was published before the last one was handled, or events were dropped.
Converged ==
    setting.unseen = "never" /\ ~setting.racing /\ ~ino.dropped => UpToDate /\ Watched /\ NoRestartNeeded

\* The configuration follows the file for good once the file has settled.
Follows ==
    <>[](/\ loader.pc \in {"loop", "ended"}
         /\ loader.pc = "loop" /\ ~Exists => runtime_config = NoConfig
         /\ loader.pc = "loop" /\ Exists /\ fs.content[Real] \in Content => runtime_config = fs.content[Real])

\* Stop ends the thread, whatever it is doing and however many events wait.
LoaderStopEnds == loader.should_stop ~> loader.pc = "ended"

\* Inotify.h:226: "will only have a couple watchers for now": the
\* directory, the file and the file it points to.
CoupleOfWatchers == Len(watchers) <= 3

=============================================================================
