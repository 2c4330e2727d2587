--------------------------- MODULE ProfilerHandler ---------------------------
(***************************************************************************)
(* ProfilerHandler.cpp: the HTTP endpoints that start, stop, clear and     *)
(* fetch a CPU and a heap profile, in a build with COLLECTOR_PROFILING.    *)
(* Every handler runs under mutex_, so each is one step.                   *)
(*                                                                         *)
(* A profile is the number of the session it was taken in.  The CPU        *)
(* profiler writes to a file while its session lasts; the heap profile is  *)
(* a copy in memory.  A length is nonzero exactly when it was taken from   *)
(* a profile, and is modelled by that.                                     *)
(***************************************************************************)
EXTENDS Naturals

CONSTANT MaxSessions    \* bound: sessions of each profiler

ProfilerAssumption == MaxSessions \in Nat \ {0}

VARIABLES
    cpu,    \* the CPU profiler: on, its session, cpu_profile_length_ > 0, the file
    heap,   \* the heap profiler: on, its session, heap_profile_length_ > 0, heap_profile_
    answer  \* to the last request

profilerVars == <<cpu, heap, answer>>

NoProfile == [session |-> 0, complete |-> FALSE]

ProfilerInit ==
    /\ cpu = [on |-> FALSE, session |-> 0, length |-> FALSE, file |-> NoProfile]
    /\ heap = [on |-> FALSE, session |-> 0, length |-> FALSE, profile |-> NoProfile]
    /\ answer = [to |-> "none", body |-> NoProfile]

Answer(to, body) == answer' = [to |-> to, body |-> body]

Ok == Answer("post", NoProfile)

ServerError == Answer("error", NoProfile)

-----------------------------------------------------------------------------
(***************************************************************************)
(* HandleCPURoute.                                                         *)
(***************************************************************************)

\* ProfilerStart truncates the file, or fails to open it.
StartCPU ==
    \/ /\ cpu.on /\ Ok /\ UNCHANGED cpu
    \/ /\ ~cpu.on /\ cpu.session < MaxSessions /\ Ok
       /\ cpu' = [cpu EXCEPT !.on = TRUE, !.session = @ + 1,
                             !.file = [session |-> cpu.session + 1, complete |-> FALSE]]
    \/ ~cpu.on /\ ServerError /\ UNCHANGED cpu

\* The length of the file is taken if the file is still there.
StopCPU ==
    /\ Ok
    /\ cpu' = CASE ~cpu.on -> cpu
                [] cpu.on /\ cpu.file = NoProfile -> [cpu EXCEPT !.on = FALSE]
                [] OTHER -> [cpu EXCEPT !.on = FALSE, !.length = TRUE, !.file.complete = TRUE]

\* Faulty variant: the length is kept.
EmptyCPUKeeping ==
    \/ ~cpu.length /\ Ok /\ UNCHANGED cpu
    \/ cpu.length /\ Ok /\ cpu' = [cpu EXCEPT !.file = NoProfile]

\* The length is cleared whether or not the file can be removed.
EmptyCPU ==
    \/ ~cpu.length /\ Ok /\ UNCHANGED cpu
    \/ cpu.length /\ Ok /\ cpu' = [cpu EXCEPT !.length = FALSE, !.file = NoProfile]
    \/ cpu.length /\ ServerError /\ cpu' = [cpu EXCEPT !.length = FALSE]

SendCPUProfile ==
    Answer("cpu", IF cpu.length THEN cpu.file ELSE NoProfile) /\ UNCHANGED cpu

-----------------------------------------------------------------------------
(***************************************************************************)
(* HandleHeapRoute.                                                        *)
(***************************************************************************)

StartHeap ==
    /\ Ok
    /\ \/ heap.on /\ UNCHANGED heap
       \/ ~heap.on /\ heap.session < MaxSessions /\ heap' = [heap EXCEPT !.on = TRUE, !.session = @ + 1]

\* The copy replaces the one before it, also when GetHeapProfile has no memory
\* for a copy; the profiler then stays on.
StopHeap ==
    \/ ~heap.on /\ Ok /\ UNCHANGED heap
    \/ /\ heap.on /\ Ok
       /\ heap' = [heap EXCEPT !.on = FALSE, !.length = TRUE,
                               !.profile = [session |-> heap.session, complete |-> TRUE]]
    \/ heap.on /\ ServerError /\ heap' = [heap EXCEPT !.profile = NoProfile]

EmptyHeap ==
    /\ Ok
    /\ heap' = IF heap.length THEN [heap EXCEPT !.length = FALSE, !.profile = NoProfile] ELSE heap

SendHeapProfile ==
    Answer("heap", IF heap.length THEN heap.profile ELSE NoProfile) /\ UNCHANGED heap

-----------------------------------------------------------------------------
\* What SendStatus says of a profiler.
State(p) == IF p.on THEN "on" ELSE IF p.length THEN "off" ELSE "empty"

SendStatus ==
    answer' = [to |-> "status", cpu |-> State(cpu), heap |-> State(heap)] /\ UNCHANGED <<cpu, heap>>

\* An unknown route, or other post data.
ClientError == ServerError /\ UNCHANGED <<cpu, heap>>

handlePost ==
    \/ (StartCPU \/ StopCPU \/ EmptyCPU) /\ UNCHANGED heap
    \/ (StartHeap \/ StopHeap \/ EmptyHeap) /\ UNCHANGED cpu
    \/ ClientError

handleGet ==
    \/ SendCPUProfile /\ UNCHANGED heap
    \/ SendHeapProfile /\ UNCHANGED cpu
    \/ SendStatus

ProfilerNext == handlePost \/ handleGet

ProfilerSpec == ProfilerInit /\ [][ProfilerNext]_profilerVars

-----------------------------------------------------------------------------
\* A profiler whose status is "off" has a profile to fetch, the complete one of
\* its last session, whatever was started, stopped and cleared before
\* (SendStatus, ProfilerHandler.cpp:62; SendCPUProfile, SendHeapProfile).
OffMeansFetchable ==
    /\ State(cpu) = "off" => cpu.file = [session |-> cpu.session, complete |-> TRUE]
    /\ State(heap) = "off" => heap.profile = [session |-> heap.session, complete |-> TRUE]

-----------------------------------------------------------------------------
\* ProfilerHandler.h:19, of GET /profile/cpu: "get latest cpu profile".
LatestCPUProfile == answer.to = "cpu" /\ answer.body # NoProfile => answer.body.complete

\* ProfilerHandler.h:21, of GET /profile/heap: "get latest heap profile".
LatestHeapProfile == heap.length => heap.profile # NoProfile

=============================================================================
