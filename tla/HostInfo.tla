------------------------------ MODULE HostInfo -------------------------------
(***************************************************************************)
(* What collector finds out about its host (HostInfo) and whether it runs  *)
(* there (HostHeuristics).  A host h is a record of what the kernel, the   *)
(* files of the host and libbpf answer:                                    *)
(*   uname       a release or Failed; KERNEL_VERSION a release or NoValue  *)
(*   machine     the architecture                                          *)
(*   os_release  what /etc/os-release, or else /usr/lib/os-release, says   *)
(*   btf         the places where BTF symbols can be read                  *)
(*   ringbuf, tracing   what libbpf's probes return: 1, 0 or -1 (failed)   *)
(*   cpus        libbpf_num_possible_cpus                                  *)
(*   boot_params, efivars   the two sources of the Secure Boot status      *)
(* A release is [kernel, major, build_id, el7], or Unparsable.             *)
(***************************************************************************)
EXTENDS Integers, Sequences

CONSTANTS
    NoValue,        \* a variable, a setting or a file that is not there
    Failed,         \* a call that failed
    Unparsable      \* a release that the regular expression does not match

MIN_RHEL_BUILD_ID == 957

-----------------------------------------------------------------------------
(***************************************************************************)
(* The kernel.                                                             *)
(***************************************************************************)

\* KernelVersion::FromHost: the variable comes first.
Release(h) ==
    CASE h.KERNEL_VERSION # NoValue -> h.KERNEL_VERSION
      [] h.KERNEL_VERSION = NoValue /\ h.uname # Failed -> h.uname
      [] OTHER -> Unparsable

\* A release that the expression does not match leaves the numbers at zero.
KernelVersion(h) ==
    IF Release(h) = Unparsable THEN [kernel |-> 0, major |-> 0, build_id |-> 0, el7 |-> FALSE] ELSE Release(h)

Machine(h) == IF h.uname = Failed THEN "" ELSE h.machine

\* The kernel is older than v.major, as the comparisons are written.
Before(k, v, major) == k.kernel < v \/ (k.kernel = v /\ k.major < major)

HasSecureBootParam(h) == ~Before(KernelVersion(h), 4, 11)

isRHEL76(k, os_id) ==
    /\ os_id \in {"rhel", "centos"}
    /\ k.el7 /\ k.kernel = 3 /\ k.major = 10
    /\ k.build_id >= MIN_RHEL_BUILD_ID

-----------------------------------------------------------------------------
(***************************************************************************)
(* Files and probes.                                                       *)
(***************************************************************************)

\* GetOSReleaseValue and filterForKey: the first line of the key.
OSReleaseValue(h, key) ==
    LET lines == SelectSeq(h.os_release, LAMBDA l : l[1] = key)
    IN  IF lines = << >> THEN "" ELSE lines[1][2]

GetDistro(h) == IF OSReleaseValue(h, "PRETTY_NAME") = "" THEN "Linux" ELSE OSReleaseValue(h, "PRETTY_NAME")

HasEBPFSupport(h) == isRHEL76(KernelVersion(h), OSReleaseValue(h, "ID")) \/ ~Before(KernelVersion(h), 4, 14)

HasBTFSymbols(h) == h.btf # {}

\* A probe that fails counts as support.
Probe(result) == result # 0

NumPossibleCPU(h) == IF h.cpus < 0 THEN 0 ELSE h.cpus

-----------------------------------------------------------------------------
(***************************************************************************)
(* Secure Boot.                                                            *)
(***************************************************************************)

\* SecureBootStatus.
SB_UNSET == 0
SB_NOT_DETERMINED == 1
SB_DISABLED == 2
SB_ENABLED == 3

\* The byte of boot_params; Failed when the file does not open.
GetSecureBootFromParams(h) ==
    IF h.boot_params = Failed \/ h.boot_params \notin SB_NOT_DETERMINED..SB_ENABLED THEN SB_NOT_DETERMINED ELSE h.boot_params

\* The fifth byte of the variable; NoValue when there is none, Failed when it or
\* the directory does not open.  The byte is cast to SecureBootStatus.
GetSecureBootFromVars(h) == IF h.efivars \in {0, 1} THEN h.efivars ELSE SB_NOT_DETERMINED

\* With the status detected so far.
GetSecureBootStatus(h, status) ==
    IF status # SB_UNSET THEN status
    ELSE IF HasSecureBootParam(h) THEN GetSecureBootFromParams(h) ELSE GetSecureBootFromVars(h)

-----------------------------------------------------------------------------
(***************************************************************************)
(* ProcessHostHeuristics: Failed for CLOG(FATAL), or the number of CPUs.   *)
(***************************************************************************)

CollectionHeuristic(h, method) ==
    /\ HasEBPFSupport(h)
    /\ method = "core_bpf" => HasBTFSymbols(h) /\ Probe(h.ringbuf) /\ Probe(h.tracing)

DockerDesktopHeuristic(h) == GetDistro(h) # "Docker Desktop"

PowerHeuristic(h) ==
    LET k == KernelVersion(h) IN Machine(h) = "ppc64le" => ~(k.kernel = 4 /\ k.major = 18 /\ k.build_id < 477)

ProcessHostHeuristics(h, method) ==
    IF CollectionHeuristic(h, method) /\ DockerDesktopHeuristic(h) /\ PowerHeuristic(h)
    THEN NumPossibleCPU(h) ELSE -1

=============================================================================
