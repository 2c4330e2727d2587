-------------------------- MODULE ProcessFormatter ---------------------------
(***************************************************************************)
(* ProcessSignalFormatter.cpp: the message that tells Sensor of a process, *)
(* made either from its execve event or, when a stream is refreshed, from  *)
(* its entry in the thread table.  Both walk the parents of the process    *)
(* with the visitor of GetProcessLineage, one call of which is one step.   *)
(*                                                                         *)
(* A thread is a record: comm, exepath and args; main, which tells whether *)
(* the thread is its process's main thread ("self"), has one ("other") or  *)
(* lost it ("none"); and parents, the ancestors that traverse_parent_state *)
(* visits, the nearest first.  Identifiers, credentials and times are      *)
(* copied by both paths and left out.                                      *)
(***************************************************************************)
EXTENDS Integers, Sequences, FiniteSets

CONSTANTS
    Thread,             \* entries of the thread table
    NA,                 \* the text "<NA>"
    NoProcessArguments, \* ROX_COLLECTOR_NO_PROCESS_ARGUMENTS
    MaxLineage          \* ancestors reported at most: 10

Ancestor == [pid : Int, vpid : Int, container : BOOLEAN, path : STRING, uid : Nat]

ASSUME FormatterAssumption ==
    /\ MaxLineage \in Nat \ {0}
    /\ \A t \in Thread : t.parents \in Seq(Ancestor)

VARIABLES
    tinfo,      \* the thread
    source,     \* what the message in the making is made from, or "none"
    visited,    \* parents visited so far
    lineage,
    counted,    \* process_lineage_counts, _total and _sqr_total
    messages    \* the messages made, by source

formatterVars == <<tinfo, source, visited, lineage, counted, messages>>

Dropped == [dropped |-> TRUE]

FormatterInit ==
    /\ tinfo \in Thread
    /\ source = "none" /\ visited = 0 /\ lineage = << >> /\ messages = << >>
    /\ counted = [counts |-> 0, total |-> 0, sqr_total |-> 0]

-----------------------------------------------------------------------------
Known(text) == text # "" /\ text # NA

FirstKnown(text, other) == IF Known(text) THEN text ELSE IF Known(other) THEN other ELSE ""

ValidateProcessDetails == ~(tinfo.exepath = NA /\ tinfo.comm = NA)

\* Arguments are sent as they are, joined and sanitized.
Message(args, scraped) ==
    [name |-> FirstKnown(tinfo.comm, tinfo.exepath), exec_file_path |-> FirstKnown(tinfo.exepath, tinfo.comm),
     args |-> args, scraped |-> scraped, lineage |-> lineage]

FromEvent == Message(IF NoProcessArguments THEN "" ELSE tinfo.args, FALSE)

FromThreadInfo == Message(tinfo.args, TRUE)

\* ToProtoMessage.  SendExistingProcesses passes main threads only.
ToProtoMessage(s) ==
    /\ source = "none" /\ s \notin DOMAIN messages
    /\ s = "threadinfo" => tinfo.main = "self"
    /\ IF ValidateProcessDetails
         THEN source' = s /\ UNCHANGED messages
         ELSE messages' = [x \in DOMAIN messages \cup {s} |-> IF x = s THEN Dropped ELSE messages[x]]
              /\ UNCHANGED source
    /\ visited' = 0 /\ lineage' = << >>
    /\ UNCHANGED <<tinfo, counted>>

\* The container boundary: the thread belongs to the host.
Outside(pt) ==
    \/ pt.pid = 0
    \/ IF pt.vpid = 0 THEN ~pt.container ELSE pt.pid = pt.vpid
    \/ pt.vpid = -1

\* The LineageInfo of a parent.
Info(pt) == [path |-> pt.path, uid |-> pt.uid]

Traversing == source # "none" /\ tinfo.main # "none" /\ visited < Len(tinfo.parents)

\* Where the traversal stops: past the last parent.
Stop == Len(tinfo.parents)

\* Faulty variant: the limit is compared before the parent is added.
VisitOver ==
    /\ Traversing
    /\ LET pt == tinfo.parents[visited + 1]
           collapse == lineage # << >> /\ lineage[Len(lineage)].path = pt.path
           stop == Outside(pt) \/ Len(lineage) >= MaxLineage
       IN  /\ lineage' = IF Outside(pt) \/ collapse THEN lineage
                         ELSE Append(lineage, Info(pt))
           /\ visited' = IF stop THEN Stop ELSE visited + 1
    /\ UNCHANGED <<tinfo, source, counted, messages>>

\* The visitor: parents with the same path are collapsed into the nearest.
Visit ==
    /\ Traversing
    /\ LET pt == tinfo.parents[visited + 1]
           collapse == lineage # << >> /\ lineage[Len(lineage)].path = pt.path
           stop == Outside(pt) \/ Len(lineage') >= MaxLineage
       IN  /\ lineage' = IF Outside(pt) \/ collapse THEN lineage
                         ELSE Append(lineage, Info(pt))
           /\ visited' = IF stop THEN Stop ELSE visited + 1
    /\ UNCHANGED <<tinfo, source, counted, messages>>

\* CountLineage; a thread that lost its main thread is not counted.
CountLineage ==
    IF tinfo.main = "none" THEN UNCHANGED counted
    ELSE LET n == Len(lineage)
         IN  counted' = [counts |-> counted.counts + 1, total |-> counted.total + n,
                         sqr_total |-> counted.sqr_total + n * n]

CreateProcessSignal ==
    /\ source # "none" /\ ~Traversing
    /\ CountLineage
    /\ messages' = [x \in DOMAIN messages \cup {source} |->
                      IF x # source THEN messages[x]
                      ELSE IF source = "event" THEN FromEvent ELSE FromThreadInfo]
    /\ source' = "none"
    /\ UNCHANGED <<tinfo, visited, lineage>>

FormatterNext ==
    \/ \E s \in {"event", "threadinfo"} : ToProtoMessage(s)
    \/ Visit
    \/ CreateProcessSignal

FormatterSpec == FormatterInit /\ [][FormatterNext]_formatterVars

-----------------------------------------------------------------------------
Sent(s) == s \in DOMAIN messages /\ messages[s] # Dropped

\* The parents inside the container with a path other than their child's.
Reported ==
    {i \in 1 .. Len(tinfo.parents) :
        /\ \A j \in 1 .. i : ~Outside(tinfo.parents[j])
        /\ i > 1 => tinfo.parents[i].path # tinfo.parents[i - 1].path}

\* Which of the reported parents the i-th parent is, or was the last up to it.
Place(i) == Cardinality({j \in Reported : j <= i})

\* A lineage that names the first MaxLineage of the reported parents, in order.
Exact(infos) ==
    /\ Len(infos) = IF Cardinality(Reported) <= MaxLineage THEN Cardinality(Reported) ELSE MaxLineage
    /\ \A i \in Reported : Place(i) <= MaxLineage => infos[Place(i)] = Info(tinfo.parents[i])

\* The lineage of a message names the nearest MaxLineage processes of the
\* container with a path other than their child's, in their order: it names no
\* process from the first one of the host on, keeps the user of the nearest of
\* the processes that it collapses, and stops early only at the limit
\* (GetProcessLineage, ProcessSignalFormatter.cpp:331).
LineageExact ==
    \A s \in DOMAIN messages : Sent(s) =>
        IF tinfo.main = "none" THEN messages[s].lineage = << >> ELSE Exact(messages[s].lineage)

\* A refresh tells Sensor of a process what its execve event told: the two
\* messages have the same name, path and lineage, and the same arguments unless
\* those are disabled, and one is dropped exactly when the other is
\* (ProcessSignalFormatter.cpp:117, :201).
SameFromEitherSource ==
    {"event", "threadinfo"} \subseteq DOMAIN messages =>
        LET e == messages["event"]
            t == messages["threadinfo"]
        IN  IF Sent("event") /\ Sent("threadinfo")
            THEN /\ e.name = t.name /\ e.exec_file_path = t.exec_file_path /\ e.lineage = t.lineage
                 /\ NoProcessArguments \/ e.args = t.args
            ELSE ~Sent("event") /\ ~Sent("threadinfo")

\* The lineage of a message is that of the process, collapsed and limited, and the
\* messages made from the event and from the thread table agree
\* (ProcessSignalFormatter.cpp:371, :120, :201).
MessagesExact == LineageExact /\ SameFromEitherSource

\* ProcessSignalFormatter.cpp:151: "set process arguments, if not explicitely
\* disabled".
ArgumentsDisabled ==
    \A s \in DOMAIN messages : NoProcessArguments /\ Sent(s) => messages[s].args = ""

=============================================================================
