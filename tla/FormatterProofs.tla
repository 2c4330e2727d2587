--------------------------- MODULE FormatterProofs ---------------------------
(***************************************************************************)
(* Proofs about module ProcessFormatter, for every thread table, every     *)
(* chain of ancestors and every limit on a lineage.                        *)
(***************************************************************************)
EXTENDS ProcessFormatter, FiniteSetTheorems, TLAPS

USE SMTT(60)

LineageInfo == [path : STRING, uid : Nat]

\* Each entry of a lineage is that of some reported parent.
Filled(infos) == \A n \in 1 .. Len(infos) : \E i \in Reported : Place(i) = n

Complete(infos) ==
    /\ infos \in Seq(LineageInfo)
    /\ IF tinfo.main = "none" THEN infos = << >> ELSE Exact(infos) /\ Filled(infos)

\* The traversal has not been stopped: the lineage names the reported ones of the
\* parents visited, fewer than MaxLineage, and its last path is that of the last
\* parent visited.
Going ==
    /\ visited \in 0 .. Len(tinfo.parents)
    /\ \A j \in 1 .. visited : ~Outside(tinfo.parents[j])
    /\ Len(lineage) = Place(visited) /\ Len(lineage) < MaxLineage
    /\ \A i \in Reported : i <= visited => lineage[Place(i)] = Info(tinfo.parents[i])
    /\ Filled(lineage)
    /\ visited > 0 => lineage # << >> /\ lineage[Len(lineage)].path = tinfo.parents[visited].path

Stopped == visited = Len(tinfo.parents) /\ Complete(lineage)

MessageOK(s) ==
    /\ messages[s] # Dropped
    /\ messages[s].name = FirstKnown(tinfo.comm, tinfo.exepath)
    /\ messages[s].exec_file_path = FirstKnown(tinfo.exepath, tinfo.comm)
    /\ NoProcessArguments \/ messages[s].args = tinfo.args
    /\ Complete(messages[s].lineage)

FormatterInv ==
    /\ tinfo \in Thread
    /\ lineage \in Seq(LineageInfo)
    /\ source # "none" =>
         /\ ValidateProcessDetails
         /\ IF tinfo.main = "none" THEN lineage = << >> ELSE Going \/ Stopped
    /\ \A s \in DOMAIN messages : IF ValidateProcessDetails THEN MessageOK(s) ELSE messages[s] = Dropped

-----------------------------------------------------------------------------
(***************************************************************************)
(* Places.                                                                 *)
(***************************************************************************)

\* How many elements of a set of positive numbers lie below a bound.
LEMMA CountUpTo ==
    ASSUME NEW n \in Nat, NEW S \in SUBSET (1 .. n)
    PROVE  /\ IsFiniteSet(S) /\ Cardinality(S) \in Nat
           /\ \A v \in Nat : IsFiniteSet({j \in S : j <= v}) /\ Cardinality({j \in S : j <= v}) \in Nat
<1>1. IsFiniteSet(S)
  <2>1. 1 \in Int /\ n \in Int
    OBVIOUS
  <2>2. IsFiniteSet(1 .. n)
    BY <2>1, FS_Interval, Zenon
  <2> QED
    BY <2>2, FS_Subset, Zenon
<1>2. \A v \in Nat : IsFiniteSet({j \in S : j <= v})
    BY <1>1, FS_Subset
<1> QED
    BY <1>1, <1>2, FS_CardinalityType

\* The count grows by one at an element of the set, and nowhere else.
LEMMA CountNext ==
    ASSUME NEW n \in Nat, NEW S \in SUBSET (1 .. n), NEW v \in Nat
    PROVE  Cardinality({j \in S : j <= v + 1}) =
             IF v + 1 \in S THEN Cardinality({j \in S : j <= v}) + 1 ELSE Cardinality({j \in S : j <= v})
<1> DEFINE A == {j \in S : j <= v}
<1>0. \A j \in S : j \in Int
    BY SMT
<1>1. IsFiniteSet(A)
    BY CountUpTo, Zenon
<1>2. CASE v + 1 \in S
  <2>1. {j \in S : j <= v + 1} = A \cup {v + 1}
    <3>1. \A j \in S : j <= v + 1 <=> j <= v \/ j = v + 1
      BY <1>0
    <3> QED
      BY <1>2, <3>1, Zenon
  <2>2. v + 1 \notin A
    OBVIOUS
  <2> QED
    BY <1>1, <1>2, <2>1, <2>2, FS_AddElement
<1>3. CASE v + 1 \notin S
  <2>1. {j \in S : j <= v + 1} = A
    <3>1. \A j \in S : j <= v + 1 <=> j <= v
      BY <1>0, <1>3
    <3> QED
      BY <3>1, Zenon
  <2> QED
    BY <1>3, <2>1, Zenon
<1> QED
    BY <1>2, <1>3

\* A larger bound counts no less, and none counts more than the whole set.
LEMMA CountMonotonic ==
    ASSUME NEW n \in Nat, NEW S \in SUBSET (1 .. n), NEW v \in Nat, NEW w \in Nat, v <= w
    PROVE  /\ Cardinality({j \in S : j <= v}) <= Cardinality({j \in S : j <= w})
           /\ Cardinality({j \in S : j <= v}) <= Cardinality(S)
<1>1. {j \in S : j <= v} \subseteq {j \in S : j <= w} /\ {j \in S : j <= v} \subseteq S
  <2>1. \A j \in S : j <= v => j <= w
    BY SMT
  <2> QED
    BY <2>1, Zenon
<1> QED
    BY <1>1, CountUpTo, FS_Subset, Zenon

\* The set of reported parents and their places, for a thread of the table.
LEMMA Places ==
    ASSUME tinfo \in Thread
    PROVE  /\ tinfo.parents \in Seq(Ancestor) /\ Len(tinfo.parents) \in Nat
           /\ Reported \in SUBSET (1 .. Len(tinfo.parents))
           /\ Cardinality(Reported) \in Nat
           /\ \A v \in Nat : /\ Place(v) \in Nat /\ Place(v) <= Cardinality(Reported)
                             /\ Place(v + 1) = IF v + 1 \in Reported THEN Place(v) + 1 ELSE Place(v)
                             /\ \A w \in Nat : v <= w => Place(v) <= Place(w)
           /\ Place(0) = 0
<1>1. tinfo.parents \in Seq(Ancestor) /\ Len(tinfo.parents) \in Nat
    BY FormatterAssumption
<1>2. Reported \in SUBSET (1 .. Len(tinfo.parents))
    BY DEF Reported
<1>3. Cardinality(Reported) \in Nat
    BY <1>1, <1>2, CountUpTo, Zenon
<1>4. ASSUME NEW v \in Nat
      PROVE  /\ Place(v) \in Nat /\ Place(v) <= Cardinality(Reported)
             /\ Place(v + 1) = IF v + 1 \in Reported THEN Place(v) + 1 ELSE Place(v)
             /\ \A w \in Nat : v <= w => Place(v) <= Place(w)
  <2>1. Place(v) \in Nat
    BY <1>1, <1>2, CountUpTo, Zenon DEF Place
  <2>2. Place(v + 1) = IF v + 1 \in Reported THEN Place(v) + 1 ELSE Place(v)
    BY <1>1, <1>2, CountNext, Zenon DEF Place
  <2>3. \A w \in Nat : v <= w => Place(v) <= Place(w)
    BY <1>1, <1>2, CountMonotonic, Zenon DEF Place
  <2>4. v <= v
    OBVIOUS
  <2>5. Place(v) <= Cardinality(Reported)
    BY <1>1, <1>2, <2>4, CountMonotonic, Zenon DEF Place
  <2> QED
    BY <2>1, <2>2, <2>3, <2>5
<1>5. Place(0) = 0
  <2>1. \A j \in Reported : j \in Int /\ j >= 1
    BY <1>1, <1>2
  <2>2. {j \in Reported : j <= 0} = {}
    BY <2>1
  <2> QED
    BY <2>2, FS_EmptySet DEF Place
<1> QED
    BY <1>1, <1>2, <1>3, <1>4, <1>5, Zenon

\* A reported parent is the next after those before it.
LEMMA PlaceOfReported ==
    ASSUME tinfo \in Thread, NEW i \in Reported
    PROVE  /\ i \in Nat /\ i - 1 \in Nat /\ i <= Len(tinfo.parents)
           /\ Place(i) \in Nat /\ Place(i) = Place(i - 1) + 1 /\ Place(i) >= 1
<1>1. i \in Nat /\ i - 1 \in Nat /\ i <= Len(tinfo.parents) /\ (i - 1) + 1 = i
  <2>1. Reported \in SUBSET (1 .. Len(tinfo.parents)) /\ Len(tinfo.parents) \in Nat
    BY Places, Zenon
  <2>2. i \in 1 .. Len(tinfo.parents)
    BY <2>1
  <2> QED
    BY <2>1, <2>2
<1>2. Place((i - 1) + 1) = Place(i - 1) + 1
    BY <1>1, Places
<1>3. Place(i) = Place(i - 1) + 1
    BY <1>1, <1>2
<1> QED
    BY <1>1, <1>3, Places

\* If no parent after the v-th is reported, the v-th place is the last.
LEMMA LastPlace ==
    ASSUME tinfo \in Thread, NEW v \in Nat, \A i \in Reported : i <= v
    PROVE  Place(v) = Cardinality(Reported)
<1>1. {j \in Reported : j <= v} = Reported
    OBVIOUS
<1> QED
    BY <1>1 DEF Place

\* What depends on the thread only does not change while the thread does not.
LEMMA SameThread ==
    ASSUME tinfo' = tinfo
    PROVE  /\ Reported' = Reported
           /\ \A i : Place(i)' = Place(i)
           /\ ValidateProcessDetails' = ValidateProcessDetails
<1>1. Reported' = Reported
    BY DEF Reported, Outside
<1>2. \A i : Place(i)' = Place(i)
    BY <1>1 DEF Place
<1> QED
    BY <1>1, <1>2 DEF ValidateProcessDetails

\* A lineage that is complete stays so.
LEMMA CompleteStays ==
    ASSUME tinfo' = tinfo, Complete(lineage), lineage' = lineage
    PROVE  Complete(lineage)'
BY SameThread DEF Complete, Exact, Filled

\* So does that of a message that was made.
LEMMA MessageStays ==
    ASSUME tinfo' = tinfo, NEW s, MessageOK(s), messages'[s] = messages[s]
    PROVE  MessageOK(s)'
<1>1. Complete(messages[s].lineage)'
    BY SameThread DEF MessageOK, Complete, Exact, Filled
<1> QED
    BY <1>1 DEF MessageOK, Dropped

\* All the messages, when a step makes none.
LEMMA MessagesStay ==
    ASSUME FormatterInv, tinfo' = tinfo, messages' = messages
    PROVE  \A s \in DOMAIN messages' :
             IF ValidateProcessDetails' THEN MessageOK(s)' ELSE messages'[s] = Dropped
<1> SUFFICES ASSUME NEW s \in DOMAIN messages'
             PROVE  IF ValidateProcessDetails' THEN MessageOK(s)' ELSE messages'[s] = Dropped
    OBVIOUS
<1>1. CASE ValidateProcessDetails
    BY <1>1, SameThread, MessageStays DEF FormatterInv
<1>2. CASE ~ValidateProcessDetails
    BY <1>2, SameThread DEF FormatterInv
<1> QED
    BY <1>1, <1>2

-----------------------------------------------------------------------------
(***************************************************************************)
(* The traversal.                                                          *)
(***************************************************************************)

\* What is known of a visitor that runs: the traversal was not stopped, and it
\* has a next parent.
LEMMA VisitorRuns ==
    ASSUME FormatterInv, Traversing
    PROVE  /\ Going /\ tinfo \in Thread /\ tinfo.main # "none" /\ source # "none"
           /\ ValidateProcessDetails
           /\ visited \in Nat /\ visited + 1 \in 1 .. Len(tinfo.parents)
           /\ lineage \in Seq(LineageInfo) /\ Len(lineage) \in Nat
           /\ Info(tinfo.parents[visited + 1]) \in LineageInfo
<1>1. Going
  <2>1. Len(tinfo.parents) \in Nat
    BY Places, Zenon DEF FormatterInv
  <2>2. ~Stopped
    BY <2>1 DEF Traversing, Stopped
  <2> QED
    BY <2>2, Zenon DEF FormatterInv, Traversing
<1>2. /\ tinfo \in Thread /\ tinfo.main # "none" /\ source # "none" /\ ValidateProcessDetails
      /\ lineage \in Seq(LineageInfo) /\ Len(lineage) \in Nat
    BY DEF FormatterInv, Traversing
<1>3. visited \in Nat /\ visited + 1 \in 1 .. Len(tinfo.parents)
  <2>1. visited \in 0 .. Len(tinfo.parents) /\ visited < Len(tinfo.parents)
    BY <1>1, Zenon DEF Going, Traversing
  <2>2. Len(tinfo.parents) \in Nat
    BY <1>2, Places, Zenon
  <2>3. \A n \in Nat : \A v \in 0 .. n : v < n => v \in Nat /\ v + 1 \in 1 .. n
    OBVIOUS
  <2> QED
    BY <2>1, <2>2, <2>3, Zenon
<1>4. tinfo.parents[visited + 1] \in Ancestor
  <2>1. tinfo.parents \in Seq(Ancestor)
    BY <1>2, Places, Zenon
  <2> QED
    BY <1>3, <2>1
<1>5. Info(tinfo.parents[visited + 1]) \in LineageInfo
    BY <1>4 DEF Info, Ancestor, LineageInfo
<1> QED
    BY <1>1, <1>2, <1>3, <1>5

\* At the boundary of the container the lineage is complete.
LEMMA CompleteAtBoundary ==
    ASSUME FormatterInv, Traversing, Outside(tinfo.parents[visited + 1])
    PROVE  Complete(lineage)
<1>1. \A i \in Reported : i <= visited
    BY VisitorRuns DEF Reported
<1>2. Place(visited) = Cardinality(Reported)
    BY <1>1, VisitorRuns, LastPlace
<1>3. Exact(lineage)
  <2>1. /\ Len(lineage) = Cardinality(Reported) /\ Len(lineage) < MaxLineage
        /\ \A i \in Reported : i <= visited => lineage[Place(i)] = Info(tinfo.parents[i])
        /\ Len(lineage) \in Nat /\ MaxLineage \in Nat
    BY <1>2, VisitorRuns, FormatterAssumption DEF Going
  <2> QED
    BY <1>1, <2>1 DEF Exact
<1> QED
    BY <1>3, VisitorRuns DEF Complete, Going

\* A parent is collapsed exactly if it is not reported.
LEMMA CollapseIsNotReported ==
    ASSUME FormatterInv, Traversing, ~Outside(tinfo.parents[visited + 1])
    PROVE  visited + 1 \in Reported <=>
             ~(lineage # << >> /\ lineage[Len(lineage)].path = tinfo.parents[visited + 1].path)
<1>1. visited = 0 => lineage = << >>
    BY VisitorRuns, Places DEF Going
<1>2. \A j \in 1 .. visited + 1 : ~Outside(tinfo.parents[j])
    BY VisitorRuns DEF Going
<1>3. visited + 1 \in Reported <=>
        (visited + 1 > 1 => tinfo.parents[visited + 1].path # tinfo.parents[visited].path)
    BY <1>2, VisitorRuns DEF Reported
<1>4. CASE visited = 0
    BY <1>1, <1>3, <1>4
<1>5. CASE visited # 0
    BY <1>3, <1>5, VisitorRuns DEF Going
<1> QED
    BY <1>4, <1>5

\* The visitor stops at a parent of the host.
LEMMA VisitOutside ==
    ASSUME FormatterInv, Visit, Outside(tinfo.parents[visited + 1])
    PROVE  lineage' = lineage /\ Stopped'
<1>1. Traversing /\ lineage' = lineage /\ visited' = Len(tinfo.parents) /\ tinfo' = tinfo
    BY DEF Visit, Stop
<1>2. Complete(lineage)'
    BY <1>1, CompleteAtBoundary, CompleteStays
<1> QED
    BY <1>1, <1>2 DEF Stopped

\* The visitor collapses a parent into the one before.
LEMMA VisitCollapsed ==
    ASSUME FormatterInv, Visit, ~Outside(tinfo.parents[visited + 1]), visited + 1 \notin Reported
    PROVE  lineage' = lineage /\ Going'
<1>1. Traversing /\ tinfo' = tinfo
    BY DEF Visit
<1>2. /\ lineage # << >> /\ lineage[Len(lineage)].path = tinfo.parents[visited + 1].path
    BY <1>1, CollapseIsNotReported
<1>3. Going /\ visited \in Nat /\ visited + 1 \in 1 .. Len(tinfo.parents) /\ tinfo \in Thread
    BY <1>1, VisitorRuns
<1>4. lineage' = lineage
    BY <1>2 DEF Visit
<1>5. Len(lineage) \in Nat /\ MaxLineage \in Nat /\ Len(lineage) < MaxLineage
    BY <1>1, VisitorRuns, FormatterAssumption DEF Going
<1>6. visited' = visited + 1
    BY <1>4, <1>5 DEF Visit
<1>7. Place(visited + 1) = Place(visited)
    BY <1>3, Places
<1>8. Reported' = Reported /\ \A i : Place(i)' = Place(i)
    BY <1>1, SameThread
<1>9. Len(lineage)' = Place(visited)' /\ (Len(lineage) < MaxLineage)'
  <2>1. Place(visited)' = Place(visited + 1)
    BY <1>6, <1>8 DEF Place
  <2> QED
    BY <1>3, <1>4, <1>5, <1>7, <2>1 DEF Going
<1>10. (\A j \in 1 .. visited : ~Outside(tinfo.parents[j]))'
  <2>1. \A j \in 1 .. visited + 1 : ~Outside(tinfo.parents[j])
    BY <1>3 DEF Going
  <2> QED
    BY <1>1, <1>6, <2>1 DEF Outside
<1>11. (\A i \in Reported : i <= visited => lineage[Place(i)] = Info(tinfo.parents[i]))'
  <2>1. \A i \in Reported : i <= visited + 1 => i <= visited
    BY <1>3, PlaceOfReported
  <2>2. \A i \in Reported : i <= visited + 1 => lineage[Place(i)] = Info(tinfo.parents[i])
    BY <1>3, <2>1 DEF Going
  <2> QED
    BY <1>1, <1>4, <1>6, <1>8, <2>2 DEF Info
<1>12. Filled(lineage)'
    BY <1>3, <1>4, <1>8 DEF Going, Filled
<1> QED
    BY <1>1, <1>2, <1>3, <1>4, <1>6, <1>9, <1>10, <1>11, <1>12 DEF Going

\* The visitor adds a reported parent.
LEMMA ParentAdded ==
    ASSUME FormatterInv, Visit, ~Outside(tinfo.parents[visited + 1]), visited + 1 \in Reported
    PROVE  /\ tinfo' = tinfo /\ lineage' = Append(lineage, Info(tinfo.parents[visited + 1]))
           /\ visited' = IF Len(lineage') >= MaxLineage THEN Len(tinfo.parents) ELSE visited + 1
           /\ Len(lineage') \in Nat /\ Len(lineage') = Place(visited + 1) /\ Len(lineage') <= MaxLineage
           /\ \A i \in Reported : i <= visited + 1 => lineage'[Place(i)] = Info(tinfo.parents[i])
           /\ Filled(lineage)'
<1>1. Traversing /\ tinfo' = tinfo
    BY DEF Visit
<1>2. lineage' = Append(lineage, Info(tinfo.parents[visited + 1]))
    BY <1>1, CollapseIsNotReported DEF Visit
<1>3. visited' = IF Len(lineage') >= MaxLineage THEN Len(tinfo.parents) ELSE visited + 1
    BY DEF Visit, Stop
<1>4. /\ Going /\ visited \in Nat /\ tinfo \in Thread /\ lineage \in Seq(LineageInfo)
      /\ Info(tinfo.parents[visited + 1]) \in LineageInfo /\ Len(lineage) \in Nat /\ MaxLineage \in Nat
    BY <1>1, VisitorRuns, FormatterAssumption
<1>5. /\ Len(lineage') = Len(lineage) + 1
      /\ lineage'[Len(lineage) + 1] = Info(tinfo.parents[visited + 1])
      /\ \A n \in 1 .. Len(lineage) : lineage'[n] = lineage[n]
    BY <1>2, <1>4
<1>6. Place(visited + 1) = Place(visited) + 1 /\ Place(visited) = Len(lineage)
    BY <1>4, Places DEF Going
<1>7. ASSUME NEW i \in Reported, i <= visited + 1
      PROVE  lineage'[Place(i)] = Info(tinfo.parents[i])
  <2>1. i \in Nat /\ Place(i) \in Nat /\ Place(i) >= 1
    BY <1>4, PlaceOfReported
  <2>2. CASE i = visited + 1
    BY <1>5, <1>6, <2>2
  <2>3. CASE i # visited + 1
    <3>1. i <= visited
      BY <1>4, <1>7, <2>1, <2>3
    <3>2. Place(i) <= Place(visited)
      BY <1>4, <2>1, <3>1, Places
    <3>3. Place(i) \in 1 .. Len(lineage)
      BY <1>4, <1>6, <2>1, <3>2
    <3> QED
      BY <1>4, <1>5, <3>1, <3>3 DEF Going
  <2> QED
    BY <2>2, <2>3
<1>8. Filled(lineage)'
  <2>1. Reported' = Reported /\ \A i : Place(i)' = Place(i)
    BY <1>1, SameThread
  <2>2. \A n \in 1 .. Len(lineage') : n \in 1 .. Len(lineage) \/ n = Len(lineage) + 1
    BY <1>4, <1>5
  <2>3. \A n \in 1 .. Len(lineage) : \E i \in Reported : Place(i) = n
    BY <1>4 DEF Going, Filled
  <2>4. \A n \in 1 .. Len(lineage') : \E i \in Reported : Place(i) = n
    BY <1>6, <2>2, <2>3, Zenon
  <2> QED
    BY <2>1, <2>4 DEF Filled
<1>9. Len(lineage') \in Nat /\ Len(lineage') = Place(visited + 1) /\ Len(lineage') <= MaxLineage
    BY <1>4, <1>5, <1>6 DEF Going
<1> QED
    BY <1>1, <1>2, <1>3, <1>7, <1>8, <1>9, Zenon

\* It goes on below the limit.
LEMMA VisitBelowLimit ==
    ASSUME FormatterInv, Visit, ~Outside(tinfo.parents[visited + 1]), visited + 1 \in Reported,
           Len(lineage') < MaxLineage
    PROVE  Going'
<1> DEFINE pt == tinfo.parents[visited + 1]
<1>1. Traversing /\ tinfo' = tinfo
    BY DEF Visit
<1>2. /\ Going /\ visited \in Nat /\ visited + 1 \in 1 .. Len(tinfo.parents) /\ tinfo \in Thread
      /\ lineage \in Seq(LineageInfo) /\ Info(pt) \in LineageInfo
    BY <1>1, VisitorRuns
<1>3. /\ lineage' = Append(lineage, Info(pt)) /\ visited' = visited + 1
      /\ Len(lineage') = Place(visited + 1) /\ Filled(lineage)'
      /\ \A i \in Reported : i <= visited + 1 => lineage'[Place(i)] = Info(tinfo.parents[i])
    BY ParentAdded, FormatterAssumption
<1>4. Reported' = Reported /\ \A i : Place(i)' = Place(i)
    BY <1>1, SameThread
<1>5. Len(lineage)' = Place(visited)' /\ (Len(lineage) < MaxLineage)'
  <2>1. Place(visited)' = Place(visited + 1)
    BY <1>3, <1>4 DEF Place
  <2> QED
    BY <1>3, <2>1
<1>6. (\A j \in 1 .. visited : ~Outside(tinfo.parents[j]))'
  <2>1. \A j \in 1 .. visited : ~Outside(tinfo.parents[j])
    BY <1>2 DEF Going
  <2>2. \A j \in 1 .. visited + 1 : j \in 1 .. visited \/ j = visited + 1
    BY <1>2
  <2>3. \A j \in 1 .. visited + 1 : ~Outside(tinfo.parents[j])
    BY <2>1, <2>2, Zenon
  <2> QED
    BY <1>1, <1>3, <2>3 DEF Outside
<1>7. (\A i \in Reported : i <= visited => lineage[Place(i)] = Info(tinfo.parents[i]))'
    BY <1>1, <1>3, <1>4, Zenon DEF Info
<1>8. lineage' # << >> /\ lineage'[Len(lineage')].path = pt.path
    BY <1>2, <1>3 DEF Info
<1>9. visited' \in 0 .. Len(tinfo.parents')
    BY <1>1, <1>2, <1>3
<1>10. (visited > 0 => lineage # << >> /\ lineage[Len(lineage)].path = tinfo.parents[visited].path)'
    BY <1>1, <1>3, <1>8
<1> QED
    BY <1>3, <1>5, <1>6, <1>7, <1>9, <1>10, Zenon DEF Going

\* At the limit it stops, and the parents not visited have later places.
LEMMA VisitAtLimit ==
    ASSUME FormatterInv, Visit, ~Outside(tinfo.parents[visited + 1]), visited + 1 \in Reported,
           ~(Len(lineage') < MaxLineage)
    PROVE  Stopped'
<1>1. Traversing /\ tinfo' = tinfo
    BY DEF Visit
<1>2. /\ visited \in Nat /\ tinfo \in Thread /\ MaxLineage \in Nat /\ tinfo.main # "none"
      /\ lineage \in Seq(LineageInfo) /\ Info(tinfo.parents[visited + 1]) \in LineageInfo
    BY <1>1, VisitorRuns, FormatterAssumption
<1>3. /\ lineage' = Append(lineage, Info(tinfo.parents[visited + 1])) /\ visited' = Len(tinfo.parents)
      /\ Len(lineage') = Place(visited + 1) /\ Len(lineage') = MaxLineage /\ Filled(lineage)'
      /\ \A i \in Reported : i <= visited + 1 => lineage'[Place(i)] = Info(tinfo.parents[i])
    BY <1>2, ParentAdded
<1>4. Cardinality(Reported) \in Nat /\ MaxLineage <= Cardinality(Reported)
    BY <1>2, <1>3, Places
<1>5. ASSUME NEW i \in Reported, Place(i) <= MaxLineage
      PROVE  i <= visited + 1
  <2> SUFFICES ASSUME ~(i <= visited + 1) PROVE FALSE
    OBVIOUS
  <2>1. i \in Nat /\ i - 1 \in Nat /\ Place(i) = Place(i - 1) + 1
    BY <1>2, PlaceOfReported
  <2>2. visited + 1 \in Nat /\ visited + 1 <= i - 1
    BY <1>2, <2>1
  <2>3. Place(visited + 1) <= Place(i - 1) /\ Place(i - 1) \in Nat
    BY <1>2, <2>1, <2>2, Places
  <2> QED
    BY <1>2, <1>3, <1>5, <2>1, <2>3
<1>6. Reported' = Reported /\ \A i : Place(i)' = Place(i)
    BY <1>1, SameThread
<1>7. Exact(lineage)'
  <2>1. \A i \in Reported : Place(i) <= MaxLineage => lineage'[Place(i)] = Info(tinfo.parents[i])
    BY <1>3, <1>5, Zenon
  <2>2. Len(lineage') = IF Cardinality(Reported) <= MaxLineage THEN Cardinality(Reported) ELSE MaxLineage
    BY <1>2, <1>3, <1>4
  <2> QED
    BY <1>1, <1>6, <2>1, <2>2, Zenon DEF Exact, Info
<1>8. lineage' \in Seq(LineageInfo)
    BY <1>2, <1>3
<1>9. Complete(lineage)'
    BY <1>1, <1>2, <1>3, <1>7, <1>8, Zenon DEF Complete
<1> QED
    BY <1>1, <1>3, <1>9 DEF Stopped

-----------------------------------------------------------------------------
(***************************************************************************)
(* The invariant.                                                          *)
(***************************************************************************)

\* A call of the visitor.
LEMMA VisitStep ==
    ASSUME FormatterInv, Visit
    PROVE  FormatterInv'
<1>1. Traversing /\ tinfo' = tinfo /\ source' = source /\ messages' = messages
    BY DEF Visit
<1>2. /\ tinfo \in Thread /\ tinfo.main # "none" /\ source # "none" /\ ValidateProcessDetails
      /\ lineage \in Seq(LineageInfo) /\ Info(tinfo.parents[visited + 1]) \in LineageInfo
    BY <1>1, VisitorRuns
<1>3. lineage' \in Seq(LineageInfo) /\ (Going' \/ Stopped')
  <2>1. CASE Outside(tinfo.parents[visited + 1])
    BY <1>2, <2>1, VisitOutside
  <2>2. CASE ~Outside(tinfo.parents[visited + 1]) /\ visited + 1 \notin Reported
    BY <1>2, <2>2, VisitCollapsed
  <2>3. CASE ~Outside(tinfo.parents[visited + 1]) /\ visited + 1 \in Reported
    <3>1. lineage' \in Seq(LineageInfo)
      BY <1>2, <2>3, ParentAdded
    <3> QED
      BY <2>3, <3>1, VisitBelowLimit, VisitAtLimit, Zenon
  <2> QED
    BY <2>1, <2>2, <2>3
<1>4. ValidateProcessDetails'
    BY <1>1, <1>2, SameThread
<1>5. \A s \in DOMAIN messages' : IF ValidateProcessDetails' THEN MessageOK(s)' ELSE messages'[s] = Dropped
    BY <1>1, MessagesStay
<1> QED
    BY <1>1, <1>2, <1>3, <1>4, <1>5, Zenon DEF FormatterInv, Dropped

\* The beginning of a message: without a traversal, it is dropped.
LEMMA ToProtoMessageStep ==
    ASSUME FormatterInv, NEW s, ToProtoMessage(s)
    PROVE  FormatterInv'
<1>1. tinfo' = tinfo /\ visited' = 0 /\ lineage' = << >>
    BY DEF ToProtoMessage
<1>2. tinfo' \in Thread /\ lineage' \in Seq(LineageInfo) /\ tinfo \in Thread
    BY <1>1 DEF FormatterInv
<1>3. ValidateProcessDetails' = ValidateProcessDetails /\ Reported' = Reported /\ \A i : Place(i)' = Place(i)
    BY <1>1, SameThread
<1>4. CASE ValidateProcessDetails
  <2>1. messages' = messages
    BY <1>4 DEF ToProtoMessage
  <2>2. \A x \in DOMAIN messages' : IF ValidateProcessDetails' THEN MessageOK(x)' ELSE messages'[x] = Dropped
    BY <1>1, <2>1, MessagesStay
  <2>3. Going'
    <3>1. Len(tinfo.parents) \in Nat /\ Place(0) = 0 /\ MaxLineage \in Nat \ {0}
      BY <1>2, Places, FormatterAssumption, Zenon
    <3>2. Place(visited)' = 0
      BY <1>1, <1>3, <3>1 DEF Place
    <3>3. \A i \in Reported' : ~(i <= 0)
      BY <1>2, <1>3, PlaceOfReported
    <3>4. Len(lineage') = 0
      BY <1>1
    <3>5. Filled(lineage)'
      BY <3>4 DEF Filled
    <3> QED
      BY <1>1, <3>1, <3>2, <3>3, <3>4, <3>5 DEF Going
  <2> QED
    BY <1>1, <1>2, <1>3, <1>4, <2>2, <2>3, Zenon DEF FormatterInv, Dropped
<1>5. CASE ~ValidateProcessDetails
  <2>1. /\ messages' = [x \in DOMAIN messages \cup {s} |-> IF x = s THEN Dropped ELSE messages[x]]
        /\ source' = source /\ source = "none"
    BY <1>5 DEF ToProtoMessage
  <2>2. \A x \in DOMAIN messages : messages[x] = Dropped
    BY <1>5 DEF FormatterInv
  <2>3. \A x \in DOMAIN messages' : messages'[x] = Dropped
    BY <2>1, <2>2, Zenon
  <2> QED
    BY <1>2, <1>3, <1>5, <2>1, <2>3, Zenon DEF FormatterInv, Dropped
<1> QED
    BY <1>4, <1>5

\* A lineage is complete when the traversal is over.
LEMMA CompleteWhenOver ==
    ASSUME FormatterInv, source # "none", ~Traversing
    PROVE  Complete(lineage)
<1>1. tinfo \in Thread /\ lineage \in Seq(LineageInfo) /\ Len(lineage) \in Nat /\ MaxLineage \in Nat
    BY FormatterAssumption DEF FormatterInv
<1>2. CASE tinfo.main = "none"
    BY <1>1, <1>2 DEF FormatterInv, Complete
<1>3. CASE Stopped
    BY <1>3 DEF Stopped
<1>4. CASE tinfo.main # "none" /\ Going
  <2>1. Len(tinfo.parents) \in Nat
    BY <1>1, Places, Zenon
  <2>2. visited = Len(tinfo.parents)
    BY <1>4, <2>1 DEF Going, Traversing
  <2>3. \A i \in Reported : i <= visited
    BY <1>1, <2>2, PlaceOfReported
  <2>4. Place(visited) = Cardinality(Reported)
    BY <1>1, <2>1, <2>2, <2>3, LastPlace
  <2>5. Exact(lineage)
    BY <1>1, <1>4, <2>3, <2>4 DEF Exact, Going
  <2> QED
    BY <1>1, <1>4, <2>5 DEF Complete, Going
<1> QED
    BY <1>2, <1>3, <1>4 DEF FormatterInv

\* A message is not the mark of a dropped one.
LEMMA MessageIsNotDropped ==
    ASSUME NEW args, NEW scraped
    PROVE  /\ Message(args, scraped) # Dropped
           /\ Message(args, scraped).name = FirstKnown(tinfo.comm, tinfo.exepath)
           /\ Message(args, scraped).exec_file_path = FirstKnown(tinfo.exepath, tinfo.comm)
           /\ Message(args, scraped).args = args
           /\ Message(args, scraped).lineage = lineage
<1>1. "name" \in DOMAIN Message(args, scraped)
    BY DEF Message
<1>2. "name" \notin DOMAIN Dropped
    BY DEF Dropped
<1>3. Message(args, scraped) # Dropped
    BY <1>1, <1>2, Zenon
<1> QED
    BY <1>3 DEF Message

\* The end of a message.
LEMMA CreateProcessSignalStep ==
    ASSUME FormatterInv, CreateProcessSignal
    PROVE  FormatterInv'
<1> DEFINE made == IF source = "event" THEN FromEvent ELSE FromThreadInfo
<1>1. /\ tinfo' = tinfo /\ lineage' = lineage /\ source' = "none" /\ source # "none" /\ ~Traversing
      /\ messages' = [x \in DOMAIN messages \cup {source} |-> IF x # source THEN messages[x] ELSE made]
    BY Zenon DEF CreateProcessSignal
<1>2. ValidateProcessDetails /\ tinfo \in Thread /\ lineage \in Seq(LineageInfo)
    BY <1>1, Zenon DEF FormatterInv
<1>3. Complete(lineage)
    BY <1>1, CompleteWhenOver
<1>4. /\ made # Dropped
      /\ made.name = FirstKnown(tinfo.comm, tinfo.exepath)
      /\ made.exec_file_path = FirstKnown(tinfo.exepath, tinfo.comm)
      /\ NoProcessArguments \/ made.args = tinfo.args
      /\ made.lineage = lineage
  <2>1. CASE source = "event"
    <3> DEFINE args == IF NoProcessArguments THEN "" ELSE tinfo.args
    <3>1. made = Message(args, FALSE)
      BY <2>1, Zenon DEF FromEvent
    <3>2. NoProcessArguments \/ args = tinfo.args
      BY Zenon
    <3> HIDE DEF args, made
    <3>3. /\ Message(args, FALSE) # Dropped
          /\ Message(args, FALSE).name = FirstKnown(tinfo.comm, tinfo.exepath)
          /\ Message(args, FALSE).exec_file_path = FirstKnown(tinfo.exepath, tinfo.comm)
          /\ Message(args, FALSE).args = args
          /\ Message(args, FALSE).lineage = lineage
      BY MessageIsNotDropped, Zenon
    <3> QED
      BY <3>1, <3>2, <3>3, Zenon
  <2>2. CASE source # "event"
    <3>1. made = Message(tinfo.args, TRUE)
      BY <2>2, Zenon DEF FromThreadInfo
    <3> HIDE DEF made
    <3>2. /\ Message(tinfo.args, TRUE) # Dropped
          /\ Message(tinfo.args, TRUE).name = FirstKnown(tinfo.comm, tinfo.exepath)
          /\ Message(tinfo.args, TRUE).exec_file_path = FirstKnown(tinfo.exepath, tinfo.comm)
          /\ Message(tinfo.args, TRUE).args = tinfo.args
          /\ Message(tinfo.args, TRUE).lineage = lineage
      BY MessageIsNotDropped, Zenon
    <3> QED
      BY <3>1, <3>2, Zenon
  <2> QED
    BY <2>1, <2>2, Zenon
<1> HIDE DEF made
<1>5. ASSUME NEW x \in DOMAIN messages' PROVE MessageOK(x)'
  <2>1. CASE x = source
    <3>1. messages'[x] = made
      BY <1>1, <2>1, Zenon
    <3>2. Complete(messages[x].lineage)'
      BY <1>1, <1>3, <1>4, <3>1, SameThread DEF Complete, Exact, Filled
    <3> QED
      BY <1>1, <1>4, <3>1, <3>2, Zenon DEF MessageOK, Dropped, FirstKnown, Known
  <2>2. CASE x # source
    <3>1. messages'[x] = messages[x] /\ x \in DOMAIN messages
      BY <1>1, <2>2, Zenon
    <3>2. MessageOK(x)
      BY <1>2, <3>1, Zenon DEF FormatterInv
    <3> QED
      BY <1>1, <3>1, <3>2, MessageStays
  <2> QED
    BY <2>1, <2>2
<1>6. ValidateProcessDetails'
    BY <1>1, <1>2, SameThread
<1> QED
    BY <1>1, <1>2, <1>5, <1>6, Zenon DEF FormatterInv, Dropped

\* The invariant holds.
LEMMA FormatterInvHolds == FormatterSpec => []FormatterInv
<1>1. FormatterInit => FormatterInv
  <2> SUFFICES ASSUME FormatterInit PROVE FormatterInv
    OBVIOUS
  <2>1. tinfo \in Thread /\ lineage \in Seq(LineageInfo) /\ source = "none" /\ DOMAIN messages = {}
    BY DEF FormatterInit
  <2> QED
    BY <2>1, Zenon DEF FormatterInv
<1>2. FormatterInv /\ [FormatterNext]_formatterVars => FormatterInv'
  <2> SUFFICES ASSUME FormatterInv, [FormatterNext]_formatterVars PROVE FormatterInv'
    OBVIOUS
  <2>1. CASE FormatterNext
    BY <2>1, ToProtoMessageStep, VisitStep, CreateProcessSignalStep DEF FormatterNext
  <2>2. CASE UNCHANGED formatterVars
    <3>1. tinfo' = tinfo /\ lineage' = lineage /\ visited' = visited /\ source' = source /\ messages' = messages
      BY <2>2 DEF formatterVars
    <3>2. ValidateProcessDetails' = ValidateProcessDetails /\ Reported' = Reported /\ \A i : Place(i)' = Place(i)
      BY <3>1, SameThread
    <3>3. Going => Going'
      BY <3>1, <3>2, Zenon DEF Going, Filled, Outside, Info, Place
    <3>4. Stopped => Stopped'
      BY <3>1, CompleteStays DEF Stopped
    <3>5. \A s \in DOMAIN messages' : IF ValidateProcessDetails' THEN MessageOK(s)' ELSE messages'[s] = Dropped
      BY <3>1, MessagesStay
    <3> QED
      BY <3>1, <3>2, <3>3, <3>4, <3>5, Zenon DEF FormatterInv, Dropped
  <2> QED
    BY <2>1, <2>2
<1> QED
    BY <1>1, <1>2, PTL DEF FormatterSpec

-----------------------------------------------------------------------------
(***************************************************************************)
(* The theorem.                                                            *)
(***************************************************************************)

\* Two complete lineages of a thread are the same.
LEMMA LineageUnique ==
    ASSUME tinfo \in Thread, NEW a, NEW b, Complete(a), Complete(b)
    PROVE  a = b
<1>1. CASE tinfo.main = "none"
    BY <1>1 DEF Complete
<1>2. CASE tinfo.main # "none"
  <2>1. a \in Seq(LineageInfo) /\ b \in Seq(LineageInfo) /\ Exact(a) /\ Exact(b) /\ Filled(a)
    BY <1>2 DEF Complete
  <2>2. Cardinality(Reported) \in Nat /\ MaxLineage \in Nat
    BY Places, FormatterAssumption
  <2>3. Len(a) = Len(b) /\ Len(a) \in Nat /\ Len(a) <= MaxLineage
    BY <2>1, <2>2 DEF Exact
  <2>4. ASSUME NEW n \in 1 .. Len(a) PROVE a[n] = b[n]
    <3>1. PICK i \in Reported : Place(i) = n
      BY <2>1 DEF Filled
    <3>2. Place(i) <= MaxLineage
      BY <2>2, <2>3, <3>1
    <3> QED
      BY <2>1, <3>1, <3>2 DEF Exact
  <2> QED
    BY <2>1, <2>3, <2>4
<1> QED
    BY <1>1, <1>2

\* For every thread table, every chain of ancestors and every limit: the lineage of
\* each message is exactly that of the process, collapsed, ended at the container's
\* boundary and limited; and the messages made from the execve event and from the
\* thread table agree in name, path, lineage and arguments, unless these are
\* disabled, and both are dropped or none is (ProcessSignalFormatter.cpp:331, :117,
\* :201).
THEOREM MessagesAreExact == FormatterSpec => []MessagesExact
<1>1. FormatterInv => MessagesExact
  <2> SUFFICES ASSUME FormatterInv PROVE MessagesExact
    OBVIOUS
  <2>1. tinfo \in Thread
    BY DEF FormatterInv
  <2>2. ASSUME NEW s \in DOMAIN messages
        PROVE  IF ValidateProcessDetails THEN Sent(s) /\ MessageOK(s) ELSE ~Sent(s)
    BY <2>2, Zenon DEF FormatterInv, Sent, MessageOK
  <2>3. LineageExact
    <3> SUFFICES ASSUME NEW s \in DOMAIN messages, Sent(s)
                 PROVE  IF tinfo.main = "none" THEN messages[s].lineage = << >>
                        ELSE Exact(messages[s].lineage)
      BY DEF LineageExact
    <3>1. Complete(messages[s].lineage)
      BY <2>2, Zenon DEF MessageOK
    <3> QED
      BY <3>1 DEF Complete
  <2>4. SameFromEitherSource
    <3> SUFFICES ASSUME "event" \in DOMAIN messages, "threadinfo" \in DOMAIN messages
                 PROVE  SameFromEitherSource
      BY Zenon DEF SameFromEitherSource
    <3>1. CASE ~ValidateProcessDetails
      BY <2>2, <3>1, Zenon DEF SameFromEitherSource
    <3>2. CASE ValidateProcessDetails
      <4>1. MessageOK("event") /\ MessageOK("threadinfo") /\ Sent("event") /\ Sent("threadinfo")
        BY <2>2, <3>2, Zenon
      <4>2. messages["event"].lineage = messages["threadinfo"].lineage
        BY <2>1, <4>1, LineageUnique DEF MessageOK
      <4> QED
        BY <4>1, <4>2, Zenon DEF SameFromEitherSource, MessageOK
    <3> QED
      BY <3>1, <3>2
  <2> QED
    BY <2>3, <2>4 DEF MessagesExact
<1> QED
    BY <1>1, FormatterInvHolds, PTL

=============================================================================
