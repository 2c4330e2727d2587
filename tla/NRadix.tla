-------------------------------- MODULE NRadix -------------------------------
(***************************************************************************)
(* The radix tree of networks (NRadix.h, NRadix.cpp): one tree for both    *)
(* address families.  An address is two words, an IPv4 address in the top  *)
(* bits of the first; a network is [family, words, bits].  A node is the   *)
(* path of bits that leads to it and a tree is the function from its nodes *)
(* to their values.  The words have WordBits bits instead of 64.           *)
(***************************************************************************)
EXTENDS Integers, Sequences, FiniteSets, Functions, TLC

CONSTANTS
    WordBits,       \* bits of a word, 64 in the code
    IPv4Bits,       \* bits of an IPv4 address, 32 in the code
    Networks,       \* the networks that are inserted and looked up
    MaxTree,        \* bound on the insertions into tree
    MaxOther,       \* bound on the insertions into other
    NoNet           \* IPNet{}: no network

NRadixAssumption == WordBits \in Nat \ {0} /\ IPv4Bits \in 1 .. WordBits - 1

VARIABLES
    tree,           \* an NRadixTree
    other,          \* another one
    inserted        \* history: the networks for which tree.Insert was called

vars == <<tree, other, inserted>>

AddressWords == 2                   \* Address::kU64MaxLen
AllOnes == 2^WordBits - 1
TopBit == 2^(WordBits - 1)

-----------------------------------------------------------------------------
(***************************************************************************)
(* The walk along the bits of a network.                                   *)
(***************************************************************************)

\* IPNet::net_mask_array.
NetMask(n) ==
    CASE n.bits < WordBits                 -> <<AllOnes - (AllOnes \div 2^n.bits), 0>>
      [] n.bits = AddressWords * WordBits  -> <<AllOnes, AllOnes>>
      [] OTHER                             -> <<AllOnes, AllOnes - (AllOnes \div 2^(n.bits % WordBits))>>

IsSet(word, bit) == (word \div bit) % 2 = 1

\* A position: the bit, the word it is taken from, and the words walked so far.
Start == [bit |-> TopBit, word |-> 1, i |-> 0]

Advance(p, n) ==
    IF p.bit > 1 THEN [p EXCEPT !.bit = @ \div 2]
    ELSE [bit |-> TopBit, i |-> p.i + 1, word |-> IF p.i + 1 < AddressWords /\ n.bits >= WordBits THEN p.word + 1 ELSE p.word]

Masked(p, n) == IsSet(NetMask(n)[p.word], p.bit)

Child(node, p, n) == Append(node, IF IsSet(n.words[p.word], p.bit) THEN 1 ELSE 0)

EmptyTree == << >> :> NoNet

-----------------------------------------------------------------------------
(***************************************************************************)
(* Insert.                                                                 *)
(***************************************************************************)

\* The nodes of the path from node on, whether or not the tree has them yet.
RECURSIVE Path(_, _, _)
Path(node, p, n) ==
    IF p.i >= AddressWords \/ ~Masked(p, n) THEN {node}
    ELSE {node} \cup Path(Child(node, p, n), Advance(p, n), n)

Last(path) == CHOOSE x \in path : \A y \in path : Len(y) <= Len(x)

IsInsertable(n) == n.bits >= 1

\* The existing part of the path is followed, the rest is added, and the last node
\* gets the value unless it has one.
Insert(t, n) ==
    LET path == Path(<< >>, Start, n)
        last == Last(path)
        grown == t @@ [x \in path |-> NoNet]
    IN  IF ~IsInsertable(n) \/ grown[last] # NoNet THEN t ELSE [grown EXCEPT ![last] = n]

-----------------------------------------------------------------------------
(***************************************************************************)
(* Find, GetAll and IsAnyIPNetSubset.                                      *)
(***************************************************************************)

ValueOr(t, node, ret) == IF node \in DOMAIN t /\ t[node] # NoNet THEN t[node] ELSE ret

\* Faulty variant: the node that the last of all bits leads to is not looked at.
RECURSIVE WalkShort(_, _, _, _, _)
WalkShort(t, n, node, p, ret) ==
    LET found == ValueOr(t, node, ret)
        next == Child(node, p, n)
        q == Advance(p, n)
    IN  IF node \notin DOMAIN t THEN ret
        ELSE IF ~Masked(p, n) \/ q.i >= AddressWords THEN found
        ELSE WalkShort(t, n, next, q, found)

\* The loop of Find: ret is the last value met.
RECURSIVE Walk(_, _, _, _, _)
Walk(t, n, node, p, ret) ==
    LET found == ValueOr(t, node, ret)
        next == Child(node, p, n)
        q == Advance(p, n)
    IN  IF node \notin DOMAIN t THEN ret
        ELSE IF ~Masked(p, n) THEN found
        ELSE IF q.i >= AddressWords THEN ValueOr(t, next, found)
        ELSE Walk(t, n, next, q, found)

Find(t, n) ==
    LET ret == Walk(t, n, << >>, Start, NoNet)
    IN  IF n.bits = 0 \/ ret = NoNet THEN NoNet ELSE IF ret.family = n.family THEN ret ELSE NoNet

GetAll(t) == Range(t) \ {NoNet}

\* isAnyIPNetSubsetUtil at one node of both trees.
Answered(family, containing, contained) ==
    /\ containing # NoNet /\ contained # NoNet
    /\ containing.family = contained.family
    /\ family # "UNKNOWN" => containing.family = family

RECURSIVE SubsetUtil(_, _, _, _, _, _)
SubsetUtil(family, t1, t2, node, containing, contained) ==
    \/ Answered(family, containing, contained)
    \/ /\ node \in DOMAIN t2
       /\ \E b \in {0, 1} :
            SubsetUtil(family, t1, t2, Append(node, b), ValueOr(t1, node, containing), ValueOr(t2, node, contained))

IsAnyIPNetSubset(family, t1, t2) == SubsetUtil(family, t1, t2, << >>, NoNet, NoNet)

-----------------------------------------------------------------------------
(***************************************************************************)
(* Specification: trees are built one network at a time.                   *)
(***************************************************************************)

Init == tree = EmptyTree /\ other = EmptyTree /\ inserted = {}

InsertTree ==
    /\ Cardinality(inserted) < MaxTree
    /\ \E n \in Networks : tree' = Insert(tree, n) /\ inserted' = inserted \cup {n}
    /\ UNCHANGED other

InsertOther ==
    /\ Cardinality(GetAll(other)) < MaxOther
    /\ \E n \in Networks : other' = Insert(other, n)
    /\ UNCHANGED <<tree, inserted>>

Next == InsertTree \/ InsertOther

Spec == Init /\ [][Next]_vars

-----------------------------------------------------------------------------
(***************************************************************************)
(* Properties, against a definition that knows nothing of trees.           *)
(***************************************************************************)

\* The address as one number, and its first bits.
Value(n) == n.words[1] * 2^WordBits + n.words[2]
Prefix(n, bits) == Value(n) \div 2^(AddressWords * WordBits - bits)

\* q lies in n, the families aside; SamePrefix: and conversely.
Covers(n, q) == n.bits <= q.bits /\ Prefix(n, n.bits) = Prefix(q, n.bits)
SamePrefix(n, q) == Covers(n, q) /\ Covers(q, n)

Contains(n, q) == n.family = q.family /\ Covers(n, q)

SingleFamily(S) == \A n, q \in S : n.family = q.family

\* Every network that was inserted is in the tree, or one with the same bits that
\* was there before it; the tree holds nothing else, across the words of an
\* address (NRadix.cpp:71-83).
NothingLost ==
    /\ GetAll(tree) \subseteq inserted
    /\ \A n \in inserted : IsInsertable(n) => \E m \in GetAll(tree) : SamePrefix(n, m)

\* Find returns the longest of the stored networks that contain what is looked
\* for; nothing is found only if there is none, or if a longer network of the
\* other family lies on the path (NRadix.cpp:182).
FindLongest ==
    \A q \in Networks :
        LET f == Find(tree, q)
            containing == {n \in GetAll(tree) : Contains(n, q)}
        IN  q.bits > 0 =>
              IF f # NoNet THEN f \in containing /\ \A n \in containing : n.bits <= f.bits
              ELSE \A n \in containing : \E m \in GetAll(tree) : Covers(m, q) /\ m.family # q.family /\ m.bits > n.bits

\* For trees of one family, IsAnyIPNetSubset tells whether a network of the other
\* tree is contained in one of this tree (NRadix.cpp:208-248).
SubsetExact ==
    SingleFamily(GetAll(tree) \cup GetAll(other)) =>
        (IsAnyIPNetSubset("UNKNOWN", tree, other) <=> \E n \in GetAll(tree), m \in GetAll(other) : Contains(n, m))

\* Find as its declaration has it: the smallest subnet that contains the network.
FindSmallestSubnet ==
    \A q \in Networks : \A n \in GetAll(tree) :
        q.bits > 0 /\ Contains(n, q) => Find(tree, q) # NoNet

\* Insert as its declaration has it: only a network that exists is skipped.
SkipsOnlyExisting ==
    \A n \in inserted : IsInsertable(n) => \E m \in GetAll(tree) : SamePrefix(n, m) /\ m.family = n.family

\* IsAnyIPNetSubset for a family, as its declaration has it.
SubsetOfFamily ==
    \A f \in {"IPV4", "IPV6"} :
        IsAnyIPNetSubset(f, tree, other) <=>
            \E n \in GetAll(tree), m \in GetAll(other) : n.family = f /\ Contains(n, m)

=============================================================================
