------------------------------- MODULE MCNRadix ------------------------------
(***************************************************************************)
(* Instances of NRadix: words of three bits, so that an IPv6 address has   *)
(* six and an IPv4 address two.                                            *)
(***************************************************************************)
EXTENDS NRadix

Net(family, words, bits) == [family |-> family, words |-> words, bits |-> bits]

IPv6(high, low) == {Net("IPV6", <<h, l>>, b) : h \in high, l \in low, b \in 0..6}
IPv4(high) == {Net("IPV4", <<h, 0>>, b) : h \in high, b \in 0..2}

\* The bits after the prefix are clear.
Canonical(S) == {n \in S : Value(n) % 2^(6 - n.bits) = 0}

\* Networks of all lengths that part before, at and after the boundary of the
\* words; one that is the same as another although its address differs.
ManyNetworks ==
    Canonical(IPv6({0, 4, 5, 7}, {0, 4, 7}) \cup IPv4({0, 4, 6})) \cup {Net("IPV6", <<4, 7>>, 3)}

SomeNetworks == Canonical(IPv6({4, 5}, {0, 7}) \cup IPv4({4, 6}))
=============================================================================
