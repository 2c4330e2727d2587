------------------------- MODULE MCProcessFormatter --------------------------
(***************************************************************************)
(* Instances of ProcessFormatter for TLC: every chain of up to MaxParents  *)
(* ancestors of each kind the visitor tells apart, and every combination   *)
(* of name, path and main thread on a short chain.  The user of an         *)
(* ancestor is its place in the chain.                                     *)
(***************************************************************************)
EXTENDS ProcessFormatter

CONSTANT MaxParents

Kinds ==
    {[pid |-> 0, vpid |-> 1, container |-> TRUE],     \* the idle process
     [pid |-> 7, vpid |-> 7, container |-> TRUE],     \* a process of the host
     [pid |-> 7, vpid |-> 0, container |-> FALSE],    \* no namespace known, no container
     [pid |-> 7, vpid |-> 0, container |-> TRUE],     \* no namespace known, in a container
     [pid |-> 7, vpid |-> -1, container |-> TRUE],    \* an entry that is not filled in
     [pid |-> 7, vpid |-> 3, container |-> FALSE]}    \* in a PID namespace

Parents(n) ==
    {[i \in 1 .. n |->
        [pid |-> k[i].pid, vpid |-> k[i].vpid, container |-> k[i].container, path |-> p[i], uid |-> i]] :
            k \in [1 .. n -> Kinds], p \in [1 .. n -> {"p", "q"}]}

Chains ==
    [comm : {"n"}, exepath : {"p"}, args : {"x"}, main : {"self"}, parents : UNION {Parents(n) : n \in 0 .. MaxParents}]

Details ==
    [comm : {"", "<NA>", "n"}, exepath : {"", "<NA>", "p"}, args : {"", "x"}, main : {"self", "other", "none"},
     parents : Parents(1)]

MCThread == Chains \cup Details

=============================================================================
