--------------------------- MODULE MCProcfsScraper ---------------------------
(***************************************************************************)
(* Two instances: processes 1 and 2 of container "a" and 3 of "b" share a   *)
(* namespace; or process 1 is in no container and 2 and 3 are in "a" with   *)
(* a namespace of their own each, of which one has no net/tcp6.             *)
(***************************************************************************)
EXTENDS ProcfsScraper, TLC

Line(family, listen, lport, rport, local, relevant) ==
    [family |-> family, listen |-> listen, lport |-> lport, rport |-> rport, local |-> local, relevant |-> relevant]

SharedContainer == <<"a", "a", "b">>
SharedNamespace == <<"n1", "n1", "n1">>
SeparateContainer == <<NoContainer, "a", "a">>
SeparateNamespace == <<"n1", "n1", "n2">>

\* A socket that listens on any interface and a connection that it accepted; a
\* connection over IPv6 that was made from here, and a socket that listens on an
\* endpoint that is not relevant.
Accepted == 10 :> Line("IPV4", TRUE, 80, 0, AnyAddress, TRUE) @@ 11 :> Line("IPV4", FALSE, 80, 40000, "x", TRUE)
BothFamilies == 11 :> Line("IPV4", FALSE, 80, 40000, "x", TRUE) @@ 12 :> Line("IPV6", FALSE, 50000, 443, "y", TRUE)
                @@ 13 :> Line("IPV4", TRUE, 22, 0, AnyAddress, FALSE)
=============================================================================
