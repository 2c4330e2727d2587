------------------------------ MODULE MCNotifier ------------------------------
(***************************************************************************)
(* Instances of NetworkStatusNotifier for TLC.  Addresses have three bits: *)
(* 2 and 3 are private, 4 and 5 lie in a network Sensor may announce, 6 is *)
(* another public address, 7 is the canonical external address.            *)
(***************************************************************************)
EXTENDS NetworkStatusNotifier

Net(a, b) == [addr |-> a, bits |-> b, is_addr |-> FALSE]

Conn(id, l, r, rp, p, srv) ==
    [container |-> id, lport |-> l, raddr |-> r, rport |-> rp, l4proto |-> p, is_server |-> srv]

Config(enabled, direction, limit) ==
    [present |-> TRUE, enabled |-> enabled, direction |-> direction,
     max_connections_per_minute |-> limit]

MCPrivate == {Net(2, 2)}

\* Two client connections that normalise alike, and one to a server port.
ClientA == Conn("A", 50001, 5, 443, "TCP", FALSE)
ClientB == Conn("A", 50002, 5, 443, "TCP", FALSE)
ServerA == Conn("A", 8080, 6, 50003, "TCP", TRUE)

UdpA    == Conn("A", 50004, 5, 53, "UDP", TRUE)
DiscardA    == Conn("A", 50005, 6, 9, "TCP", FALSE)

MCOne   == {ClientA}
MCTwins == {ClientA, ClientB}
MCPair  == {ClientA, ServerA}
MCMixed == {ClientA, UdpA}
MCIgnored == {DiscardA}

Endpoint(port, pid, attrs) ==
    [container |-> "A", port |-> port, l4proto |-> "TCP", originator |-> [pid |-> pid, attrs |-> attrs]]

\* The same advertised endpoint held by two processes, and another one.
MCEndpoints   == {Endpoint(8080, 1, "nginx"), Endpoint(8080, 2, "nginx")}
MCOneEndpoint == {Endpoint(8080, 1, "nginx")}

NoConfig == [present |-> FALSE]

MCNoConfig    == {NoConfig}
MCEgress      == {NoConfig, Config(TRUE, "EGRESS", 2)}
MCExternalIPs == {NoConfig, Config(TRUE, "INGRESS", 4), Config(TRUE, "EGRESS", 4), Config(TRUE, "UNSPECIFIED", 4)}

Message(ips, nets, ok) ==
    [has_ip_networks |-> TRUE, public_ips |-> ips, networks |-> nets, well_formed |-> ok]

MCMessages == {Message({}, {Net(4, 2), Net(0, 0)}, TRUE), Message({5}, {Net(5, 3), Net(4, 1)}, TRUE),
               Message({5}, {Net(4, 2)}, FALSE), [Message({}, {}, TRUE) EXCEPT !.has_ip_networks = FALSE]}

\* The peer of ServerA becomes one to keep.
MCAnnouncement == {Message({6}, {}, TRUE)}

MCIgnoredPorts  == {<<"TCP", 9>>, <<"UDP", 9>>}
MCIgnoredNets   == {Net(1, 3)}
MCNonAggregated == {Net(5, 3)}

=============================================================================
