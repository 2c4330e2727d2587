--------------------------- MODULE MCOptionParser ----------------------------
(***************************************************************************)
(* Words of a command line for TLC.                                        *)
(***************************************************************************)
EXTENDS OptionParser

\* A text that is no server, no configuration and no method.
Plain(id) == [id |-> id, long |-> FALSE, colon |-> FALSE, host |-> FALSE, port |-> FALSE,
              json |-> FALSE, method |-> "other"]

Server == [Plain("h:1") EXCEPT !.colon = TRUE, !.host = TRUE, !.port = TRUE]
NoPort == [Plain("h:") EXCEPT !.colon = TRUE, !.host = TRUE]
Json == [Plain("{\"a\":1}") EXCEPT !.colon = TRUE, !.host = TRUE, !.port = TRUE, !.json = TRUE]
Ebpf == [Plain("EBPF") EXCEPT !.method = "ebpf"]

Long(name, attached) ==
    [form |-> "long", names |-> <<name>>, attached |-> attached,
     text |-> IF attached = NoArg THEN Plain("--" \o name)
              ELSE [attached EXCEPT !.id = "--" \o name \o "=" \o attached.id, !.json = FALSE, !.method = "other"]]

Word(form, names, text) == [form |-> form, names |-> names, attached |-> NoArg, text |-> text]

MCWords ==
    {Long(n, NoArg) : n \in Known \cup {"blargle"}}
    \cup {Long("grpc-server", t) : t \in {Server, NoPort, Plain("")}}
    \cup {Long("collection-method", Ebpf), Long("collector-config", Json), Long("collector-config", Plain("x"))}
    \cup {Word("plain", << >>, t) : t \in {Server, Json, Ebpf, Plain("")}}
    \cup {Word("end", << >>, Plain("--")), Word("short", <<"x", "y">>, Plain("-xy"))}

=============================================================================
