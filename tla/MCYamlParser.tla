---------------------------- MODULE MCYamlParser -----------------------------
(***************************************************************************)
(* Instances of YamlParser for TLC: a message with a sub-message e_ips     *)
(* (after external_ips), a repeated field s and, in the sub-message, an    *)
(* enum and an integer.                                                    *)
(***************************************************************************)
EXTENDS YamlParser

Word(w) == <<<<"", w>>>>
Snake(v, w) == Word(v) \o <<<<"_", w>>>>
Camel(v, w) == Word(v) \o <<<<"^", w>>>>
Ips == Snake("e", "ips")
DocumentedIps == Camel("e", "i") \o <<<<"^", "ps">>>>

Field(l, t, f) == [label |-> l, type |-> t, fields |-> f]

MCDescriptor ==
    (Ips :> Field("single", "message",
              Word("e") :> Field("single", "enum", << >>) @@ Snake("i", "p") :> Field("single", "int", << >>)))
    @@ Word("s") :> Field("repeated", "string", << >>)
    @@ Word("p") :> Field("repeated", "message", Word("e") :> Field("single", "string", << >>))

Scalar(v) == [kind |-> "scalar", value |-> v]
Null == [kind |-> "null"]
Items(s) == [kind |-> "seq", items |-> s]
Map(e) == [kind |-> "map", entries |-> e]

\* Maps in which each of the keys of g is absent or has one of its values.
Maps(g) ==
    UNION {{Map(e) : e \in {h \in [ks -> UNION {g[k] : k \in ks}] : \A k \in ks : h[k] \in g[k]}}
             : ks \in SUBSET DOMAIN g}

SubDocuments ==
    Maps(Word("e") :> {Scalar("on"), Scalar("7"), Null, Map(<< >>)}
         @@ Camel("i", "p") :> {Scalar("7"), Scalar("on"), Items(<< >>)}
         @@ Snake("i", "p") :> {Scalar("7"), Null}
         @@ Word("x") :> {Scalar("7")})

MCDocuments ==
    Maps(Camel("e", "ips") :> SubDocuments \cup {Null, Scalar("7"), Items(<< >>)}
         @@ Word("s") :> {Items(<< >>), Items(<<Scalar("7"), Scalar("on")>>), Items(<<Null, Scalar("7")>>), Scalar("7")}
         @@ Word("p") :> {Items(<< >>), Scalar("7"), Map(<< >>)})
    \cup Maps(Ips :> SubDocuments @@ Word("x") :> {Map(<< >>), Null})
    \cup {Null, Scalar("7"), Items(<< >>), Items(<<Scalar("7")>>), Items(<<Map(<< >>)>>)}

MCPresets ==
    {(Ips :> << >>) @@ Word("s") :> << >> @@ Word("p") :> << >>,
     (Ips :> (Word("e") :> "OFF" @@ Snake("i", "p") :> Unset)) @@ Word("s") :> <<"on">> @@ Word("p") :> << >>}

DocumentedDocuments == {Map(DocumentedIps :> Map(Word("e") :> Scalar("on")))}

=============================================================================
