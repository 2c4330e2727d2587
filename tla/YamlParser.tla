----------------------------- MODULE YamlParser ------------------------------
(***************************************************************************)
(* ParserYaml (ConfigLoader.cpp): the parser that fills a protobuf message *)
(* from a YAML document by walking the message's descriptor, and the walk  *)
(* over the document that looks for unknown fields.  Both are compared     *)
(* with a definition of which documents are valid and of what they mean.   *)
(*                                                                         *)
(* A descriptor maps the names of a message's fields to                    *)
(*   [label, type, fields]  (fields is the descriptor of a sub-message),   *)
(* a message maps them to values.  A node of a document is                 *)
(*   [kind |-> "null"], [kind |-> "scalar", value], [kind |-> "seq", items] *)
(*   or [kind |-> "map", entries].                                         *)
(* A name is the sequence of its words, each with what joins it to the     *)
(* one before: "_" in snake case, "^" for a capital letter in camel case,  *)
(* "" for the first.  Words are letters.  An error is its kind and a name. *)
(***************************************************************************)
EXTENDS Integers, Sequences, SequencesExt, FiniteSets, Functions, TLC

CONSTANTS
    Descriptor,     \* the descriptor of the message
    Documents,      \* the documents that are parsed
    Presets,        \* the messages that are parsed into
    Modes,          \* values of validation_mode_
    CamelCase       \* values of read_camelcase_

VARIABLES doc, before, mode, camel, result

vars == <<doc, before, mode, camel, result>>

-----------------------------------------------------------------------------
(***************************************************************************)
(* Names.                                                                  *)
(***************************************************************************)

SnakeCaseToCamel(s) == [k \in DOMAIN s |-> <<IF s[k][1] = "_" THEN "^" ELSE s[k][1], s[k][2]>>]

\* A capital letter at the start of a name joins nothing.
CamelCaseToSnake(s) ==
    [k \in DOMAIN s |-> <<IF k = 1 THEN "" ELSE IF s[k][1] = "^" THEN "_" ELSE s[k][1], s[k][2]>>]

-----------------------------------------------------------------------------
(***************************************************************************)
(* Values.  TryConvert and the lookup of enum values: what a scalar becomes *)
(* in a field of a type, or Bad.                                           *)
(***************************************************************************)

Bad == "bad"
Unset == "unset"

Convert(v, type) ==
    CASE type = "int" -> IF v = "7" THEN v ELSE Bad
      [] type = "enum" -> IF v \in {"on", "ON"} THEN "ON" ELSE Bad
      [] type = "string" -> v
      [] OTHER -> Bad

\* An item of a sequence that is not a scalar does not convert.
ConvertItem(n, type) == IF n.kind = "scalar" THEN Convert(n.value, type) ELSE Bad

Default(field) ==
    CASE field.label = "repeated" -> << >>
      [] field.label = "single" /\ field.type = "message" -> << >>
      [] OTHER -> Unset

Undefined == [kind |-> "undefined"]

\* node[name]; a sequence has no entry of that name.
Child(node, name) ==
    IF node.kind = "map" /\ name \in DOMAIN node.entries THEN node.entries[name] ELSE Undefined

\* What the iteration over a node meets: the entries of a map.
Entries(node) == IF node.kind = "map" THEN node.entries ELSE << >>

Error(kind, name) == [kind |-> kind, name |-> name]

\* The parser does not return: an exception that nothing catches, or a check of
\* the protobuf library.
Ends == Error("ends", << >>)

\* The name under which a field is looked up.
Key(name, cc) == IF cc THEN SnakeCaseToCamel(name) ELSE name

-----------------------------------------------------------------------------
(***************************************************************************)
(* Parse.                                                                  *)
(***************************************************************************)

\* Faulty variant: the items are added to those of the message.
ParseArrayItemsAppending(old, node, type, name) ==
    LET items == [k \in DOMAIN node.items |-> ConvertItem(node.items[k], type)]
    IN  [value |-> old \o SelectSeq(items, LAMBDA v : v # Bad),
         errors |-> {Error("conversion", name) : k \in {j \in DOMAIN items : items[j] = Bad}}]

\* ParseArrayInner and ParseArrayEnum: the field is cleared, and the items that
\* convert are added.
ParseArrayItems(old, node, type, name) ==
    LET items == [k \in DOMAIN node.items |-> ConvertItem(node.items[k], type)]
    IN  [value |-> SelectSeq(items, LAMBDA v : v # Bad),
         errors |-> {Error("conversion", name) : k \in {j \in DOMAIN items : items[j] = Bad}}]

ParseArray(old, node, field, name) ==
    IF field.type = "message" THEN [value |-> old, errors |-> {Error("unsupported", name)}]
                              ELSE ParseArrayItems(old, node, field.type, name)

ParseScalar(old, node, field, name) ==
    IF Convert(node.value, field.type) = Bad
    THEN [value |-> old, errors |-> {Error("conversion", name)}]
    ELSE [value |-> Convert(node.value, field.type), errors |-> {}]

RECURSIVE ParseFields(_, _, _, _, _)

\* The message of a field: MutableMessage creates it with default values.
SubMessage(old, fields) == IF old = << >> THEN [f \in DOMAIN fields |-> Default(fields[f])] ELSE old

\* Parse of one field.
ParseField(old, node, field, name, md, cc) ==
    LET child == Child(node, Key(name, cc))
        fail(kind) == [value |-> old, errors |-> {Error(kind, name)}]
    IN
    CASE child = Undefined -> IF md = "STRICT" THEN fail("missing") ELSE [value |-> old, errors |-> {}]
      [] child # Undefined /\ field.label = "repeated" ->
            IF child.kind = "seq" THEN ParseArray(old, child, field, name) ELSE fail("type")
      [] child # Undefined /\ field.label = "single" /\ field.type = "message" ->
            IF child.kind = "null" THEN [value |-> old, errors |-> {}]
            ELSE IF child.kind # "map" THEN fail("type")
            ELSE ParseFields(SubMessage(old, field.fields), child, field.fields, md, cc)
      [] OTHER -> IF child.kind = "scalar" THEN ParseScalar(old, child, field, name) ELSE fail("type")

\* The loop over the fields of a descriptor.
ParseFields(msg, node, fields, md, cc) ==
    LET r == [f \in DOMAIN fields |-> ParseField(msg[f], node, fields[f], f, md, cc)]
    IN  [value |-> [f \in DOMAIN fields |-> r[f].value], errors |-> UNION {r[f].errors : f \in DOMAIN fields}]

RECURSIVE FindUnknownFields(_, _, _)

\* The items of a list have no name that could be converted, and GetMessage is
\* not for a repeated field.
FindUnknownFields(fields, node, cc) ==
    {Ends : k \in IF node.kind = "seq" THEN DOMAIN node.items ELSE {}} \cup
    UNION {LET name == IF cc THEN CamelCaseToSnake(k) ELSE k
               child == node.entries[k]
           IN  IF name \notin DOMAIN fields THEN {Error("unknown", name)}
               ELSE IF child.kind # "map" THEN {}
               ELSE IF fields[name].type # "message" THEN {Error("type", name)}
               ELSE IF fields[name].label = "repeated" THEN {Ends}
               ELSE FindUnknownFields(fields[name].fields, child, cc)
           : k \in DOMAIN Entries(node)}

\* Parse of a document.
ParseDocument(msg, node, md, cc) ==
    IF node.kind \in {"scalar", "null"} THEN [value |-> msg, errors |-> {Error("invalid", << >>)}]
    ELSE LET r == ParseFields(msg, node, Descriptor, md, cc)
         IN  [r EXCEPT !.errors = @ \cup IF md = "PERMISSIVE" THEN {} ELSE FindUnknownFields(Descriptor, node, cc)]

-----------------------------------------------------------------------------
Init ==
    /\ doc \in Documents /\ before \in Presets /\ mode \in Modes /\ camel \in CamelCase
    /\ result = << >>

Parse ==
    /\ result = << >>
    /\ result' = ParseDocument(before, doc, mode, camel)
    /\ UNCHANGED <<doc, before, mode, camel>>

Spec == Init /\ [][Parse]_vars

-----------------------------------------------------------------------------
(***************************************************************************)
(* What documents are valid and what they mean.                            *)
(***************************************************************************)

Readable(n, field) ==
    CASE field.label = "repeated" ->
            n.kind = "seq" /\ field.type # "message" /\ \A k \in DOMAIN n.items : ConvertItem(n.items[k], field.type) # Bad
      [] field.label = "single" /\ field.type = "message" -> n.kind \in {"null", "map"}
      [] OTHER -> n.kind = "scalar" /\ Convert(n.value, field.type) # Bad

\* Whether key k names field f: by the spelling the parser looks up, or by one
\* that the walk over the document takes for the field.
Names(k, f, exact) ==
    IF exact THEN k = Key(f, camel) ELSE f = IF camel THEN CamelCaseToSnake(k) ELSE k

IsMessage(field) == field.type = "message" /\ field.label = "single"

\* The maps of the document, each with the descriptor of its message.
RECURSIVE Levels(_, _, _)

Levels(node, fields, exact) ==
    {<<node, fields>>} \cup
    UNION {Levels(node.entries[p[1]], fields[p[2]].fields, exact) :
             p \in {q \in (DOMAIN Entries(node)) \X (DOMAIN fields) :
                      Names(q[1], q[2], exact) /\ IsMessage(fields[q[2]]) /\ node.entries[q[1]].kind = "map"}}

\* The document is a map or a list, which is one without fields.  On every level
\* each field that is there is readable; in strict mode each field is there;
\* outside of the permissive mode every key names a field, no key of a scalar
\* holds a map, and a list is empty.
Valid ==
    /\ doc.kind \in {"map", "seq"}
    /\ doc.kind = "seq" => mode = "PERMISSIVE" \/ doc.items = << >>
    /\ \A l \in Levels(doc, Descriptor, TRUE) : \A f \in DOMAIN l[2] :
          LET n == Child(l[1], Key(f, camel)) IN
          IF n = Undefined THEN mode # "STRICT" ELSE Readable(n, l[2][f])
    /\ mode # "PERMISSIVE" =>
          \A l \in Levels(doc, Descriptor, FALSE) : \A k \in DOMAIN Entries(l[1]) :
             \E f \in DOMAIN l[2] :
                Names(k, f, FALSE) /\ (l[1].entries[k].kind = "map" => IsMessage(l[2][f]))

Done == result # << >>

\* The parser accepts exactly the valid documents, in each mode and with either
\* spelling of the names, and in the permissive mode, the loader's, it returns
\* whatever the document is (ConfigLoader.cpp:66-269).
AcceptsValid ==
    Done =>
        /\ result.errors = {} <=> Valid
        /\ mode = "PERMISSIVE" => Ends \notin result.errors

\* A field that a document does not mention, or that it has wrong, keeps its
\* value, and one that is there and readable has the document's value, also in
\* a document that is rejected for another field (ConfigLoader.cpp:76, :247).
Merges ==
    Done =>
        \A f \in DOMAIN Descriptor :
            LET n == Child(doc, Key(f, camel))
                field == Descriptor[f]
            IN  /\ n = Undefined \/ n.kind = "null" => result.value[f] = before[f]
                /\ n # Undefined /\ field.label = "repeated" /\ Readable(n, field)
                      => result.value[f] = [k \in DOMAIN n.items |-> ConvertItem(n.items[k], field.type)]
                /\ n # Undefined /\ field.type = "message" /\ field.label = "single" /\ n.kind = "map" =>
                      \A g \in DOMAIN field.fields :
                         LET c == Child(n, Key(g, camel))
                             old == SubMessage(before[f], field.fields)[g]
                         IN  /\ c = Undefined => result.value[f][g] = old
                             /\ c # Undefined /\ field.fields[g].label = "single" /\ field.fields[g].type # "message"
                                   => result.value[f][g] = IF Readable(c, field.fields[g])
                                                           THEN Convert(c.value, field.fields[g].type) ELSE old

\* Every field can be named: reading the camel-case spelling of a field leads
\* back to the field (ConfigLoader.cpp:444-479).
NamesRoundTrip ==
    Done => \A f \in DOMAIN Descriptor \cup UNION {DOMAIN Descriptor[g].fields : g \in DOMAIN Descriptor} :
        CamelCaseToSnake(SnakeCaseToCamel(f)) = f

\* ConfigLoader.h:56, of UNKNOWN_FIELDS_ONLY: "Fail on unknown fields": every
\* entry of a document that is accepted is read.
NothingIgnored ==
    Done /\ result.errors = {} /\ mode # "PERMISSIVE" =>
        \A l \in Levels(doc, Descriptor, FALSE) : \A k \in DOMAIN Entries(l[1]) :
            \E f \in DOMAIN l[2] : Names(k, f, TRUE)

\* docs/references.md:162 documents the attribute "networking.externalIPs.enabled":
\* a document that spells it so sets it.
DocumentedNameIsRead ==
    LET e == <<"", "e">>
        e_ips == <<e, <<"_", "ips">>>>
    IN  Done /\ result.errors = {} =>
            \A k \in DOMAIN Entries(doc) :
                k = <<e, <<"^", "i">>, <<"^", "ps">>>> => result.value[e_ips] # before[e_ips]

=============================================================================
