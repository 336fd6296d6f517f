------------------------------ MODULE MCCodec ------------------------------
(***************************************************************************)
(* Every kind of value, alone and in lists and maps; all pairs of them     *)
(* compared, and every one of them bound under every declaration.          *)
(***************************************************************************)
EXTENDS Codec

ListOfNodes(vs) == Node(<<"list">>, vs)
Entry(k, v) == Node(<<"entry">>, <<k, v>>)
MapOfEntries(es) == Node(<<"map">>, es)

WktNode(name, m, of) == Node(<<"object", "google.protobuf." \o name, m>>, of)
Wkt(name, m) == WktNode(name, m, <<>>)

Null == Leaf(<<"null">>)
A == Leaf(<<"string", "a">>)
B == Leaf(<<"string", "b">>)
Nul == Leaf(<<"string", NUL>>)
Enum == Leaf(<<"enum", 1>>)
DoubleOf(d) == Leaf(<<"double", d>>)

Atoms ==
  {Null, A, Nul, Enum, Leaf(<<"bool", TRUE>>), Leaf(<<"int", 0>>), Leaf(<<"int", 1>>), Leaf(<<"uint", 1>>),
   Leaf(<<"bytes", "a">>), Leaf(<<"type", "a">>), Leaf(<<"type", NUL>>), Leaf(<<"unset">>)}
    \cup {DoubleOf(d) : d \in {"0", "-0", "1.5", "NaN", "Infinity", "-Infinity"}}

\* A field of a google.protobuf.Struct, and JSON: what it is and what it is made of.
JsonLeaf(j) == Leaf(<<"json", j>>)
Field(name, v) == Entry(JsonLeaf(<<"string", name>>), v)
JsonAtoms == {<<"unset">>, <<"null">>, <<"bool", TRUE>>, <<"string", "a">>, <<"number", "0">>, <<"number", "NaN">>}
Jsons ==
  {[is |-> j, of |-> <<>>] : j \in JsonAtoms}
    \cup {[is |-> <<"array">>, of |-> <<JsonLeaf(<<"number", "-0">>)>>],
          [is |-> <<"struct">>, of |-> <<Field("a", JsonLeaf(<<"null">>)), Field("b", JsonLeaf(<<"string", "a">>))>>]}
JsonNode(j) == Node(<<"json", j.is>>, j.of)

Messages ==
  {Wkt("Timestamp", [s |-> s, n |-> n]) : s \in {-1, 1}, n \in {0, 1}}
    \cup {Wkt("Duration", [s |-> s, n |-> n]) : s \in {-5, -4, 0, 3, 4}, n \in {-1, 0, 3}}
    \cup {Wkt(name, 1) : name \in {"Int32Value", "Int64Value", "UInt32Value", "UInt64Value"}}
    \cup {Wkt(name, d) : name \in {"FloatValue", "DoubleValue"}, d \in {"-0", "NaN"}}
    \cup {Wkt("BoolValue", TRUE), Wkt("StringValue", "a"), Wkt("StringValue", NUL), Wkt("BytesValue", "a")}
    \cup {WktNode("Value", j.is, j.of) : j \in Jsons} \cup {Wkt("Struct", <<>>), Wkt("Any", 1)}
    \cup {WktNode("Struct", <<>>, <<Field("a", JsonNode(j))>>) : j \in Jsons}
    \cup {WktNode("ListValue", <<>>, <<JsonNode(j)>>) : j \in Jsons}

MapKeys == {A, Nul, DoubleOf("0"), DoubleOf("-0")}
Entries == {Entry(k, Null) : k \in MapKeys} \cup {Entry(A, DoubleOf("NaN"))}
ListValues == {ListOfNodes(<<>>)} \cup {ListOfNodes(<<a>>) : a \in Atoms}
  \cup {ListOfNodes(<<a, b>>) : a, b \in {Leaf(<<"int", 1>>), DoubleOf("NaN"), Nul, Enum}}
MapValues ==
  {MapOfEntries(<<>>)} \cup {MapOfEntries(<<e>>) : e \in Entries} \cup {MapOfEntries(<<e, f>>) : e, f \in Entries}
    \cup {MapOfEntries(<<Entry(A, v), Entry(B, A)>>) : v \in {Null, Enum}}
    \cup {MapOfEntries(<<Entry(B, A), Entry(A, Null)>>)}

Nested == {ListOfNodes(<<m>>) : m \in MapValues} \cup {MapOfEntries(<<Entry(Leaf(<<"bool", TRUE>>), m)>>) : m \in MapValues}

Values == Atoms \cup Messages \cup ListValues \cup MapValues \cup Nested

Primitives == {"BOOL", "INT64", "UINT64", "DOUBLE", "STRING", "BYTES"}
Names == {"Timestamp", "Duration", "Any", "Value", "Struct", "ListValue", "BoolValue", "Int32Value", "Int64Value",
          "UInt32Value", "UInt64Value", "FloatValue", "DoubleValue", "StringValue", "BytesValue"}
Dyn == Leaf(<<"dyn">>)
Unset == Leaf(<<"unset">>)
Simple ==
  {Dyn, Null, Unset, Leaf(<<"error">>), Leaf(<<"param", "T">>), Leaf(<<"type">>), Node(<<"type">>, <<Unset>>)}
    \cup {Leaf(<<"primitive", p>>) : p \in Primitives \cup {"UNSPECIFIED"}} \cup {Leaf(<<"wrapper", p>>) : p \in Primitives}
    \cup {Leaf(<<"well_known", w>>) : w \in {"ANY", "TIMESTAMP", "DURATION"}}
    \cup {Leaf(<<"message", "google.protobuf." \o n>>) : n \in Names} \cup {Leaf(<<"message", "acme.Other">>)}
ProtoTypes ==
  Simple \cup {Node(<<"list">>, <<t>>) : t \in Simple} \cup {Node(<<"type">>, <<t>>) : t \in Simple}
    \cup {Node(<<"map">>, <<t, u>>) :
            t, u \in {Dyn, Null, Leaf(<<"primitive", "STRING">>), Leaf(<<"primitive", "DOUBLE">>), Leaf(<<"wrapper", "STRING">>)}}
    \cup {Node(<<"abstract", "optional_type">>, <<t>>) : t \in {Dyn, Unset}}

Functions == {<<"function", <<[params |-> <<t>>, result |-> u]>>>> : t, u \in {Dyn, Unset}}

ExprValues ==
  {<<"value", v>> : v \in Values} \cup {<<"unset">>, <<"unknown", <<1, 2>>>>}
    \cup {<<"error", m>> : m \in {<<>>, <<"a">>, <<NUL, "a">>}}

Decls ==
  {<<"ident", t>> : t \in ProtoTypes} \cup Functions \cup {<<"unset">>}
=============================================================================
