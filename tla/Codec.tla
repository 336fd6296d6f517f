------------------------------- MODULE Codec -------------------------------
(***************************************************************************)
(* internal/codec: from the protobuf values and types of the corpus to     *)
(* tagged jsonb and rendered types, and the comparison of tagged values.   *)
(* One behaviour is one case that binds a variable to a value, evaluates   *)
(* the variable and compares with an expectation.                          *)
(*                                                                         *)
(* Values and types, of protobuf and of the database, are trees. A node is *)
(* something, its kind first, and made of other nodes; it comes with its   *)
(* parts, all nodes below it, so that what the code computes by recursion  *)
(* is a function on parts. A map is made of entries, these of a key and a  *)
(* value. What is in an Any is the node itself, not below it; json stands  *)
(* before what is below a google.protobuf.Value, Struct or ListValue.      *)
(*                                                                         *)
(* A float64 is named by its shortest rendering; NUL is a string with      *)
(* U+0000 in it.                                                           *)
(***************************************************************************)
EXTENDS Integers, Sequences, FiniteSets

CONSTANTS
  Bindings, Declarations, Expectations,  \* the ExprValues, Decls and Values tried
  Nano,     \* nanoseconds of a second; 1_000_000_000
  IntLimit  \* one more than the greatest int64; 2^63

ASSUME LimitAssumption == Nano \in Nat \ {0} /\ IntLimit \in Nat \ {0}

-----------------------------------------------------------------------------
(***************************************************************************)
(* Trees.                                                                  *)
(***************************************************************************)
Parts(t) == {t} \cup t.parts
Node(is, of) == [is |-> is, of |-> of, parts |-> UNION {Parts(of[i]) : i \in DOMAIN of}]
Leaf(is) == Node(is, <<>>)
Kind(t) == t.is[1]
Labels(t) == {u.is : u \in Parts(t)}

Fault == Leaf(<<"fault">>)
Faulty(t) == <<"fault">> \in Labels(t)

\* The tree with every node made into something else.
Relabel(t, into) ==
  LET made[u \in Parts(t)] == Node(into[u.is], [i \in DOMAIN u.of |-> made[u.of[i]]])
  IN made[t]

-----------------------------------------------------------------------------
(***************************************************************************)
(* The inputs.                                                             *)
(***************************************************************************)
NUL == "NUL"

IsTree(t) ==
  \A u \in Parts(t) :
    u = Node(u.is, u.of) /\ u.of \in Seq(u.parts) /\ IsFiniteSet(u.parts) /\ u \notin u.parts

IsPair(label) == label = <<label[1], label[2]>>

Json(j) ==
  \/ j \in {<<"null">>, <<"unset">>, <<"array">>, <<"struct">>}
  \/ IsPair(j) /\ j[1] \in {"bool", "number", "string"}

ValueLabel(is) ==
  \/ is \in {<<"null">>, <<"unset">>, <<"list">>, <<"map">>, <<"entry">>}
  \/ IsPair(is) /\ is[1] \in {"bool", "int", "uint", "double", "string", "bytes", "type", "enum"}
  \/ IsPair(is) /\ is[1] = "json" /\ Json(is[2])
  \/ /\ is = <<"object", is[2], is[3]>>
     /\ is[2] = "google.protobuf.Duration" => is[3].s \in Int /\ is[3].n \in Int
     /\ is[2] = "google.protobuf.Value" => Json(is[3])

JsonString(is) == is = <<"json", <<"string", is[2][2]>>>>

Lists == {<<"list">>, <<"json", <<"array">>>>, <<"object", "google.protobuf.ListValue", <<>>>>,
          <<"object", "google.protobuf.Value", <<"array">>>>}
Maps == {<<"map">>, <<"json", <<"struct">>>>, <<"object", "google.protobuf.Struct", <<>>>>,
         <<"object", "google.protobuf.Value", <<"struct">>>>}

IsValue(v) ==
  /\ IsTree(v)
  /\ \A u \in Parts(v) :
       /\ ValueLabel(u.is)
       /\ u.is \in Maps => \A i \in DOMAIN u.of : u.of[i].is = <<"entry">>
       /\ u.is = <<"entry">> => Len(u.of) = 2
       /\ u.is \notin Maps \cup Lists \cup {<<"entry">>} => u.of = <<>>
       /\ Kind(u) = "json" => \E m \in Parts(v) : Kind(m) = "object"
       /\ u.is \in Maps \ {<<"map">>} => \A i \in DOMAIN u.of : JsonString(u.of[i].of[1].is)

IsDeclaredType(t) ==
  /\ IsTree(t)
  /\ \A u \in Parts(t) :
       Len(u.of) \in CASE Kind(u) = "list" -> {1} [] Kind(u) = "map" -> {2} [] Kind(u) = "type" -> {0, 1}
                       [] Kind(u) = "abstract" -> Nat [] OTHER -> {0}

ASSUME InputAssumption ==
  /\ \A e \in Bindings : e[1] = "value" => IsValue(e[2])
  /\ \A v \in Expectations \cup {Leaf(<<"null">>)} : IsValue(v)
  /\ \A d \in Declarations : d[1] = "ident" => IsDeclaredType(d[2])

VARIABLES
  binding, decl,  \* the ExprValue of the variable, and its declaration
  expected,       \* the Value to compare with
  stage,          \* how far the case is
  type, got,      \* the converted type and value of the variable
  verdict

vars == <<binding, decl, expected, stage, type, got, verdict>>

-----------------------------------------------------------------------------
(***************************************************************************)
(* To tagged values.                                                       *)
(***************************************************************************)
int64(n) == ((n + IntLimit) % (2 * IntLimit)) - IntLimit

Sentinels == {"NaN", "Infinity", "-Infinity"}

\* A payload that is a JSON string, or a JSON number.
doublePayload(d) == <<IF d \in Sentinels THEN "text" ELSE "number", d>>
Double(d) == <<"double", doublePayload(d)>>

fromJSON(j) ==
  CASE j \in {<<"null">>, <<"unset">>} -> <<"null">>
    [] j[1] = "number" -> Double(j[2])
    [] j = <<"struct">> -> <<"map">>
    [] j = <<"array">> -> <<"list">>
    [] OTHER -> j   \* bool, string

SignedWrappers == {"google.protobuf.Int32Value", "google.protobuf.Int64Value"}
UnsignedWrappers == {"google.protobuf.UInt32Value", "google.protobuf.UInt64Value"}
FloatWrappers == {"google.protobuf.FloatValue", "google.protobuf.DoubleValue"}

\* Of the message m.
fromWellKnown(name, m) ==
  CASE name = "google.protobuf.Timestamp" -> <<"timestamp", [s |-> m.s, n |-> m.n, tz |-> 0]>>
    [] name = "google.protobuf.Duration" -> <<"duration", int64(int64(m.s * Nano) + m.n)>>
    [] name = "google.protobuf.BoolValue" -> <<"bool", m>>
    [] name \in SignedWrappers -> <<"int", m>>
    [] name \in UnsignedWrappers -> <<"uint", m>>
    [] name \in FloatWrappers -> Double(m)
    [] name = "google.protobuf.StringValue" -> <<"string", m>>
    [] name = "google.protobuf.BytesValue" -> <<"bytes", m>>
    [] name = "google.protobuf.Value" -> fromJSON(m)
    [] name = "google.protobuf.Struct" -> <<"map">>
    [] name = "google.protobuf.ListValue" -> <<"list">>
    [] OTHER -> <<"fault">>

tagged(is) ==
  CASE is[1] = "double" -> Double(is[2])
    [] is[1] = "json" -> fromJSON(is[2])
    [] is[1] = "object" -> fromWellKnown(is[2], is[3])
    [] is[1] \in {"enum", "unset"} -> <<"fault">>
    [] OTHER -> is   \* null, bool, int, uint, string, bytes, type, list, map

FromValue(v) ==
  LET t == Relabel(v, [is \in Labels(v) |-> tagged(is)])
  IN IF Faulty(t) THEN Fault ELSE t

FromExprValue(e) ==
  CASE e[1] = "value" -> FromValue(e[2])
    [] e[1] = "error" -> Leaf(<<"error", IF e[2] = <<>> THEN "" ELSE Head(e[2])>>)
    [] e[1] = "unknown" -> Leaf(<<"unknown", e[2]>>)
    [] OTHER -> Fault

-----------------------------------------------------------------------------
(***************************************************************************)
(* What jsonb makes of a tagged value: no U+0000 in a string, no negative  *)
(* zero in a number.                                                       *)
(***************************************************************************)
Storable(t) == \A is \in Labels(t) : is[1] \in {"string", "type", "error"} => is[2] # NUL

stored(is) == IF is = Double("-0") THEN Double("0") ELSE is
Stored(t) == Relabel(t, [is \in Labels(t) |-> stored(is)])

-----------------------------------------------------------------------------
(***************************************************************************)
(* Equal. Payloads are of the right shape: both come from this codec.      *)
(***************************************************************************)
\* float64 comparison, with NaN equal to itself.
doubleEqual(w, g) == w[2] = g[2] \/ {w[2], g[2]} = {"0", "-0"}

timestampEqual(w, g) == w.s = g.s /\ w.n = g.n

\* What equals the element i is the set below[i].
listEqual(below, g) == Len(below) = Len(g) /\ \A i \in DOMAIN below : g[i] \in below[i]

\* Variant: the entries in their order.
mapEqualVariant(below, g) == listEqual(below, g)

\* The entries, from the first on, each take the first one that fits and is not
\* used yet.
TakeEntries(n, fits) ==
  LET used[i \in 0..n] ==
        IF i = 0 THEN {}
        ELSE LET free == fits[i] \ used[i - 1]
             IN used[i - 1] \cup {j \in free : \A k \in free : j <= k}
  IN \A i \in 1..n : ~ (fits[i] \subseteq used[i - 1])

mapEqual(below, g) ==
  Len(below) = Len(g) /\ TakeEntries(Len(g), [i \in DOMAIN below |-> {j \in DOMAIN g : g[j] \in below[i]}])

\* What equals u among the given nodes.
EqualTo(nodes, u, below) ==
  {v \in nodes :
     /\ Kind(u) = Kind(v)
     /\ CASE Kind(u) \in {"null", "error"} -> TRUE
          [] Kind(u) = "double" -> doubleEqual(u.is[2], v.is[2])
          [] Kind(u) \in {"list", "entry"} -> listEqual(below, v.of)
          [] Kind(u) = "map" -> mapEqual(below, v.of)
          [] Kind(u) = "timestamp" -> timestampEqual(u.is[2], v.is[2])
          [] OTHER -> u.is[2] = v.is[2]}   \* by number, by string, by list of ids

Equal(w, g) ==
  LET equal[u \in Parts(w)] == EqualTo(Parts(g), u, [i \in DOMAIN u.of |-> equal[u.of[i]]])
  IN g \in equal[w]

-----------------------------------------------------------------------------
(***************************************************************************)
(* Types.                                                                  *)
(***************************************************************************)
kindOnly(kind) == Leaf(<<kind>>)

\* Variant: what is wrapped, as it is.
WrapperVariant(kind) == kindOnly(kind)

Wrapper(kind) == Node(<<"wrapper">>, <<kindOnly(kind)>>)

primitiveKinds ==
  [BOOL |-> "bool", INT64 |-> "int", UINT64 |-> "uint", DOUBLE |-> "double", STRING |-> "string", BYTES |-> "bytes"]
wellKnowns == [ANY |-> "any", TIMESTAMP |-> "timestamp", DURATION |-> "duration"]

wellKnownMessages(name) ==
  CASE name = "google.protobuf.Timestamp" -> kindOnly("timestamp")
    [] name = "google.protobuf.Duration" -> kindOnly("duration")
    [] name = "google.protobuf.Any" -> kindOnly("any")
    [] name = "google.protobuf.NullValue" -> kindOnly("null")
    [] name = "google.protobuf.Value" -> kindOnly("dyn")
    [] name = "google.protobuf.Struct" -> Node(<<"map">>, <<kindOnly("string"), kindOnly("dyn")>>)
    [] name = "google.protobuf.ListValue" -> Node(<<"list">>, <<kindOnly("dyn")>>)
    [] name = "google.protobuf.BoolValue" -> Wrapper("bool")
    [] name \in SignedWrappers -> Wrapper("int")
    [] name \in UnsignedWrappers -> Wrapper("uint")
    [] name \in FloatWrappers -> Wrapper("double")
    [] name = "google.protobuf.StringValue" -> Wrapper("string")
    [] name = "google.protobuf.BytesValue" -> Wrapper("bytes")
    [] OTHER -> Leaf(<<"struct", name>>)

\* The node u, its parameters converted.
TypeNode(u, params) ==
  CASE Kind(u) \in {"dyn", "null", "error", "param"} -> Leaf(u.is)
    [] Kind(u) = "primitive" ->
         IF u.is[2] \in DOMAIN primitiveKinds THEN kindOnly(primitiveKinds[u.is[2]]) ELSE Fault
    [] Kind(u) = "wrapper" ->
         IF u.is[2] \in DOMAIN primitiveKinds THEN Wrapper(primitiveKinds[u.is[2]]) ELSE Fault
    [] Kind(u) = "well_known" ->
         IF u.is[2] \in DOMAIN wellKnowns THEN kindOnly(wellKnowns[u.is[2]]) ELSE Fault
    [] Kind(u) \in {"list", "map"} -> Node(u.is, params)
    [] Kind(u) = "type" ->
         IF u.of = <<>> \/ Kind(u.of[1]) = "unset" THEN kindOnly("type") ELSE Node(u.is, params)
    [] Kind(u) = "message" -> wellKnownMessages(u.is[2])
    [] Kind(u) = "abstract" -> Node(<<"opaque", u.is[2]>>, params)
    [] OTHER -> Fault

FromType(t) ==
  LET from[u \in Parts(t)] == TypeNode(u, [i \in DOMAIN u.of |-> from[u.of[i]]])
  IN IF Faulty(from[t]) THEN Fault ELSE from[t]

\* A declaration of a variable: <<"ident", type>>; of a function: <<"function",
\* overloads>>, each with its argument types and its result.
FromDecl(d) ==
  CASE d[1] = "ident" -> FromType(d[2])
    [] d[1] = "function" ->
         LET overload(o) ==
               Node(<<"overload">>, Append([i \in DOMAIN o.params |-> FromType(o.params[i])], FromType(o.result)))
             t == Node(<<"function">>, [i \in DOMAIN d[2] |-> overload(d[2][i])])
         IN IF Faulty(t) THEN Fault ELSE t
    [] OTHER -> Fault

-----------------------------------------------------------------------------
(***************************************************************************)
(* What corpus.go looks for to skip a case by name.                        *)
(***************************************************************************)
valueHasNul(v) == <<"string", NUL>> \in Labels(v)

\* Variant: the value itself only.
exprValueHasNulVariant(e) == e[1] = "value" /\ e[2].is = <<"string", NUL>>

exprValueHasNul(e) == e[1] = "value" /\ valueHasNul(e[2])

\* The matcher gives the expectation when it is a value.
ContainsNulString == exprValueHasNul(binding) \/ valueHasNul(expected)

-----------------------------------------------------------------------------
(***************************************************************************)
(* A case.                                                                 *)
(***************************************************************************)
Goes(next) == stage' = next

Skip ==
  /\ stage = "start" /\ ContainsNulString
  /\ Goes("skipped")
  /\ UNCHANGED <<binding, decl, expected, type, got, verdict>>

\* checkOptions, then activationJSON.
Convert ==
  /\ stage = "start" /\ ~ ContainsNulString
  /\ type' = FromDecl(decl) /\ got' = FromExprValue(binding)
  /\ Goes(IF Fault \in {type', got'} THEN "failed" ELSE "converted")
  /\ UNCHANGED <<binding, decl, expected, verdict>>

\* The activation becomes jsonb, and the value of the variable is the answer.
Ask ==
  /\ stage = "converted"
  /\ got' = Stored(got)
  /\ Goes(IF Storable(got) THEN "answered" ELSE "refused")
  /\ UNCHANGED <<binding, decl, expected, type, verdict>>

\* compareResult, with the matcher value.
Compare ==
  /\ stage = "answered"
  /\ LET want == FromValue(expected)
     IN verdict' = (want # Fault /\ Equal(want, got))
  /\ Goes("compared")
  /\ UNCHANGED <<binding, decl, expected, type, got>>

\* The declaration bears on nothing that is compared.
Init ==
  /\ binding \in Bindings
  /\ \/ decl = <<"ident", Leaf(<<"dyn">>)>> /\ expected \in Expectations
     \/ decl \in Declarations /\ expected = Leaf(<<"null">>)
  /\ stage = "start" /\ type = Fault /\ got = Fault /\ verdict = FALSE

Next == Skip \/ Convert \/ Ask \/ Compare

Spec == Init /\ [][Next]_vars

-----------------------------------------------------------------------------
(***************************************************************************)
(* The reference: what a protobuf value means. Equality of meanings is     *)
(* plain equality; a map is a bag of entries, and what was packed into Any *)
(* means what the same value means outside of it.                          *)
(***************************************************************************)
BagOf(entries) ==
  {<<e, Cardinality({i \in DOMAIN entries : entries[i] = e})>> : e \in {entries[i] : i \in DOMAIN entries}}

CanonicalNode(is, below) == <<is, IF is = <<"map">> THEN BagOf(below) ELSE below>>

\* A tree whose nodes are something, up to the order of entries.
Canonical(t, into) ==
  LET canonical[u \in Parts(t)] == CanonicalNode(into[u.is], [i \in DOMAIN u.of |-> canonical[u.of[i]]])
  IN canonical[t]

Number(d) == <<"double", IF d = "-0" THEN "0" ELSE d>>

JsonMeaning(j) ==
  CASE j = <<"unset">> -> <<"null">>
    [] j[1] = "number" -> Number(j[2])
    [] j = <<"struct">> -> <<"map">>
    [] j = <<"array">> -> <<"list">>
    [] OTHER -> j

Wrapped(name) ==
  CASE name \in SignedWrappers -> "int" [] name \in UnsignedWrappers -> "uint"
    [] name = "google.protobuf.BoolValue" -> "bool" [] name = "google.protobuf.StringValue" -> "string"
    [] name = "google.protobuf.BytesValue" -> "bytes"

MessageMeaning(name, m) ==
  CASE name = "google.protobuf.Timestamp" -> <<"timestamp", m.s, m.n>>
    [] name = "google.protobuf.Duration" -> <<"duration", m.s * Nano + m.n>>
    [] name \in FloatWrappers -> Number(m)
    [] name = "google.protobuf.Value" -> JsonMeaning(m)
    [] name = "google.protobuf.Struct" -> <<"map">>
    [] name = "google.protobuf.ListValue" -> <<"list">>
    [] OTHER -> <<Wrapped(name), m>>

meaning(is) ==
  CASE is[1] = "double" -> Number(is[2])
    [] is[1] = "json" -> JsonMeaning(is[2])
    [] is[1] = "object" -> MessageMeaning(is[2], is[3])
    [] OTHER -> is

Meaning(v) == Canonical(v, [is \in Labels(v) |-> meaning(is)])

\* A CEL duration is an int64 of nanoseconds, a protobuf one may be longer.
InRange(v) ==
  \A is \in Labels(v) :
    is[1] = "object" /\ is[2] = "google.protobuf.Duration" =>
      is[3].s * Nano + is[3].n \in (-IntLimit)..(IntLimit - 1)

-----------------------------------------------------------------------------
(***************************************************************************)
(* What it is for a protobuf value to be of a declared protobuf type, and  *)
(* for a tagged value to be of a rendered type: the nodes of a value that  *)
(* are of the type s, given those of each of its parameters.               *)
(***************************************************************************)
OfMessage(v, name) == Kind(v) = "object" /\ v.is[2] = name
OfPrimitive(v, t) ==
  Kind(v) = CASE t = "BOOL" -> "bool" [] t = "INT64" -> "int" [] t = "UINT64" -> "uint"
              [] t = "DOUBLE" -> "double" [] t = "STRING" -> "string" [] t = "BYTES" -> "bytes"
              [] OTHER -> "unset"

ListOf(u, below) == Kind(u) = "list" /\ \A i \in DOMAIN u.of : u.of[i] \in below[1]
MapOf(u, below) ==
  Kind(u) = "map" /\ \A i \in DOMAIN u.of : u.of[i].of[1] \in below[1] /\ u.of[i].of[2] \in below[2]

TypedNodes(nodes, s, below) ==
  {u \in nodes :
     CASE Kind(s) = "dyn" -> TRUE
       [] Kind(s) = "primitive" -> OfPrimitive(u, s.is[2])
       [] Kind(s) = "wrapper" -> Kind(u) = "null" \/ OfPrimitive(u, s.is[2])
       [] Kind(s) = "well_known" ->
            \/ s.is[2] = "ANY"
            \/ (s.is[2] = "TIMESTAMP" /\ OfMessage(u, "google.protobuf.Timestamp"))
            \/ (s.is[2] = "DURATION" /\ OfMessage(u, "google.protobuf.Duration"))
       [] Kind(s) = "list" -> ListOf(u, below)
       [] Kind(s) = "map" -> MapOf(u, below)
       [] Kind(s) \in {"type", "null"} -> Kind(u) = Kind(s)
       [] Kind(s) = "message" -> OfMessage(u, s.is[2])
       [] OTHER -> FALSE}

HasType(v, t) ==
  LET typed[s \in Parts(t)] == TypedNodes(Parts(v), s, [i \in DOMAIN s.of |-> typed[s.of[i]]])
  IN v \in typed[t]

Inhabitants(nodes, s, below) ==
  {u \in nodes :
     CASE Kind(s) \in {"dyn", "any"} -> TRUE
       [] Kind(s) = "wrapper" -> Kind(u) = "null" \/ u \in below[1]
       [] Kind(s) = "list" -> ListOf(u, below)
       [] Kind(s) = "map" -> MapOf(u, below)
       [] OTHER -> Kind(u) = Kind(s)}

Inhabits(g, t) ==
  LET inhabitants[s \in Parts(t)] == Inhabitants(Parts(g), s, [i \in DOMAIN s.of |-> inhabitants[s.of[i]]])
  IN g \in inhabitants[t]

-----------------------------------------------------------------------------
(***************************************************************************)
(* Properties.                                                             *)
(***************************************************************************)
\* A value went to the database and back and compares equal to an expectation
\* exactly when both mean the same (compare.go:9-18, codec.go:1-7): maps in any
\* order and with any number of equal entries, NaN, both zeros, wrapped and
\* plain, Struct and map, and never across kinds.
SameMeaning ==
  stage = "compared" /\ binding[1] = "value" /\ InRange(binding[2]) /\ InRange(expected)
    /\ FromValue(expected) # Fault =>
    (verdict <=> Meaning(binding[2]) = Meaning(expected))

\* The database refuses the activation of a case that was not skipped only if
\* its binding has what the scan does not look into: a message somewhere in it,
\* whatever that holds, a type named by the NUL, or an error (corpus.go:161-166).
RefusedOnlyUnseen ==
  stage = "refused" =>
    binding[1] = "error" \/ \E is \in Labels(binding[2]) : is[1] = "object" \/ is = <<"type", NUL>>

\* A variable holds what its declaration says, after the one went through
\* FromExprValue and the other through FromType and the table of well-known
\* messages (type.go:28-30).
KeepsItsType ==
  stage \in {"converted", "answered", "compared"} /\ decl[1] = "ident" /\ binding[1] = "value"
    /\ HasType(binding[2], decl[2]) =>
    Inhabits(got, type)
=============================================================================
