------------------------------ MODULE Outcomes ------------------------------
(***************************************************************************)
(* The outcome of evaluating a node, as the evaluator's calls see it: a    *)
(* bool, an int, a list, a map, some other value, an error that names the  *)
(* node it comes from, or an unknown with the ids of the missing inputs.   *)
(* Errors and unknowns are values; each kind of call has its own rule for  *)
(* which of its arguments it takes them from.                              *)
(***************************************************************************)
EXTENDS Naturals, Sequences

Bool(b) == [bool |-> b]
Number(n) == [int |-> n]
List(s) == [list |-> s]
\* A map is its keys: what is stored under them plays no part.
Map(keys) == [map |-> keys]
Other == [other |-> 0]
Error(id) == [error |-> id]
Unknown(ids) == [unknown |-> ids]

Bools == {Bool(TRUE), Bool(FALSE)}

IsBool(v) == v \in Bools
IsError(v) == "error" \in DOMAIN v
IsUnknown(v) == "unknown" \in DOMAIN v
IsMap(v) == "map" \in DOMAIN v

\* The error of a call that has no overload for its arguments, or whose
\* overload refuses them; the nodes of a program are numbered from 1.
NoOverload == Error(0)

\* cel._unknown_merge. Variant: the first one is kept.
KeepFirst(a, b) == a

Merge(a, b) == Unknown(a.unknown \cup b.unknown)

\* _&&_ (absorbing FALSE) and _||_ (absorbing TRUE): the absorbing value on
\* either side, then what is missing, then the first error. Variant: errors
\* before unknowns.
LogicalErrorFirst(absorbing, l, r) ==
  IF Bool(absorbing) \in {l, r} THEN Bool(absorbing)
  ELSE IF IsBool(l) /\ IsBool(r) THEN l
  ELSE IF IsError(l) THEN l
  ELSE IF IsError(r) THEN r
  ELSE IF IsUnknown(l) /\ IsUnknown(r) THEN Merge(l, r)
  ELSE IF IsUnknown(l) THEN l
  ELSE IF IsUnknown(r) THEN r
  ELSE NoOverload

Logical(absorbing, l, r) ==
  IF Bool(absorbing) \in {l, r} THEN Bool(absorbing)
  ELSE IF IsBool(l) /\ IsBool(r) THEN l
  ELSE IF IsUnknown(l) /\ IsUnknown(r) THEN Merge(l, r)
  ELSE IF IsUnknown(l) THEN l
  ELSE IF IsUnknown(r) THEN r
  ELSE IF IsError(l) THEN l
  ELSE IF IsError(r) THEN r
  ELSE NoOverload

\* _?_:_ evaluates its condition and then one branch.
Conditional(c, then, else) ==
  IF IsError(c) \/ IsUnknown(c) THEN c
  ELSE IF ~ IsBool(c) THEN NoOverload
  ELSE IF c = Bool(TRUE) THEN then ELSE else

\* @not_strictly_false.
NotStrictlyFalse(v) == IF IsBool(v) THEN v ELSE Bool(TRUE)

\* A strict call of two arguments, applied(l, r) when both are values: the
\* first error, then what is missing, then dispatch.
Strict(l, r, applied) ==
  IF IsError(l) THEN l
  ELSE IF IsError(r) THEN r
  ELSE IF IsUnknown(l) /\ IsUnknown(r) THEN Merge(l, r)
  ELSE IF IsUnknown(l) THEN l
  ELSE IF IsUnknown(r) THEN r
  ELSE applied

\* !_ on an outcome, a strict call with one overload.
Not(v) ==
  IF IsError(v) \/ IsUnknown(v) THEN v
  ELSE IF IsBool(v) THEN Bool(v = Bool(FALSE)) ELSE NoOverload

\* _+_ on two ints or two lists; _==_, which is total on values.
Add(l, r) ==
  Strict(l, r,
    IF "int" \in DOMAIN l /\ "int" \in DOMAIN r THEN Number(l.int + r.int)
    ELSE IF "list" \in DOMAIN l /\ "list" \in DOMAIN r THEN List(l.list \o r.list)
    ELSE NoOverload)

Equals(l, r) == Strict(l, r, Bool(l = r))

\* cel.@mapInsert of a key and the value v, and of the entries of a map: a
\* key that is already there is an error.
InsertKey(m, key, v) ==
  Strict(m, v, IF IsMap(m) /\ key \notin m.map THEN Map(m.map \cup {key}) ELSE NoOverload)

InsertMap(m, e) ==
  Strict(m, e, IF IsMap(m) /\ IsMap(e) /\ m.map \cap e.map = {} THEN Map(m.map \cup e.map)
               ELSE NoOverload)

\* A list literal whose one element e comes to the value v, unless it is an
\* error or unknown. Variant: positions from zero.
SingletonFromZero(e, v) == IF IsError(e) \/ IsUnknown(e) THEN e ELSE List(<<v - 1>>)

Singleton(e, v) == IF IsError(e) \/ IsUnknown(e) THEN e ELSE List(<<v>>)
=============================================================================
