--------------------------- MODULE Comprehension ---------------------------
(***************************************************************************)
(* The comprehension fold of the evaluator, cel._ev_comp, over the nodes   *)
(* the macros of 030_parse.sql, 100_ext_comprehensions.sql and             *)
(* 160_ext_bindings.sql expand to. What the predicate and the transform of *)
(* a macro come to on each element is given: any mix of values, errors and *)
(* unknowns. A second iteration variable, and a map for a range, only      *)
(* change what an element is.                                              *)
(***************************************************************************)
EXTENDS Outcomes, FiniteSets

CONSTANTS
  Kinds,       \* the macros considered
  Predicates,  \* what a predicate can come to on an element
  Transforms,  \* what a transform can come to
  Entries,     \* what the transform of transformMapEntry can come to besides
  Strays,      \* what a range can come to other than a list
  MaxLen       \* bound: elements of a range

Quantifiers == {"all", "exists"}
Collectors == {"map", "filter", "map_filter"}
Transformers == {"transformMap", "transformMap_filter", "transformMapEntry", "transformMapEntry_filter"}

ASSUME KindAssumption ==
  Kinds \subseteq Quantifiers \cup Collectors \cup Transformers \cup {"exists_one", "bind"}

\* An unknown among the outcomes is a set of ids, an error names a node.
Plain == Bools \cup {Other} \cup [error : Nat \ {0}] \cup [unknown : SUBSET Nat]
Maps == [map : SUBSET Nat]

ASSUME OutcomeAssumption ==
  /\ Predicates \subseteq Plain /\ Transforms \subseteq Plain /\ Strays \subseteq Plain
  /\ Entries \subseteq Maps
  /\ Other \in Transforms /\ Bools \subseteq Predicates

VARIABLES
  kind,    \* the macro
  range,   \* what its range comes to: List(items), or something else
  init,    \* what the accumulator's initial node comes to
  pc,      \* "range", "init", "loop", "result" or "done"
  i,       \* the element the loop is at
  accu,    \* the accumulator
  answer   \* the outcome of the node, once done

vars == <<kind, range, init, pc, i, accu, answer>>

-----------------------------------------------------------------------------
(***************************************************************************)
(* The nodes cel._mx_fold and cel._mx2_transform_map assemble.             *)
(***************************************************************************)
InitOf(k) ==
  CASE k \in Quantifiers -> Bool(k = "all")
    [] k = "exists_one" -> Number(0)
    [] k \in Collectors -> List(<<>>)
    [] k \in Transformers -> Map({})

CondOf(k, a) ==
  CASE k = "all" -> NotStrictlyFalse(a)
    [] k = "exists" -> NotStrictlyFalse(Not(a))
    [] k \in Collectors \cup Transformers \cup {"exists_one"} -> Bool(TRUE)
    [] k = "bind" -> Bool(FALSE)

\* The key of an element is represented by its position.
InsertStep(k, a, item, n) ==
  CASE k = "transformMap" -> InsertKey(a, n, item.t)
    [] k = "transformMap_filter" -> Conditional(item.p, InsertKey(a, n, item.t), a)
    [] k = "transformMapEntry" -> InsertMap(a, item.t)
    [] k = "transformMapEntry_filter" -> Conditional(item.p, InsertMap(a, item.t), a)

\* So is the element itself.
StepOf(k, a, item, n) ==
  CASE k \in Quantifiers -> Logical(k = "exists", a, item.p)
    [] k = "exists_one" -> Conditional(item.p, Add(a, Number(1)), a)
    [] k = "map" -> Add(a, Singleton(item.t, n))
    [] k = "filter" -> Conditional(item.p, Add(a, List(<<n>>)), a)
    [] k = "map_filter" -> Conditional(item.p, Add(a, Singleton(item.t, n)), a)
    [] k \in Transformers -> InsertStep(k, a, item, n)
    [] k = "bind" -> a

ResultOf(k, a) == IF k = "exists_one" THEN Equals(a, Number(1)) ELSE a

\* What a macro does not have, a predicate or a transform, is fixed. A bind
\* runs over an empty list.
ItemsOf(k) ==
  [p : IF k \in {"map", "transformMap", "transformMapEntry"} THEN {Bool(TRUE)} ELSE Predicates,
   t : CASE k \in {"map", "map_filter", "transformMap", "transformMap_filter"} -> Transforms
         [] k \in {"transformMapEntry", "transformMapEntry_filter"} -> Transforms \cup Entries
         [] OTHER -> {Other}]

Ranges(k) ==
  IF k = "bind" THEN {List(<<>>)}
  ELSE {List(s) : s \in UNION {[1..n -> ItemsOf(k)] : n \in 0..MaxLen}} \cup Strays

-----------------------------------------------------------------------------
IsList(v) == "list" \in DOMAIN v

Init ==
  /\ kind \in Kinds
  /\ range \in Ranges(kind)
  /\ init \in IF kind = "bind" THEN Plain \cap (Predicates \cup Transforms) ELSE {InitOf(kind)}
  /\ pc = "range"
  /\ i = 1
  /\ accu = Other
  /\ answer = Other

Settles(v) == pc' = "done" /\ answer' = v

\* The range comes first: an error or an unknown there is the answer.
EvalRange ==
  /\ pc = "range"
  /\ IF IsError(range) \/ IsUnknown(range) THEN Settles(range)
     ELSE IF ~ IsList(range) THEN Settles(NoOverload)
     ELSE pc' = "init" /\ answer' = answer
  /\ UNCHANGED <<kind, range, init, i, accu>>

EvalInit ==
  /\ pc = "init"
  /\ IF IsError(init) \/ IsUnknown(init)
       THEN Settles(init) /\ accu' = accu
       ELSE pc' = "loop" /\ accu' = init /\ answer' = answer
  /\ UNCHANGED <<kind, range, init, i>>

\* Variant: an error or unknown condition stops the loop as well.
StopsOnError(a) == CondOf(kind, a) = Bool(FALSE) \/ IsError(a) \/ IsUnknown(a)

\* Only a genuine bool false stops the loop.
Stops(a) == CondOf(kind, a) = Bool(FALSE)
More == i <= Len(range.list)

Fold ==
  /\ pc = "loop" /\ More /\ ~ Stops(accu)
  /\ accu' = StepOf(kind, accu, range.list[i], i)
  /\ i' = i + 1
  /\ UNCHANGED <<kind, range, init, pc, answer>>

Leave ==
  /\ pc = "loop" /\ (More => Stops(accu))
  /\ pc' = "result"
  /\ UNCHANGED <<kind, range, init, i, accu, answer>>

EvalResult ==
  /\ pc = "result"
  /\ Settles(ResultOf(kind, accu))
  /\ UNCHANGED <<kind, range, init, i, accu>>

Next == EvalRange \/ EvalInit \/ Fold \/ Leave \/ EvalResult

Spec == Init /\ [][Next]_vars

-----------------------------------------------------------------------------
(***************************************************************************)
(* What the answer should be, without an order of evaluation where there   *)
(* is none, for the elements s.                                            *)
(***************************************************************************)
Missing(vs) == UNION {v.unknown : v \in {u \in vs : IsUnknown(u)}}

\* What a predicate outcome that is no bool turns the fold into.
Interrupt(v) == IF IsError(v) \/ IsUnknown(v) THEN v ELSE NoOverload

Least(S) == CHOOSE n \in S : \A m \in S : n <= m
Greatest(S) == CHOOSE n \in S : \A m \in S : m <= n

\* all and exists: the absorbing value anywhere; else everything that is
\* missing; else the first error; else the identity.
Quantified(absorbing, s) ==
  LET ps == {s[n].p : n \in DOMAIN s}
      odd == {n \in DOMAIN s : ~ IsBool(s[n].p)}
  IN IF Bool(absorbing) \in ps THEN Bool(absorbing)
     ELSE IF \E v \in ps : IsUnknown(v) THEN Unknown(Missing(ps))
     ELSE IF odd # {} THEN Interrupt(s[Least(odd)].p)
     ELSE Bool(~ absorbing)

\* The other macros: the last predicate that is no bool replaces what came
\* before it, and what is taken after it counts.
LastOdd(s) == Greatest({0} \cup {n \in DOMAIN s : ~ IsBool(s[n].p)})
Taken(s) == {n \in DOMAIN s : n > LastOdd(s) /\ s[n].p = Bool(TRUE)}

\* The keys that element n brings into a map.
KeysOf(k, s, n) ==
  IF k \in {"transformMap", "transformMap_filter"} THEN {n}
  ELSE IF IsMap(s[n].t) THEN s[n].t.map ELSE {}

\* Element n cannot be inserted, provided nothing is missing before it.
Clashes(k, s, n) ==
  /\ k \in Transformers
  /\ \A m \in Taken(s) : m <= n => ~ IsUnknown(s[m].t)
  /\ LastOdd(s) > 0 => ~ IsUnknown(s[LastOdd(s)].p)
  /\ \/ KeysOf(k, s, n) = {} /\ ~ IsMap(s[n].t)
     \/ \E m \in Taken(s) : m < n /\ KeysOf(k, s, m) \cap KeysOf(k, s, n) # {}

\* The first error among what counts, then everything that is missing, then
\* what was collected.
Collected(k, s) ==
  LET base == IF LastOdd(s) = 0 THEN InitOf(k) ELSE Interrupt(s[LastOdd(s)].p)
      failed == {n \in Taken(s) : IsError(s[n].t) \/ Clashes(k, s, n)}
      parts == {base} \cup {s[n].t : n \in Taken(s)}
  IN IF IsError(base) THEN base
     ELSE IF failed # {} THEN Interrupt(s[Least(failed)].t)
     ELSE IF \E v \in parts : IsUnknown(v) THEN Unknown(Missing(parts))
     ELSE CASE k = "exists_one" -> Bool(Cardinality(Taken(s)) = 1)
            [] k \in Transformers -> Map(UNION {KeysOf(k, s, n) : n \in Taken(s)})
            [] k \in Collectors ->
                 List([m \in 1..Cardinality(Taken(s)) |->
                         CHOOSE n \in Taken(s) : Cardinality({x \in Taken(s) : x <= n}) = m])

Answer(k, s) == IF k \in Quantifiers THEN Quantified(k = "exists", s) ELSE Collected(k, s)

-----------------------------------------------------------------------------
(***************************************************************************)
(* Properties.                                                             *)
(***************************************************************************)
Iterated == pc = "done" /\ IsList(range) /\ kind # "bind"

Outcome ==
  Plain \cup Maps \cup {NoOverload} \cup [int : Nat] \cup [list : Seq(Nat \ {0})]

Item == [p : Plain, t : Plain \cup Maps]

TypeOK ==
  /\ kind \in Kinds
  /\ range \in Strays \cup [list : Seq(Item)]
  /\ init \in Outcome
  /\ pc \in {"range", "init", "loop", "result", "done"}
  /\ i \in Nat \ {0}
  /\ pc \in {"range", "init"} => i = 1
  /\ pc \in {"init", "loop", "result"} => IsList(range) /\ i <= Len(range.list) + 1
  /\ accu \in Outcome
  /\ answer \in Outcome

\* The fold comes to the declared answer, whatever mix of values, errors and
\* unknowns the elements come to.
AnswerDeclared == Iterated => answer = Answer(kind, range.list)

\* The loop looks at no element beyond the one that decides a quantifier,
\* and stops for nothing else (the comment on cel._ev_comp: "only a genuine
\* bool false stops iteration").
StopsWhenDecided ==
  Iterated =>
    LET decides == {n \in DOMAIN range.list :
                      kind \in Quantifiers /\ range.list[n].p = Bool(kind = "exists")}
    IN i - 1 = IF decides = {} THEN Len(range.list) ELSE Least(decides)

\* Two outcomes say the same: errors may come from different nodes.
SameAnswer(a, b) == a = b \/ (IsError(a) /\ IsError(b))

\* What item y may turn out to come to: x has more of it known.
Completes(x, y) == (IsUnknown(y.p) \/ x.p = y.p) /\ (IsUnknown(y.t) \/ x.t = y.t)

\* The answers when one more element is known, whatever it comes to.
Futures(k, s) ==
  UNION {{Answer(k, [s EXCEPT ![n] = x]) : x \in {y \in ItemsOf(k) : Completes(y, s[n])}} :
           n \in DOMAIN s}

\* Partial evaluation is sound: an answer given while inputs are missing
\* stays the answer as one after the other becomes known; and a quantifier
\* answers unknown only while what is missing could settle it.
SoundWhenPartial ==
  Iterated =>
    /\ ~ IsUnknown(answer) => \A f \in Futures(kind, range.list) : SameAnswer(answer, f)
    /\ IsUnknown(answer) /\ kind \in Quantifiers =>
         \E f \in Futures(kind, range.list) : IsBool(f)
=============================================================================
