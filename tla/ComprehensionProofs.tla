------------------------ MODULE ComprehensionProofs ------------------------
(***************************************************************************)
(* Proofs about the comprehension fold, for ranges of any length and any   *)
(* outcomes of their elements: the types, that every macro comes to its    *)
(* declared answer and stops exactly when it is decided, and that an       *)
(* answer given while inputs are missing is sound.                         *)
(***************************************************************************)
EXTENDS Comprehension, FiniteSetTheorems, TLAPS

-----------------------------------------------------------------------------
\* A nonempty set of natural numbers has a least element.
LEMMA LeastOf ==
  ASSUME NEW T, T \subseteq Nat, T # {}
  PROVE  \E x \in T : \A y \in T : x <= y
<1>1. \A x, y \in Nat : <<y, x>> \in OpToRel(<, Nat) <=> y < x
  BY DEF OpToRel
<1>2. \E R : /\ IsWellFoundedOn(R, Nat)
             /\ \A x, y \in Nat : <<y, x>> \in R <=> y < x
  BY <1>1, NatLessThanWellFounded
<1>3. PICK R : /\ IsWellFoundedOn(R, Nat)
               /\ \A x, y \in Nat : <<y, x>> \in R <=> y < x
  BY <1>2
<1>4. \E x \in T : \A y \in T : ~ (<<y, x>> \in R)
  BY <1>3, WFMin
<1>5. PICK x \in T : \A y \in T : ~ (<<y, x>> \in R)
  BY <1>4
<1>6. ASSUME NEW y \in T PROVE x <= y
  <2>1. x \in Nat /\ y \in Nat /\ <<y, x>> \notin R
    BY <1>5
  <2>2. ~ (y < x)
    BY <1>3, <2>1
  <2>3. QED BY <2>1, <2>2
<1>7. QED BY <1>6

\* A nonempty set of numbers up to n has a greatest element.
LEMMA GreatestOf ==
  ASSUME NEW n \in Nat, NEW S, S \subseteq 0..n, S # {}
  PROVE  \E x \in S : \A y \in S : y <= x
<1> DEFINE T == {j \in 0..n : n - j \in S}
<1>1. T \subseteq Nat
  OBVIOUS
<1>2. T # {}
  <2>1. PICK s \in S : TRUE
    OBVIOUS
  <2>2. n - s \in 0..n /\ n - (n - s) = s
    BY <2>1
  <2>3. QED BY <2>2
<1>3. PICK x \in T : \A y \in T : x <= y
  <2> HIDE DEF T
  <2> QED BY <1>1, <1>2, LeastOf
<1>4. n - x \in S
  OBVIOUS
<1>5. ASSUME NEW y \in S PROVE y <= n - x
  <2>1. n - y \in 0..n /\ n - (n - y) = y
    OBVIOUS
  <2>2. n - y \in T
    BY <2>1
  <2>3. QED BY <1>3, <2>1, <2>2
<1>6. QED BY <1>4, <1>5

-----------------------------------------------------------------------------
\* An outcome is of one kind only, and is determined by what it carries.
LEMMA PlainKinds ==
  ASSUME NEW v \in Plain
  PROVE  /\ IsBool(v) => ~ IsError(v) /\ ~ IsUnknown(v)
         /\ IsError(v) => ~ IsUnknown(v) /\ v \in [error : Nat \ {0}] /\ v.error \in Nat
         /\ IsUnknown(v) => v \in [unknown : SUBSET Nat] /\ v = Unknown(v.unknown)
         /\ ~ IsBool(v) /\ ~ IsError(v) /\ ~ IsUnknown(v) => v = Other
<1>1. v \in Bools => DOMAIN v = {"bool"}
  <2>1. DOMAIN Bool(TRUE) = {"bool"} /\ DOMAIN Bool(FALSE) = {"bool"}
    BY DEF Bool
  <2> QED
    BY <2>1 DEF Bools
<1>2. v = Other => DOMAIN v = {"other"}
  BY DEF Other
<1>3. v \in [error : Nat \ {0}] => DOMAIN v = {"error"} /\ v.error \in Nat
  OBVIOUS
<1>4. v \in [unknown : SUBSET Nat] => DOMAIN v = {"unknown"} /\ v = Unknown(v.unknown)
  BY DEF Unknown
<1>5. \/ v \in Bools \/ v = Other
      \/ v \in [error : Nat \ {0}] \/ v \in [unknown : SUBSET Nat]
  BY DEF Plain
<1>6. "bool" # "error" /\ "bool" # "unknown" /\ "other" # "error" /\ "other" # "unknown"
      /\ "error" # "unknown"
  OBVIOUS
<1> QED
  BY <1>1, <1>2, <1>3, <1>4, <1>5, <1>6 DEF IsBool, IsError, IsUnknown

LEMMA PlainValues ==
  /\ \A b \in BOOLEAN : Bool(b) \in Plain /\ IsBool(Bool(b))
  /\ Bool(TRUE) # Bool(FALSE)
  /\ NoOverload \in Outcome /\ IsError(NoOverload) /\ ~ IsUnknown(NoOverload)
  /\ ~ IsBool(NoOverload)
  /\ \A ids \in SUBSET Nat : Unknown(ids) \in Plain /\ IsUnknown(Unknown(ids))
                             /\ Unknown(ids).unknown = ids
  BY DEF Plain, Bools, Bool, IsBool, NoOverload, Error, Outcome, IsError, IsUnknown, Unknown

\* What each call of the evaluator returns.
LEMMA LogicalType ==
  ASSUME NEW b \in BOOLEAN, NEW l \in Plain \cup {NoOverload}, NEW r \in Plain
  PROVE  Logical(b, l, r) \in Plain \cup {NoOverload}
<1>1. IsUnknown(l) /\ IsUnknown(r) => Merge(l, r) \in Plain
  <2>1. SUFFICES ASSUME IsUnknown(l), IsUnknown(r) PROVE Merge(l, r) \in Plain
    OBVIOUS
  <2>2. l \in [unknown : SUBSET Nat] /\ r \in [unknown : SUBSET Nat]
    BY <2>1, PlainKinds, PlainValues
  <2> QED
    BY <2>2, PlainValues DEF Merge
<1> QED
  BY <1>1, PlainValues DEF Logical

\* An outcome that is unknown, or a map, is one whatever else it could be.
LEMMA OutcomeKinds ==
  ASSUME NEW v \in Outcome
  PROVE  /\ IsUnknown(v) => v \in [unknown : SUBSET Nat]
         /\ IsMap(v) => v \in Maps
<1>1. \A w \in Maps \cup [int : Nat] \cup [list : Seq(Nat \ {0})] : ~ IsUnknown(w)
  BY DEF IsUnknown, Maps
<1>2. \A w \in [int : Nat] \cup [list : Seq(Nat \ {0})] \cup {NoOverload} : ~ IsMap(w)
  BY DEF IsMap, NoOverload, Error
<1>3. \A w \in Plain : ~ IsMap(w)
  BY DEF IsMap, Plain, Bools, Bool, Other
<1> QED
  BY <1>1, <1>2, <1>3, PlainKinds, PlainValues DEF Outcome

LEMMA MergeType ==
  ASSUME NEW l \in Outcome, NEW r \in Outcome, IsUnknown(l), IsUnknown(r)
  PROVE  Merge(l, r) \in Outcome
<1>1. l \in [unknown : SUBSET Nat] /\ r \in [unknown : SUBSET Nat]
  BY OutcomeKinds
<1> QED
  BY <1>1, PlainValues DEF Merge, Outcome

LEMMA AddType ==
  ASSUME NEW l \in Outcome, NEW r \in Outcome
  PROVE  Add(l, r) \in Outcome
<1>1. IsUnknown(l) /\ IsUnknown(r) => Merge(l, r) \in Outcome
  BY MergeType
<1>2. "int" \in DOMAIN l /\ "int" \in DOMAIN r => Number(l.int + r.int) \in Outcome
  <2>1. \A v \in Outcome : "int" \in DOMAIN v => v \in [int : Nat]
    BY DEF Outcome, Plain, Maps, Bools, Bool, Other, NoOverload, Error
  <2> QED
    BY <2>1 DEF Number, Outcome
<1>3. "list" \in DOMAIN l /\ "list" \in DOMAIN r => List(l.list \o r.list) \in Outcome
  <2>1. \A v \in Outcome : "list" \in DOMAIN v => v \in [list : Seq(Nat \ {0})]
    BY DEF Outcome, Plain, Maps, Bools, Bool, Other, NoOverload, Error
  <2> QED
    BY <2>1 DEF List, Outcome
<1> QED
  BY <1>1, <1>2, <1>3, PlainValues DEF Add, Strict

LEMMA SingletonType ==
  ASSUME NEW e \in Outcome, NEW n \in Nat \ {0}
  PROVE  Singleton(e, n) \in Outcome
  BY DEF Singleton, List, Outcome

LEMMA InsertKeyType ==
  ASSUME NEW m \in Outcome, NEW v \in Outcome, NEW key \in Nat
  PROVE  InsertKey(m, key, v) \in Outcome
<1>1. IsUnknown(m) /\ IsUnknown(v) => Merge(m, v) \in Outcome
  BY MergeType
<1>2. IsMap(m) => Map(m.map \cup {key}) \in Outcome
  BY OutcomeKinds DEF Maps, Map, Outcome
<1> QED
  BY <1>1, <1>2, PlainValues DEF InsertKey, Strict

LEMMA InsertMapType ==
  ASSUME NEW m \in Outcome, NEW e \in Outcome
  PROVE  InsertMap(m, e) \in Outcome
<1>1. IsUnknown(m) /\ IsUnknown(e) => Merge(m, e) \in Outcome
  BY MergeType
<1>2. IsMap(m) /\ IsMap(e) => Map(m.map \cup e.map) \in Outcome
  BY OutcomeKinds DEF Maps, Map, Outcome
<1> QED
  BY <1>1, <1>2, PlainValues DEF InsertMap, Strict

LEMMA ConditionalType ==
  ASSUME NEW c \in Plain, NEW x \in Outcome, NEW y \in Outcome
  PROVE  Conditional(c, x, y) \in Outcome
  BY PlainValues DEF Conditional, Outcome

LEMMA EqualsType ==
  ASSUME NEW a \in Outcome
  PROVE  Equals(a, Number(1)) \in Outcome
<1>1. ~ IsError(Number(1)) /\ ~ IsUnknown(Number(1))
  BY DEF Number, IsError, IsUnknown
<1>2. Bool(a = Number(1)) \in Outcome
  BY PlainValues DEF Outcome
<1> QED
  BY <1>1, <1>2 DEF Equals, Strict

\* A range that is a list is a list of items.
LEMMA ListRange ==
  ASSUME TypeOK, IsList(range)
  PROVE  range.list \in Seq(Item)
<1>1. \A v \in Plain : ~ IsList(v)
  BY DEF Plain, Bools, Bool, Other, IsList
<1>2. range \in [list : Seq(Item)]
  BY <1>1, OutcomeAssumption DEF TypeOK
<1> QED
  BY <1>2

LEMMA ItemFields == \A x \in Item : x.p \in Plain /\ x.t \in Outcome
  BY DEF Item, Outcome

LEMMA QuantifierAccu ==
  ASSUME NEW k \in Quantifiers, NEW a, NEW item, NEW n
  PROVE  StepOf(k, a, item, n) = Logical(k = "exists", a, item.p)
  BY DEF StepOf, Quantifiers, Transformers

\* The quantifiers accumulate an outcome of a predicate, the others a count,
\* a list or what interrupted them.
AccuType ==
  kind \in Quantifiers =>
    /\ init = InitOf(kind)
    /\ pc \in {"loop", "result"} => accu \in Plain \cup {NoOverload}

TypeInv == TypeOK /\ AccuType

LEMMA InitType == Init => TypeInv
<1> SUFFICES ASSUME Init PROVE TypeInv
  OBVIOUS
<1>1. Other \in Outcome
  BY DEF Outcome, Plain
<1>2. ItemsOf(kind) \subseteq Item
  BY OutcomeAssumption, PlainValues DEF ItemsOf, Item, Plain
<1>3. range \in Strays \cup [list : Seq(Item)]
  <2>1. CASE kind = "bind"
    <3>1. range = List(<<>>)
      BY <2>1 DEF Init, Ranges
    <3>2. <<>> \in Seq(Item)
      OBVIOUS
    <3> QED
      BY <3>1, <3>2 DEF List
  <2>2. CASE kind # "bind" /\ range \notin Strays
    <3>1. PICK n \in 0..MaxLen : \E s \in [1..n -> ItemsOf(kind)] : range = List(s)
      BY <2>2 DEF Init, Ranges
    <3>2. PICK s \in [1..n -> ItemsOf(kind)] : range = List(s)
      BY <3>1
    <3>3. n \in Nat
      BY <3>1
    <3>4. s \in Seq(Item)
      BY <1>2, <3>2, <3>3
    <3> QED
      BY <3>2, <3>4 DEF List
  <2> QED
    BY <2>1, <2>2
<1>4. init \in Outcome
  <2>1. CASE kind = "bind"
    BY <2>1 DEF Init, Outcome
  <2>2. CASE kind # "bind"
    <3>1. kind \in Quantifiers \cup Collectors \cup Transformers \cup {"exists_one"}
      BY <2>2, KindAssumption DEF Init
    <3>2. init = InitOf(kind)
      BY <2>2 DEF Init
    <3>3. Bool(kind = "all") \in Outcome
      BY PlainValues DEF Outcome
    <3>4. Number(0) \in Outcome
      BY DEF Outcome, Number
    <3>5. List(<<>>) \in Outcome
      <4>1. <<>> \in Seq(Nat \ {0})
        OBVIOUS
      <4> QED
        BY <4>1 DEF Outcome, List
    <3>6. Map({}) \in Outcome
      BY DEF Outcome, Maps, Map
    <3> QED
      BY <3>1, <3>2, <3>3, <3>4, <3>5, <3>6 DEF InitOf, Quantifiers, Collectors, Transformers
  <2> QED
    BY <2>1, <2>2
<1>5. AccuType
  BY DEF Init, AccuType, Quantifiers
<1> QED
  BY <1>1, <1>3, <1>4, <1>5 DEF Init, TypeInv, TypeOK

LEMMA FoldType ==
  ASSUME TypeInv, Fold
  PROVE  TypeInv'
<1>1. TypeOK /\ pc = "loop" /\ IsList(range) /\ i <= Len(range.list)
  BY DEF TypeInv, TypeOK, Fold, More
<1>2. range.list \in Seq(Item)
  BY <1>1, ListRange
<1>3. i \in 1..Len(range.list)
  BY <1>1, <1>2 DEF TypeOK
<1> DEFINE item == range.list[i]
<1>4. item.p \in Plain /\ item.t \in Outcome
  BY <1>2, <1>3, ItemFields
<1>5. accu \in Outcome /\ i \in Nat \ {0} /\ kind \in Kinds
  BY <1>1 DEF TypeOK
<1>6. Number(1) \in Outcome /\ List(<<i>>) \in Outcome
  BY <1>5 DEF Number, List, Outcome
<1>7. accu' = StepOf(kind, accu, item, i)
  BY DEF Fold
<1>8. accu' \in Outcome /\ (kind \in Quantifiers => accu' \in Plain \cup {NoOverload})
  <2>1. CASE kind \in Quantifiers
    <3>1. accu \in Plain \cup {NoOverload}
      BY <2>1, <1>1 DEF TypeInv, AccuType
    <3>2. Logical(kind = "exists", accu, item.p) \in Plain \cup {NoOverload}
      BY <3>1, <1>4, LogicalType
    <3> QED
      BY <1>7, <2>1, <3>2, QuantifierAccu DEF Outcome
  <2>2. CASE kind = "exists_one"
    <3>1. Conditional(item.p, Add(accu, Number(1)), accu) \in Outcome
      BY <1>4, <1>5, <1>6, AddType, ConditionalType
    <3> QED
      BY <1>7, <2>2, <3>1 DEF StepOf, Quantifiers, Transformers
  <2>3. CASE kind = "map"
    <3>1. Add(accu, Singleton(item.t, i)) \in Outcome
      BY <1>4, <1>5, AddType, SingletonType
    <3> QED
      BY <1>7, <2>3, <3>1 DEF StepOf, Quantifiers, Transformers
  <2>4. CASE kind = "filter"
    <3>1. Conditional(item.p, Add(accu, List(<<i>>)), accu) \in Outcome
      BY <1>4, <1>5, <1>6, AddType, ConditionalType
    <3> QED
      BY <1>7, <2>4, <3>1 DEF StepOf, Quantifiers, Transformers
  <2>5. CASE kind = "map_filter"
    <3>1. Conditional(item.p, Add(accu, Singleton(item.t, i)), accu) \in Outcome
      BY <1>4, <1>5, AddType, SingletonType, ConditionalType
    <3> QED
      BY <1>7, <2>5, <3>1 DEF StepOf, Quantifiers, Transformers
  <2>6. CASE kind = "bind"
    BY <1>5, <1>7, <2>6 DEF StepOf, Quantifiers, Transformers
  <2>7. CASE kind \in Transformers
    <3>1. InsertKey(accu, i, item.t) \in Outcome /\ InsertMap(accu, item.t) \in Outcome
      BY <1>4, <1>5, InsertKeyType, InsertMapType
    <3>2. /\ Conditional(item.p, InsertKey(accu, i, item.t), accu) \in Outcome
          /\ Conditional(item.p, InsertMap(accu, item.t), accu) \in Outcome
      BY <1>4, <1>5, <3>1, ConditionalType
    <3> QED
      BY <1>7, <2>7, <3>1, <3>2 DEF StepOf, InsertStep, Quantifiers, Transformers
  <2> QED
    BY <1>5, KindAssumption, <2>1, <2>2, <2>3, <2>4, <2>5, <2>6, <2>7 DEF Collectors, Transformers
<1>9. i' = i + 1 /\ UNCHANGED <<kind, range, init, pc, answer>>
  BY DEF Fold
<1>10. i' \in Nat \ {0} /\ i' <= Len(range.list) + 1
  BY <1>1, <1>2, <1>3, <1>9
<1>11. IsList(range)'
  BY <1>1, <1>9 DEF IsList
<1> QED
  BY <1>1, <1>8, <1>9, <1>10, <1>11 DEF TypeInv, TypeOK, AccuType, Item

LEMMA TypeStep ==
  ASSUME TypeInv, [Next]_vars
  PROVE  TypeInv'
<1>1. CASE EvalRange
  <2>1. range \in Plain => range \in Outcome
    BY DEF Outcome
  <2>2. IsError(range) \/ IsUnknown(range) => range \in Outcome
    <3>1. \A v \in [list : Seq(Item)] : ~ IsError(v) /\ ~ IsUnknown(v)
      BY DEF IsError, IsUnknown
    <3> QED
      BY <2>1, <3>1, OutcomeAssumption DEF TypeInv, TypeOK
  <2>3. IsList(range)' = IsList(range)
    BY <1>1 DEF EvalRange, IsList
  <2>4. IsList(range) => 1 <= Len(range.list) + 1
    BY ListRange DEF TypeInv
  <2> QED
    BY <1>1, <2>2, <2>3, <2>4, PlainValues
    DEF EvalRange, Settles, TypeInv, TypeOK, AccuType, Item
<1>2. CASE EvalInit
  <2>1. IsList(range)' = IsList(range)
    BY <1>2 DEF EvalInit, IsList
  <2>2. kind \in Quantifiers => init \in Plain \cup {NoOverload}
    BY PlainValues DEF TypeInv, AccuType, InitOf, Quantifiers, Collectors, Transformers
  <2> QED
    BY <1>2, <2>1, <2>2 DEF EvalInit, Settles, TypeInv, TypeOK, AccuType, Item
<1>3. CASE Fold
  BY <1>3, FoldType
<1>4. CASE Leave
  BY <1>4 DEF Leave, TypeInv, TypeOK, AccuType, Item, IsList
<1>5. CASE EvalResult
  <2>1. ResultOf(kind, accu) \in Outcome
    BY EqualsType DEF ResultOf, TypeInv, TypeOK
  <2> QED
    BY <1>5, <2>1 DEF EvalResult, Settles, TypeInv, TypeOK, AccuType, Item, IsList
<1>6. CASE UNCHANGED vars
  BY <1>6 DEF vars, TypeInv, TypeOK, AccuType, Item, IsList
<1> QED
  BY <1>1, <1>2, <1>3, <1>4, <1>5, <1>6 DEF Next

\* Every variable keeps its type, for ranges of any length and any outcomes
\* of their elements (cel._ev_comp).
THEOREM TypeCorrect == Spec => []TypeOK
<1>1. TypeInv /\ [Next]_vars => TypeInv'
  BY TypeStep
<1>2. TypeInv => TypeOK
  BY DEF TypeInv
<1> QED
  BY <1>1, <1>2, InitType, PTL DEF Spec

-----------------------------------------------------------------------------
\* The accumulator a of a quantifier that absorbs b, after n of the elements
\* s: decided by the nth, or a summary of what they came to.
Came(s, n) == {s[m].p : m \in 1..n}

FirstOdd(s, n, f) ==
  f \in 1..n /\ ~ IsBool(s[f].p) /\ \A m \in 1..n : ~ IsBool(s[m].p) => f <= m

Undecided(b, s, n) == \A m \in 1..n : s[m].p # Bool(b)

Decided(b, s, n) == n >= 1 /\ s[n].p = Bool(b) /\ \A m \in 1..n : s[m].p = Bool(b) => n <= m

Summary(b, s, n, a) ==
  IF \E m \in 1..n : IsUnknown(s[m].p) THEN a = Unknown(Missing(Came(s, n)))
  ELSE IF \A m \in 1..n : IsBool(s[m].p) THEN a = Bool(~ b)
  ELSE \E f \in 1..n : FirstOdd(s, n, f) /\ a = Interrupt(s[f].p)

Accumulated(b, s, n, a) ==
  IF a = Bool(b) THEN Decided(b, s, n) ELSE Undecided(b, s, n) /\ Summary(b, s, n, a)

\* The inductive invariant of a quantifier.
QuantifierInv ==
  /\ TypeInv
  /\ kind \in Quantifiers
  /\ pc \in {"loop", "result"} => Accumulated(kind = "exists", range.list, i - 1, accu)
  /\ pc = "result" => accu = Bool(kind = "exists") \/ i = Len(range.list) + 1
  /\ AnswerDeclared /\ StopsWhenDecided

\* Only the absorbing value makes the loop condition false.
LEMMA StopsAbsorbed ==
  ASSUME NEW a \in Plain \cup {NoOverload}, kind \in Quantifiers
  PROVE  Stops(a) <=> a = Bool(kind = "exists")
<1>1. IsBool(a) <=> a = Bool(TRUE) \/ a = Bool(FALSE)
  BY DEF IsBool, Bools
<1>2. IsError(a) \/ IsUnknown(a) => ~ IsBool(a)
  BY PlainKinds, PlainValues
<1>3. CASE kind = "all"
  <2>1. CondOf(kind, a) = NotStrictlyFalse(a)
    BY <1>3 DEF CondOf, Collectors, Transformers
  <2> QED
    BY <1>1, <1>3, <2>1, PlainValues DEF Stops, NotStrictlyFalse
<1>4. CASE kind = "exists"
  <2>1. CondOf(kind, a) = NotStrictlyFalse(Not(a))
    BY <1>4 DEF CondOf, Collectors, Transformers
  <2>2. a = Bool(TRUE) => Not(a) = Bool(FALSE)
    BY <1>1, <1>2, PlainValues DEF Not
  <2>3. a = Bool(FALSE) => Not(a) = Bool(TRUE)
    BY <1>1, <1>2, PlainValues DEF Not
  <2>4. ~ IsBool(a) => ~ IsBool(Not(a))
    BY PlainValues DEF Not
  <2> QED
    BY <1>1, <1>4, <2>1, <2>2, <2>3, <2>4, PlainValues DEF Stops, NotStrictlyFalse
<1> QED
  BY <1>3, <1>4 DEF Quantifiers

LEMMA MissingMore ==
  ASSUME NEW vs, NEW v
  PROVE  Missing(vs \cup {v}) = Missing(vs) \cup (IF IsUnknown(v) THEN v.unknown ELSE {})
  BY DEF Missing

LEMMA MissingNone ==
  ASSUME NEW vs, \A v \in vs : ~ IsUnknown(v)
  PROVE  Missing(vs) = {}
  BY DEF Missing

\* One more element: the summary of n elements and the next one's outcome
\* make the summary of n + 1.
LEMMA OneMore ==
  ASSUME NEW s \in Seq(Item), NEW n \in Nat, n + 1 <= Len(s), NEW b \in BOOLEAN,
         NEW a \in Plain \cup {NoOverload},
         a # Bool(b), Undecided(b, s, n), Summary(b, s, n, a)
  PROVE  Accumulated(b, s, n + 1, Logical(b, a, s[n + 1].p))
<1> DEFINE p == s[n + 1].p
           r == Logical(b, a, p)
<1>1. \A m \in 1..(n + 1) : s[m].p \in Plain
  <2>1. \A m \in 1..(n + 1) : m \in 1..Len(s)
    OBVIOUS
  <2> QED
    BY <2>1, ItemFields
<1>2. p \in Plain
  BY <1>1
<1>3. Came(s, n + 1) = Came(s, n) \cup {p}
  <2>1. 1..(n + 1) = 1..n \cup {n + 1}
    OBVIOUS
  <2> QED
    BY <2>1 DEF Came
<1>4. Missing(Came(s, n + 1)) = Missing(Came(s, n)) \cup (IF IsUnknown(p) THEN p.unknown ELSE {})
  BY <1>3, MissingMore
<1>5. \A m \in 1..(n + 1) : m \in 1..n \/ m = n + 1
  OBVIOUS
<1>6. n + 1 \in 1..(n + 1) /\ \A m \in 1..n : m \in 1..(n + 1) /\ m <= n + 1
  OBVIOUS
<1>7. Missing(Came(s, n)) \in SUBSET Nat
  <2>1. \A m \in 1..n : IsUnknown(s[m].p) => s[m].p.unknown \in SUBSET Nat
    <3>1. SUFFICES ASSUME NEW m \in 1..n, IsUnknown(s[m].p) PROVE s[m].p.unknown \in SUBSET Nat
      OBVIOUS
    <3>2. s[m].p \in [unknown : SUBSET Nat]
      BY <1>1, <1>6, <3>1, PlainKinds
    <3> QED
      BY <3>2
  <2> QED
    BY <2>1 DEF Missing, Came
<1>8. IsBool(a) <=> a = Bool(TRUE) \/ a = Bool(FALSE)
  BY DEF IsBool, Bools
<1>9. IsBool(p) <=> p = Bool(TRUE) \/ p = Bool(FALSE)
  BY DEF IsBool, Bools
<1>10. CASE p = Bool(b)
  <2>1. r = Bool(b)
    BY <1>10 DEF Logical
  <2>2. Decided(b, s, n + 1)
    BY <1>5, <1>6, <1>10 DEF Decided, Undecided
  <2> QED
    BY <2>1, <2>2 DEF Accumulated
<1>11. CASE p # Bool(b)
  <2>1. Undecided(b, s, n + 1)
    BY <1>5, <1>11 DEF Undecided
  <2>2. r # Bool(b) /\ Summary(b, s, n + 1, r)
    <3>1. CASE \E m \in 1..n : IsUnknown(s[m].p)
      <4>1. a = Unknown(Missing(Came(s, n)))
        BY <3>1 DEF Summary
      <4>2. IsUnknown(a) /\ a.unknown = Missing(Came(s, n)) /\ ~ IsBool(a)
        BY <1>7, <4>1, PlainValues, PlainKinds
      <4>3. r = Unknown(Missing(Came(s, n + 1)))
        <5>1. CASE IsUnknown(p)
          <6>1. r = Merge(a, p)
            BY <1>11, <4>2, <5>1 DEF Logical
          <6> QED
            BY <1>4, <4>2, <5>1, <6>1 DEF Merge
        <5>2. CASE ~ IsUnknown(p)
          <6>1. r = a
            BY <1>11, <4>2, <5>2 DEF Logical
          <6> QED
            BY <1>4, <4>1, <5>2, <6>1
        <5> QED
          BY <5>1, <5>2
      <4>4. \E m \in 1..(n + 1) : IsUnknown(s[m].p)
        BY <1>6, <3>1
      <4>5. r # Bool(b)
        <5>1. Missing(Came(s, n + 1)) \in SUBSET Nat
          BY <1>2, <1>4, <1>7, PlainKinds
        <5>2. IsUnknown(r)
          BY <4>3, <5>1, PlainValues
        <5> QED
          BY <5>2, PlainKinds, PlainValues
      <4> QED
        BY <4>3, <4>4, <4>5 DEF Summary
    <3>2. CASE IsUnknown(p) /\ ~ \E m \in 1..n : IsUnknown(s[m].p)
      <4>1. ~ IsUnknown(a) /\ (IsBool(a) \/ IsError(a))
        <5>1. CASE \A m \in 1..n : IsBool(s[m].p)
          BY <3>2, <5>1, PlainKinds, PlainValues DEF Summary
        <5>2. CASE ~ \A m \in 1..n : IsBool(s[m].p)
          <6>1. PICK f \in 1..n : FirstOdd(s, n, f) /\ a = Interrupt(s[f].p)
            BY <3>2, <5>2 DEF Summary
          <6> QED
            BY <3>2, <6>1, PlainValues DEF Interrupt
        <5> QED
          BY <5>1, <5>2
      <4>2. r = p
        <5>1. ~ IsBool(p)
          BY <1>2, <3>2, PlainKinds
        <5> QED
          BY <1>11, <3>2, <4>1, <5>1 DEF Logical
      <4>3. Missing(Came(s, n)) = {}
        BY <3>2, MissingNone DEF Came
      <4>4. r = Unknown(Missing(Came(s, n + 1)))
        BY <1>2, <1>4, <3>2, <4>2, <4>3, PlainKinds
      <4> QED
        BY <1>6, <1>11, <3>2, <4>2, <4>4 DEF Summary
    <3>3. CASE ~ \E m \in 1..(n + 1) : IsUnknown(s[m].p)
      <4>1. ~ IsUnknown(p) /\ ~ \E m \in 1..n : IsUnknown(s[m].p)
        BY <1>6, <3>3
      <4>2. CASE \A m \in 1..n : IsBool(s[m].p)
        <5>1. a = Bool(~ b) /\ IsBool(a) /\ ~ IsUnknown(a) /\ ~ IsError(a)
          BY <4>1, <4>2, PlainKinds, PlainValues DEF Summary
        <5>2. CASE IsBool(p)
          <6>1. r = a
            BY <1>11, <5>1, <5>2 DEF Logical
          <6>2. \A m \in 1..(n + 1) : IsBool(s[m].p)
            BY <1>5, <4>2, <5>2
          <6> QED
            BY <3>3, <5>1, <6>1, <6>2 DEF Summary
        <5>3. CASE ~ IsBool(p)
          <6>1. r = Interrupt(p)
            BY <1>2, <1>11, <4>1, <5>1, <5>3 DEF Logical, Interrupt
          <6>2. FirstOdd(s, n + 1, n + 1)
            BY <1>5, <1>6, <4>2, <5>3 DEF FirstOdd
          <6>3. r # Bool(b)
            BY <5>3, <6>1, PlainValues DEF Interrupt
          <6> QED
            BY <1>6, <3>3, <5>3, <6>1, <6>2, <6>3 DEF Summary
        <5> QED
          BY <5>2, <5>3
      <4>3. CASE ~ \A m \in 1..n : IsBool(s[m].p)
        <5>1. PICK f \in 1..n : FirstOdd(s, n, f) /\ a = Interrupt(s[f].p)
          BY <4>1, <4>3 DEF Summary
        <5>2. IsError(a) /\ ~ IsUnknown(a) /\ ~ IsBool(a)
          <6>1. s[f].p \in Plain
            BY <1>1, <1>6
          <6> QED
            BY <4>1, <5>1, <6>1, PlainKinds, PlainValues DEF Interrupt
        <5>3. r = a
          BY <1>11, <4>1, <5>2 DEF Logical
        <5>4. FirstOdd(s, n + 1, f) /\ f \in 1..(n + 1)
          BY <1>5, <1>6, <5>1 DEF FirstOdd
        <5> QED
          BY <3>3, <5>1, <5>3, <5>4 DEF Summary, FirstOdd
      <4> QED
        BY <4>2, <4>3
    <3> QED
      BY <1>5, <3>1, <3>2, <3>3
  <2> QED
    BY <2>1, <2>2 DEF Accumulated
<1> QED
  BY <1>10, <1>11

\* When the loop is left, the accumulator is the declared answer.
LEMMA AnswerReached ==
  ASSUME NEW s \in Seq(Item), NEW n \in Nat, n <= Len(s), NEW b \in BOOLEAN, NEW a,
         Accumulated(b, s, n, a), a = Bool(b) \/ n = Len(s)
  PROVE  a = Quantified(b, s)
<1> DEFINE ps == {s[m].p : m \in DOMAIN s}
           odd == {m \in DOMAIN s : ~ IsBool(s[m].p)}
<1>1. DOMAIN s = 1..Len(s)
  OBVIOUS
<1>2. CASE a = Bool(b)
  <2>1. n \in 1..Len(s) /\ s[n].p = Bool(b)
    BY <1>2 DEF Accumulated, Decided
  <2> QED
    BY <1>1, <1>2, <2>1 DEF Quantified
<1>3. CASE a # Bool(b)
  <2>1. n = Len(s) /\ Undecided(b, s, Len(s)) /\ Summary(b, s, Len(s), a)
    BY <1>3 DEF Accumulated
  <2>2. Bool(b) \notin ps
    BY <1>1, <2>1 DEF Undecided
  <2>3. ps = Came(s, Len(s))
    BY <1>1 DEF Came
  <2>4. CASE \E m \in 1..Len(s) : IsUnknown(s[m].p)
    BY <1>1, <2>1, <2>2, <2>3, <2>4 DEF Quantified, Summary
  <2>5. CASE ~ (\E m \in 1..Len(s) : IsUnknown(s[m].p)) /\ (\A m \in 1..Len(s) : IsBool(s[m].p))
    <3>1. a = Bool(~ b)
      BY <2>1, <2>5 DEF Summary
    <3>2. odd = {}
      BY <1>1, <2>5
    <3> QED
      BY <1>1, <2>2, <2>5, <3>1, <3>2 DEF Quantified
  <2>6. CASE ~ (\E m \in 1..Len(s) : IsUnknown(s[m].p)) /\ ~ (\A m \in 1..Len(s) : IsBool(s[m].p))
    <3>1. PICK f \in 1..Len(s) : FirstOdd(s, Len(s), f) /\ a = Interrupt(s[f].p)
      BY <2>1, <2>6 DEF Summary
    <3>2. f \in odd /\ \A m \in odd : f <= m
      BY <1>1, <3>1 DEF FirstOdd
    <3>3. odd \in SUBSET Nat
      <4>1. \A m \in 1..Len(s) : m \in Nat
        OBVIOUS
      <4> QED
        BY <1>1, <4>1
    <3>4. Least(odd) = f
      <4>1. \A m \in odd : (\A k \in odd : m <= k) => m = f
        BY <3>2, <3>3
      <4> QED
        BY <3>2, <4>1 DEF Least
    <3> QED
      BY <1>1, <2>2, <2>6, <3>1, <3>2, <3>4 DEF Quantified
  <2> QED
    BY <2>4, <2>5, <2>6
<1> QED
  BY <1>2, <1>3

\* ... and the loop has looked at no element beyond the one that decides.
Deciding(b, s) == {m \in DOMAIN s : s[m].p = Bool(b)}

LEMMA StopReached ==
  ASSUME NEW s \in Seq(Item), NEW n \in Nat, n <= Len(s), NEW b \in BOOLEAN, NEW a,
         Accumulated(b, s, n, a), a = Bool(b) \/ n = Len(s)
  PROVE  n = IF Deciding(b, s) = {} THEN Len(s) ELSE Least(Deciding(b, s))
<1> DEFINE decides == Deciding(b, s)
<1>1. DOMAIN s = 1..Len(s) /\ \A m \in decides : m \in 1..Len(s) /\ m \in Nat /\ s[m].p = Bool(b)
  <2>1. DOMAIN s = 1..Len(s) /\ \A m \in 1..Len(s) : m \in Nat
    OBVIOUS
  <2> QED
    BY <2>1 DEF Deciding
<1>2. CASE a = Bool(b)
  <2>1. Decided(b, s, n)
    BY <1>2 DEF Accumulated
  <2>2. n \in decides
    <3>1. n \in 1..Len(s)
      BY <2>1 DEF Decided
    <3> QED
      BY <1>1, <2>1, <3>1 DEF Decided, Deciding
  <2> HIDE DEF decides
  <2>3. ASSUME NEW m \in decides
        PROVE  n <= m
    <3>1. m \in 1..Len(s) /\ m \in Nat /\ s[m].p = Bool(b)
      BY <1>1
    <3>2. m <= n => m \in 1..n
      BY <3>1
    <3> QED
      BY <2>1, <3>1, <3>2 DEF Decided
  <2>4. \A m \in decides : (\A k \in decides : m <= k) => m = n
    <3>1. SUFFICES ASSUME NEW m \in decides, \A k \in decides : m <= k PROVE m = n
      OBVIOUS
    <3>2. m <= n /\ n <= m /\ m \in Nat
      BY <1>1, <2>2, <2>3, <3>1
    <3> QED
      BY <3>2
  <2>5. Least(decides) = n
    BY <2>2, <2>3, <2>4 DEF Least
  <2> QED
    BY <2>2, <2>5 DEF decides
<1>3. CASE a # Bool(b)
  BY <1>1, <1>3 DEF Accumulated, Undecided, Deciding
<1> QED
  BY <1>2, <1>3

LEMMA KindKept == [Next]_vars => kind' = kind
  BY DEF Next, EvalRange, EvalInit, Fold, Leave, EvalResult, vars

LEMMA QuantifierInductive ==
  ASSUME QuantifierInv, TypeInv', [Next]_vars
  PROVE  QuantifierInv'
<1> DEFINE b == kind = "exists"
<1>1. TypeInv /\ TypeOK /\ kind \in Quantifiers
  BY DEF QuantifierInv, TypeInv
<1>2. kind' = kind /\ range' = range
  BY DEF Next, EvalRange, EvalInit, Fold, Leave, EvalResult, vars
<1>3. i \in Nat \ {0}
  BY <1>1 DEF TypeOK
<1>4. CASE EvalRange
  <2>1. IsList(range) => ~ IsError(range) /\ ~ IsUnknown(range)
    <3>1. \A v \in Plain : ~ IsList(v)
      BY DEF Plain, Bools, Bool, Other, IsList
    <3>2. \A v \in [list : Seq(Item)] : ~ IsError(v) /\ ~ IsUnknown(v)
      BY DEF IsError, IsUnknown
    <3> QED
      BY <1>1, <3>1, <3>2, OutcomeAssumption DEF TypeOK
  <2>2. pc' \in {"init", "done"} /\ ~ (pc' = "done" /\ IsList(range))
    BY <1>4, <2>1 DEF EvalRange, Settles
  <2> QED
    BY <1>1, <1>2, <2>2 DEF QuantifierInv, AnswerDeclared, StopsWhenDecided, Iterated
<1>5. CASE EvalInit
  <2>1. init = Bool(~ b) /\ IsBool(init)
    BY <1>1, PlainValues DEF TypeInv, AccuType, InitOf, Quantifiers, Collectors, Transformers
  <2>2. ~ IsError(init) /\ ~ IsUnknown(init)
    BY <2>1, PlainValues, PlainKinds
  <2>3. pc' = "loop" /\ accu' = init /\ i' = i /\ i = 1
    BY <1>1, <1>5, <2>2 DEF EvalInit, TypeOK
  <2>4. Accumulated(b, range.list, 0, Bool(~ b))
    <3>1. Bool(~ b) # Bool(b)
      <4>1. CASE b
        BY <4>1, PlainValues
      <4>2. CASE ~ b
        BY <4>2, PlainValues
      <4> QED
        BY <4>1, <4>2
    <3>2. 1..0 = {}
      OBVIOUS
    <3> QED
      BY <3>1, <3>2 DEF Accumulated, Undecided, Summary
  <2> QED
    BY <1>1, <1>2, <2>1, <2>3, <2>4
    DEF QuantifierInv, AnswerDeclared, StopsWhenDecided, Iterated
<1>6. CASE Fold
  <2>1. pc = "loop" /\ pc' = "loop" /\ i' = i + 1 /\ i <= Len(range.list) /\ ~ Stops(accu)
        /\ accu' = StepOf(kind, accu, range.list[i], i)
    BY <1>6 DEF Fold, More
  <2>2. accu \in Plain \cup {NoOverload} /\ IsList(range)
    BY <1>1, <2>1 DEF TypeInv, TypeOK, AccuType
  <2>3. accu # Bool(b)
    BY <1>1, <2>1, <2>2, StopsAbsorbed
  <2>4. Undecided(b, range.list, i - 1) /\ Summary(b, range.list, i - 1, accu)
    BY <1>1, <2>1, <2>3 DEF QuantifierInv, Accumulated
  <2>5. range.list \in Seq(Item)
    BY <1>1, <2>2, ListRange
  <2>6. i - 1 \in Nat /\ (i - 1) + 1 = i
    BY <1>3
  <2>7. Accumulated(b, range.list, i, Logical(b, accu, range.list[i].p))
    BY <2>1, <2>2, <2>3, <2>4, <2>5, <2>6, OneMore
  <2>8. accu' = Logical(b, accu, range.list[i].p)
    BY <1>1, <2>1, QuantifierAccu
  <2>9. i' - 1 = i
    BY <1>3, <2>1
  <2> QED
    BY <1>1, <1>2, <2>1, <2>7, <2>8, <2>9
    DEF QuantifierInv, AnswerDeclared, StopsWhenDecided, Iterated
<1>7. CASE Leave
  <2>1. pc = "loop" /\ pc' = "result" /\ i' = i /\ accu' = accu /\ (i <= Len(range.list) => Stops(accu))
    BY <1>7 DEF Leave, More
  <2>2. accu \in Plain \cup {NoOverload} /\ IsList(range) /\ i <= Len(range.list) + 1
    BY <1>1, <2>1 DEF TypeInv, TypeOK, AccuType
  <2>3. range.list \in Seq(Item)
    BY <1>1, <2>2, ListRange
  <2>4. accu = Bool(b) \/ i = Len(range.list) + 1
    BY <1>1, <1>3, <2>1, <2>2, <2>3, StopsAbsorbed
  <2> QED
    BY <1>1, <1>2, <2>1, <2>4 DEF QuantifierInv, AnswerDeclared, StopsWhenDecided, Iterated
<1>8. CASE EvalResult
  <2>1. pc = "result" /\ pc' = "done" /\ i' = i /\ answer' = accu
    BY <1>1, <1>8 DEF EvalResult, Settles, ResultOf, Quantifiers
  <2>2. IsList(range) /\ i <= Len(range.list) + 1
    BY <1>1, <2>1 DEF TypeOK
  <2>3. range.list \in Seq(Item)
    BY <1>1, <2>2, ListRange
  <2>4. i - 1 \in Nat /\ i - 1 <= Len(range.list)
    BY <1>3, <2>2, <2>3
  <2>5. accu = Bool(b) \/ i - 1 = Len(range.list)
    BY <1>3, <2>1, <2>3 DEF QuantifierInv
  <2>6. Accumulated(b, range.list, i - 1, accu)
    BY <2>1 DEF QuantifierInv
  <2>7. accu = Quantified(b, range.list)
    BY <2>3, <2>4, <2>5, <2>6, AnswerReached
  <2>8. AnswerDeclared'
    BY <1>1, <1>2, <2>1, <2>7 DEF AnswerDeclared, Answer
  <2> DEFINE decides == {m \in DOMAIN range.list :
                           kind \in Quantifiers /\ range.list[m].p = Bool(b)}
  <2>9. decides = Deciding(b, range.list)
    BY <1>1 DEF Deciding
  <2>10. i - 1 = IF decides = {} THEN Len(range.list) ELSE Least(decides)
    BY <2>3, <2>4, <2>5, <2>6, <2>9, StopReached
  <2>11. StopsWhenDecided'
    BY <1>2, <2>1, <2>10 DEF StopsWhenDecided
  <2> QED
    BY <1>1, <1>2, <2>1, <2>8, <2>11 DEF QuantifierInv
<1>9. CASE UNCHANGED vars
  BY <1>9 DEF vars, QuantifierInv, AnswerDeclared, StopsWhenDecided, Iterated, IsList, TypeInv
<1> QED
  BY <1>4, <1>5, <1>6, <1>7, <1>8, <1>9 DEF Next

-----------------------------------------------------------------------------
(***************************************************************************)
(* Partial evaluation of the quantifiers.                                  *)
(***************************************************************************)
RangeGiven == range \in Ranges(kind)

LEMMA ItemsGiven ==
  ASSUME RangeGiven, IsList(range), kind \in Quantifiers
  PROVE  /\ range.list \in Seq(Item)
         /\ \A n \in DOMAIN range.list : range.list[n].t = Other
<1>1. ItemsOf(kind) = [p : Predicates, t : {Other}]
  BY DEF ItemsOf, Quantifiers
<1>2. \A v \in Strays : ~ IsList(v)
  <2>1. \A v \in Plain : ~ IsList(v)
    BY DEF Plain, Bools, Bool, Other, IsList
  <2>2. QED BY <2>1, OutcomeAssumption
<1>3. PICK n \in 0..MaxLen : \E s \in [1..n -> ItemsOf(kind)] : range = List(s)
  <2>1. range \in {List(s) : s \in UNION {[1..n -> ItemsOf(kind)] : n \in 0..MaxLen}}
    BY <1>2 DEF RangeGiven, Ranges, Quantifiers
  <2>2. QED BY <2>1
<1>4. PICK s \in [1..n -> ItemsOf(kind)] : range = List(s)
  BY <1>3
<1>5. n \in Nat /\ range.list = s
  BY <1>3, <1>4 DEF List
<1>6. ItemsOf(kind) \subseteq Item
  BY <1>1, OutcomeAssumption, PlainValues DEF Item, Plain
<1>7. QED BY <1>1, <1>4, <1>5, <1>6

\* The answer comes from the predicates alone; one more of them known leaves
\* an answer as it is, unless it was unknown.
LEMMA OneMoreKnown ==
  ASSUME NEW b \in BOOLEAN, NEW s \in Seq(Item), NEW n \in DOMAIN s, NEW x \in Item,
         Completes(x, s[n]), ~ IsUnknown(Quantified(b, s))
  PROVE  Quantified(b, [s EXCEPT ![n] = x]) = Quantified(b, s)
<1> DEFINE u == [s EXCEPT ![n] = x]
           ps == {s[m].p : m \in DOMAIN s}
           qs == {u[m].p : m \in DOMAIN u}
<1>1. DOMAIN u = DOMAIN s /\ u[n] = x /\ \A m \in DOMAIN s : m # n => u[m] = s[m]
  OBVIOUS
<1>2. CASE Bool(b) \in ps
  <2>1. PICK m \in DOMAIN s : s[m].p = Bool(b)
    BY <1>2
  <2>2. ~ IsUnknown(Bool(b))
    BY PlainValues, PlainKinds
  <2>3. u[m].p = Bool(b)
    BY <1>1, <2>1, <2>2 DEF Completes
  <2>4. Bool(b) \in qs
    BY <1>1, <2>1, <2>3
  <2>5. QED BY <1>2, <2>4 DEF Quantified
<1>3. CASE Bool(b) \notin ps
  <2>1. \A v \in ps : ~ IsUnknown(v)
    <3>1. SUFFICES ASSUME \E v \in ps : IsUnknown(v) PROVE FALSE
      OBVIOUS
    <3>2. Quantified(b, s) = Unknown(Missing(ps))
      BY <1>3, <3>1 DEF Quantified
    <3>3. IsUnknown(Quantified(b, s))
      BY <3>2 DEF Unknown, IsUnknown
    <3>4. QED BY <3>3
  <2>2. x.p = s[n].p
    BY <2>1 DEF Completes
  <2>3. \A m \in DOMAIN s : u[m].p = s[m].p
    BY <1>1, <2>2
  <2>4. ps = qs
    BY <1>1, <2>3
  <2> DEFINE odd == {m \in DOMAIN s : ~ IsBool(s[m].p)}
             odds == {m \in DOMAIN u : ~ IsBool(u[m].p)}
  <2>5. odds = odd
    BY <1>1, <2>3
  <2>6. odd = {} \/ u[Least(odd)].p = s[Least(odd)].p
    <3>1. ASSUME odd # {} PROVE Least(odd) \in DOMAIN s
      <4>1. DOMAIN s = 1..Len(s) /\ Len(s) \in Nat /\ odd \subseteq Nat
        OBVIOUS
      <4>2. \E m \in odd : \A k \in odd : m <= k
        <5> HIDE DEF odd
        <5> QED BY <3>1, <4>1, LeastOf
      <4>3. Least(odd) \in odd
        BY <4>2 DEF Least
      <4>4. QED BY <4>3
    <3>2. QED BY <2>3, <3>1
  <2>7. Quantified(b, s) = IF odd # {} THEN Interrupt(s[Least(odd)].p) ELSE Bool(~ b)
    BY <1>3, <2>1 DEF Quantified
  <2>8. Quantified(b, u) = IF odds # {} THEN Interrupt(u[Least(odds)].p) ELSE Bool(~ b)
    BY <1>3, <2>1, <2>4 DEF Quantified
  <2>9. Quantified(b, u) = Quantified(b, s)
    <3> HIDE DEF odd, odds, u
    <3> QED BY <2>5, <2>6, <2>7, <2>8
  <2>10. QED BY <2>9
<1>4. QED BY <1>2, <1>3

\* A quantifier is unknown only where a predicate is.
LEMMA UnknownFrom ==
  ASSUME NEW b \in BOOLEAN, NEW s \in Seq(Item), IsUnknown(Quantified(b, s))
  PROVE  \E n \in DOMAIN s : IsUnknown(s[n].p)
<1> DEFINE ps == {s[m].p : m \in DOMAIN s}
           odd == {m \in DOMAIN s : ~ IsBool(s[m].p)}
<1>1. SUFFICES ASSUME \A v \in ps : ~ IsUnknown(v) PROVE FALSE
  OBVIOUS
<1>2. ~ IsUnknown(Bool(b)) /\ ~ IsUnknown(Bool(~ b)) /\ ~ IsUnknown(NoOverload)
  BY PlainValues, PlainKinds
<1>3. Quantified(b, s) = IF Bool(b) \in ps THEN Bool(b)
                         ELSE IF odd # {} THEN Interrupt(s[Least(odd)].p) ELSE Bool(~ b)
  BY <1>1 DEF Quantified
<1>4. odd # {} /\ Quantified(b, s) = Interrupt(s[Least(odd)].p)
  BY <1>2, <1>3
<1>5. Least(odd) \in odd
  <2>1. odd \subseteq Nat
    BY DOMAIN s = 1..Len(s) /\ Len(s) \in Nat
  <2>2. \E m \in odd : \A k \in odd : m <= k
    <3> HIDE DEF odd
    <3> QED BY <1>4, <2>1, LeastOf
  <2>3. QED BY <2>2 DEF Least
<1>6. s[Least(odd)].p \in ps
  BY <1>5
<1>7. QED BY <1>1, <1>2, <1>4, <1>6 DEF Interrupt

LEMMA QuantifierPartial ==
  ASSUME RangeGiven, kind \in Quantifiers, AnswerDeclared
  PROVE  SoundWhenPartial
<1> SUFFICES ASSUME Iterated PROVE SoundWhenPartial
  BY DEF SoundWhenPartial
<1> DEFINE b == kind = "exists"
           s == range.list
<1>1. s \in Seq(Item) /\ (\A n \in DOMAIN s : s[n].t = Other) /\ answer = Quantified(b, s)
  BY ItemsGiven DEF Iterated, AnswerDeclared, Answer
<1>2. ItemsOf(kind) = [p : Predicates, t : {Other}] /\ ItemsOf(kind) \subseteq Item
  BY OutcomeAssumption DEF ItemsOf, Quantifiers, Item, Plain
<1> HIDE DEF b
<1>3. ASSUME ~ IsUnknown(answer), NEW f \in Futures(kind, s)
      PROVE  SameAnswer(answer, f)
  <2>1. PICK n \in DOMAIN s, x \in ItemsOf(kind) :
          Completes(x, s[n]) /\ f = Answer(kind, [s EXCEPT ![n] = x])
    BY <1>3 DEF Futures
  <2>2. f = Quantified(b, [s EXCEPT ![n] = x])
    BY <2>1 DEF Answer, b
  <2>3. f = answer
    BY <1>1, <1>2, <1>3, <2>1, <2>2, OneMoreKnown DEF b
  <2>4. QED BY <2>3 DEF SameAnswer
<1>4. ASSUME IsUnknown(answer)
      PROVE  \E f \in Futures(kind, s) : IsBool(f)
  <2>1. PICK n \in DOMAIN s : IsUnknown(s[n].p)
    BY <1>1, <1>4, UnknownFrom DEF b
  <2> DEFINE x == [p |-> Bool(b), t |-> Other]
             u == [s EXCEPT ![n] = x]
  <2>2. Bool(b) \in Predicates /\ IsBool(Bool(b))
    BY OutcomeAssumption, PlainValues DEF Bools, b
  <2>3. x \in ItemsOf(kind) /\ Completes(x, s[n])
    BY <1>1, <1>2, <2>1, <2>2 DEF Completes
  <2>4. Answer(kind, u) \in Futures(kind, s)
    BY <2>3 DEF Futures
  <2>5. n \in DOMAIN u /\ u[n].p = Bool(b)
    OBVIOUS
  <2>6. Quantified(b, u) = Bool(b)
    BY <2>5 DEF Quantified
  <2>7. Answer(kind, u) = Bool(b)
    BY <2>6 DEF Answer, b
  <2>8. QED BY <2>2, <2>4, <2>7
<1>5. QED BY <1>3, <1>4 DEF SoundWhenPartial

-----------------------------------------------------------------------------
(***************************************************************************)
(* The macros that collect: exists_one, map, filter, transformList,        *)
(* transformMap and transformMapEntry.                                     *)
(***************************************************************************)
Gatherers == Collectors \cup Transformers \cup {"exists_one"}

\* What the elements of a macro come to, as far as its expansion fixes it.
Fits(k, s) ==
  /\ s \in Seq(Item)
  /\ k \in {"map", "transformMap", "transformMapEntry"} => \A m \in DOMAIN s : s[m].p = Bool(TRUE)
  /\ k \in {"exists_one", "filter"} => \A m \in DOMAIN s : s[m].t = Other

\* Of the first n elements, o is the last whose predicate is no bool, and those
\* that are taken come after it.
Odd(s, n, o) ==
  /\ o \in 0..n /\ (o > 0 => ~ IsBool(s[o].p))
  /\ \A m \in 1..n : m > o => IsBool(s[m].p)

After(s, o) == {m \in DOMAIN s : m > o /\ s[m].p = Bool(TRUE)}
Upto(s, o, n) == {m \in After(s, o) : m <= n}

Base(k, s, o) == IF o = 0 THEN InitOf(k) ELSE Interrupt(s[o].p)
Parts(k, s, o, n) == {Base(k, s, o)} \cup {s[m].t : m \in Upto(s, o, n)}

\* Nothing is missing up to element n, and it brings no key, or one that is there.
Complete(s, o, n) ==
  /\ \A m \in After(s, o) : m <= n => ~ IsUnknown(s[m].t)
  /\ o > 0 => ~ IsUnknown(s[o].p)
Refused(k, s, o, n) ==
  \/ KeysOf(k, s, n) = {} /\ ~ IsMap(s[n].t)
  \/ \E m \in After(s, o) : m < n /\ KeysOf(k, s, m) \cap KeysOf(k, s, n) # {}
Fails(k, s, o, n) ==
  IsError(s[n].t) \/ (k \in Transformers /\ Complete(s, o, n) /\ Refused(k, s, o, n))

FirstFail(k, s, o, n, f) ==
  /\ f \in Upto(s, o, n) /\ Fails(k, s, o, f)
  /\ \A m \in Upto(s, o, n) : Fails(k, s, o, m) => f <= m

\* q has the elements of T, in their order.
Lists(q, T) ==
  /\ \A j \in 1..Len(q) : q[j] \in T
  /\ \A x \in T : \E j \in 1..Len(q) : q[j] = x
  /\ \A j, l \in 1..Len(q) : j < l => q[j] < q[l]

Gathered(k, s, o, n, a) ==
  /\ k = "exists_one" => a = Number(Cardinality(Upto(s, o, n)))
  /\ k \in Transformers => a = Map(UNION {KeysOf(k, s, m) : m \in Upto(s, o, n)})
  /\ k \in Collectors => \E q \in Seq(Nat) : a = List(q) /\ Lists(q, Upto(s, o, n))

\* The accumulator a after n of the elements s, of which o is the last odd one.
Collects(k, s, o, n, a) ==
  IF IsError(Base(k, s, o)) THEN a = Base(k, s, o)
  ELSE IF \E f \in Upto(s, o, n) : Fails(k, s, o, f)
    THEN \E f \in Upto(s, o, n) : FirstFail(k, s, o, n, f) /\ a = Interrupt(s[f].t)
  ELSE IF \E v \in Parts(k, s, o, n) : IsUnknown(v) THEN a = Unknown(Missing(Parts(k, s, o, n)))
  ELSE Gathered(k, s, o, n, a)

\* No outcome is an error and unknown at once.
LEMMA ErrorOrUnknown ==
  ASSUME NEW v \in Outcome
  PROVE  ~ (IsError(v) /\ IsUnknown(v))
<1>1. IsUnknown(v) => v \in [unknown : SUBSET Nat]
  BY OutcomeKinds
<1>2. QED BY <1>1 DEF IsError

LEMMA InterruptIs ==
  ASSUME NEW v \in Outcome
  PROVE  /\ Interrupt(v) \in Outcome
         /\ IsError(Interrupt(v)) \/ IsUnknown(Interrupt(v))
         /\ ~ IsUnknown(v) => IsError(Interrupt(v)) /\ ~ IsUnknown(Interrupt(v))
         /\ IsUnknown(v) => Interrupt(v) = v /\ ~ IsError(v)
         /\ IsError(v) => Interrupt(v) = v
  BY PlainValues, ErrorOrUnknown DEF Interrupt

\* The initial accumulator is neither.
LEMMA InitIsValue ==
  ASSUME NEW k \in Gatherers
  PROVE  ~ IsError(InitOf(k)) /\ ~ IsUnknown(InitOf(k))
<1>1. InitOf(k) \in {Number(0), List(<<>>), Map({})}
  BY DEF InitOf, Gatherers, Quantifiers, Collectors, Transformers
<1>2. \A v \in {Number(0), List(<<>>), Map({})} : ~ IsError(v) /\ ~ IsUnknown(v)
  BY DEF Number, List, Map, IsError, IsUnknown
<1>3. QED BY <1>1, <1>2

\* One step of the fold: its condition decides whether the element is taken.
TakeOf(k, a, e, n) ==
  CASE k = "exists_one" -> Add(a, Number(1))
    [] k \in Collectors -> Add(a, Singleton(e, n))
    [] k \in {"transformMap", "transformMap_filter"} -> InsertKey(a, n, e)
    [] k \in {"transformMapEntry", "transformMapEntry_filter"} -> InsertMap(a, e)

LEMMA ConditionTrue ==
  ASSUME NEW x, NEW y
  PROVE  Conditional(Bool(TRUE), x, y) = x /\ Conditional(Bool(FALSE), x, y) = y
<1>1. /\ ~ IsError(Bool(TRUE)) /\ ~ IsUnknown(Bool(TRUE)) /\ IsBool(Bool(TRUE))
      /\ ~ IsError(Bool(FALSE)) /\ ~ IsUnknown(Bool(FALSE)) /\ IsBool(Bool(FALSE))
      /\ Bool(TRUE) # Bool(FALSE)
  BY PlainValues, PlainKinds
<1>2. QED BY <1>1 DEF Conditional

LEMMA StepIs ==
  ASSUME NEW k \in Gatherers, NEW a, NEW n, NEW x \in Item,
         k \in {"map", "transformMap", "transformMapEntry"} => x.p = Bool(TRUE),
         k \in {"exists_one", "filter"} => x.t = Other
  PROVE  StepOf(k, a, x, n) = Conditional(x.p, TakeOf(k, a, x.t, n), a)
<1>1. Singleton(Other, n) = List(<<n>>)
  BY DEF Singleton, Other, IsError, IsUnknown
<1>2. CASE k = "exists_one"
  BY <1>2 DEF StepOf, TakeOf, Quantifiers, Transformers, Collectors
<1>3. CASE k = "filter"
  BY <1>1, <1>3 DEF StepOf, TakeOf, Quantifiers, Transformers, Collectors
<1>4. CASE k = "map_filter"
  BY <1>4 DEF StepOf, TakeOf, Quantifiers, Transformers, Collectors
<1>5. CASE k = "map"
  BY <1>5, ConditionTrue DEF StepOf, TakeOf, Quantifiers, Transformers, Collectors
<1>6. CASE k \in {"transformMap", "transformMapEntry"}
  BY <1>6, ConditionTrue DEF StepOf, InsertStep, TakeOf, Quantifiers, Transformers, Collectors
<1>7. CASE k \in {"transformMap_filter", "transformMapEntry_filter"}
  BY <1>7 DEF StepOf, InsertStep, TakeOf, Quantifiers, Transformers, Collectors
<1>8. QED
  BY <1>2, <1>3, <1>4, <1>5, <1>6, <1>7 DEF Gatherers, Collectors, Transformers

\* Whatever a macro collects, an error comes before what is missing, and that
\* before what there is.
LEMMA TakeStrict ==
  ASSUME NEW k \in Gatherers, NEW a \in Outcome, NEW e \in Outcome, NEW n,
         k = "exists_one" => e = Other
  PROVE  /\ IsError(a) => TakeOf(k, a, e, n) = a
         /\ ~ IsError(a) /\ IsError(e) => TakeOf(k, a, e, n) = e
         /\ IsUnknown(a) /\ IsUnknown(e) => TakeOf(k, a, e, n) = Merge(a, e)
         /\ IsUnknown(a) /\ ~ IsUnknown(e) /\ ~ IsError(e) => TakeOf(k, a, e, n) = a
         /\ ~ IsUnknown(a) /\ ~ IsError(a) /\ IsUnknown(e) => TakeOf(k, a, e, n) = e
<1>1. ~ (IsError(a) /\ IsUnknown(a)) /\ ~ (IsError(e) /\ IsUnknown(e))
  BY ErrorOrUnknown
<1>2. CASE k = "exists_one"
  <2>1. /\ ~ IsError(Number(1)) /\ ~ IsUnknown(Number(1))
        /\ ~ IsError(Other) /\ ~ IsUnknown(Other)
    BY DEF Number, Other, IsError, IsUnknown
  <2>2. TakeOf(k, a, e, n) = Add(a, Number(1))
    BY <1>2 DEF TakeOf, Collectors
  <2>3. QED BY <1>1, <1>2, <2>1, <2>2 DEF Add, Strict
<1>3. CASE k \in Collectors
  <2>1. TakeOf(k, a, e, n) = Add(a, Singleton(e, n))
    BY <1>3 DEF TakeOf, Collectors
  <2>2. /\ IsError(e) \/ IsUnknown(e) => Singleton(e, n) = e
        /\ ~ IsError(e) /\ ~ IsUnknown(e) => ~ IsError(Singleton(e, n)) /\ ~ IsUnknown(Singleton(e, n))
    BY DEF Singleton, List, IsError, IsUnknown
  <2>3. QED BY <1>1, <2>1, <2>2 DEF Add, Strict
<1>4. CASE k \in {"transformMap", "transformMap_filter"}
  <2>1. TakeOf(k, a, e, n) = InsertKey(a, n, e)
    BY <1>4 DEF TakeOf, Collectors
  <2>2. QED BY <1>1, <2>1 DEF InsertKey, Strict
<1>5. CASE k \in {"transformMapEntry", "transformMapEntry_filter"}
  <2>1. TakeOf(k, a, e, n) = InsertMap(a, e)
    BY <1>5 DEF TakeOf, Collectors
  <2>2. QED BY <1>1, <2>1 DEF InsertMap, Strict
<1>6. QED BY <1>2, <1>3, <1>4, <1>5 DEF Gatherers, Collectors, Transformers

LEMMA TakeType ==
  ASSUME NEW k \in Gatherers, NEW a \in Outcome, NEW e \in Outcome, NEW n \in Nat \ {0}
  PROVE  TakeOf(k, a, e, n) \in Outcome
<1>1. Number(1) \in Outcome
  BY DEF Number, Outcome
<1>2. /\ Add(a, Number(1)) \in Outcome /\ Add(a, Singleton(e, n)) \in Outcome
      /\ InsertKey(a, n, e) \in Outcome /\ InsertMap(a, e) \in Outcome
  BY <1>1, AddType, SingletonType, InsertKeyType, InsertMapType
<1>3. QED BY <1>2 DEF TakeOf, Gatherers, Collectors, Transformers

LEMMA UptoMore ==
  ASSUME NEW s \in Seq(Item), NEW n \in Nat, n + 1 <= Len(s), NEW o \in Nat
  PROVE  /\ n + 1 \in After(s, o) => Upto(s, o, n + 1) = Upto(s, o, n) \cup {n + 1}
         /\ n + 1 \notin After(s, o) => Upto(s, o, n + 1) = Upto(s, o, n)
         /\ Upto(s, o, n) \subseteq 1..n /\ n + 1 \notin Upto(s, o, n)
         /\ IsFiniteSet(Upto(s, o, n))
<1>1. \A m \in After(s, o) : m \in Nat /\ m >= 1
  <2>1. DOMAIN s = 1..Len(s)
    OBVIOUS
  <2>2. QED BY <2>1 DEF After
<1>2. \A m \in Nat : m <= n + 1 <=> m <= n \/ m = n + 1
  OBVIOUS
<1>3. Upto(s, o, n) \subseteq 1..n /\ n + 1 \notin Upto(s, o, n)
  BY <1>1 DEF Upto
<1>4. IsFiniteSet(Upto(s, o, n))
  <2>1. IsFiniteSet(1..n)
    BY FS_Interval
  <2>2. QED BY <1>3, <2>1, FS_Subset
<1>5. QED BY <1>1, <1>2, <1>3, <1>4 DEF Upto

LEMMA ListsMore ==
  ASSUME NEW q \in Seq(Nat), NEW T \in SUBSET Nat, Lists(q, T), NEW x \in Nat, \A y \in T : y < x
  PROVE  Lists(Append(q, x), T \cup {x})
<1> DEFINE r == Append(q, x)
<1>1. /\ Len(q) \in Nat /\ Len(r) = Len(q) + 1 /\ r[Len(q) + 1] = x
      /\ \A j \in 1..Len(q) : r[j] = q[j]
      /\ \A j \in 1..(Len(q) + 1) : j \in 1..Len(q) \/ j = Len(q) + 1
      /\ \A j \in 1..Len(q) : j \in 1..(Len(q) + 1)
      /\ Len(q) + 1 \in 1..(Len(q) + 1)
  OBVIOUS
<1> HIDE DEF r
<1>2. \A j \in 1..Len(r) : r[j] \in T \cup {x}
  BY <1>1 DEF Lists
<1>3. \A y \in T \cup {x} : \E j \in 1..Len(r) : r[j] = y
  <2>1. ASSUME NEW y \in T PROVE \E j \in 1..Len(r) : r[j] = y
    <3>1. PICK j \in 1..Len(q) : q[j] = y
      BY DEF Lists
    <3>2. QED BY <1>1, <3>1
  <2>2. QED BY <1>1, <2>1
<1>4. ASSUME NEW j \in 1..Len(r), NEW l \in 1..Len(r), j < l PROVE r[j] < r[l]
  <2>1. j \in 1..Len(q) /\ r[j] = q[j] /\ q[j] \in T
    BY <1>1, <1>4 DEF Lists
  <2>2. CASE l \in 1..Len(q)
    BY <1>1, <1>4, <2>1, <2>2 DEF Lists
  <2>3. CASE l = Len(q) + 1
    BY <1>1, <2>1, <2>3
  <2>4. QED BY <1>1, <2>2, <2>3
<1>5. QED BY <1>2, <1>3, <1>4 DEF Lists, r

\* What a value adds to what was collected.
LEMMA TakeValue ==
  ASSUME NEW e, ~ IsError(e), ~ IsUnknown(e), NEW x \in Nat
  PROVE  /\ \A c \in Nat : Add(Number(c), Number(1)) = Number(c + 1)
         /\ \A q \in Seq(Nat) : Add(List(q), Singleton(e, x)) = List(Append(q, x))
         /\ \A M : InsertKey(Map(M), x, e) = IF x \notin M THEN Map(M \cup {x}) ELSE NoOverload
         /\ \A M : InsertMap(Map(M), e) =
                     IF IsMap(e) /\ M \cap e.map = {} THEN Map(M \cup e.map) ELSE NoOverload
<1>1. ASSUME NEW c \in Nat PROVE Add(Number(c), Number(1)) = Number(c + 1)
  BY DEF Add, Strict, Number, IsError, IsUnknown
<1>2. ASSUME NEW q \in Seq(Nat) PROVE Add(List(q), Singleton(e, x)) = List(Append(q, x))
  <2>1. Singleton(e, x) = List(<<x>>)
    BY DEF Singleton
  <2>2. Add(List(q), List(<<x>>)) = List(q \o <<x>>)
    BY DEF Add, Strict, List, IsError, IsUnknown
  <2>3. q \o <<x>> = Append(q, x)
    OBVIOUS
  <2>4. QED BY <2>1, <2>2, <2>3
<1>3. ASSUME NEW M
      PROVE  /\ InsertKey(Map(M), x, e) = IF x \notin M THEN Map(M \cup {x}) ELSE NoOverload
             /\ InsertMap(Map(M), e) =
                  IF IsMap(e) /\ M \cap e.map = {} THEN Map(M \cup e.map) ELSE NoOverload
  <2>1. ~ IsError(Map(M)) /\ ~ IsUnknown(Map(M)) /\ IsMap(Map(M)) /\ Map(M).map = M
    BY DEF Map, IsError, IsUnknown, IsMap
  <2>2. QED BY <2>1 DEF InsertKey, InsertMap, Strict
<1>4. QED BY <1>1, <1>2, <1>3

LEMMA GatherValue ==
  ASSUME NEW k \in Gatherers, NEW s, Fits(k, s), NEW n \in Nat, n + 1 <= Len(s), NEW o \in 0..n,
         NEW a, Gathered(k, s, o, n, a), Complete(s, o, n), n + 1 \in After(s, o),
         ~ IsError(s[n + 1].t), ~ IsUnknown(s[n + 1].t)
  PROVE  IF Fails(k, s, o, n + 1)
           THEN TakeOf(k, a, s[n + 1].t, n + 1) = NoOverload
           ELSE Gathered(k, s, o, n + 1, TakeOf(k, a, s[n + 1].t, n + 1))
<1> DEFINE x == n + 1
           e == s[n + 1].t
           U == Upto(s, o, n)
           a2 == TakeOf(k, a, e, x)
           keys(m) == KeysOf(k, s, m)
           M == UNION {KeysOf(k, s, m) : m \in U}
<1>1. s \in Seq(Item) /\ o \in Nat /\ x \in Nat /\ n < x
  BY DEF Fits
<1>2. Upto(s, o, x) = U \cup {x} /\ U \subseteq 1..n /\ x \notin U /\ IsFiniteSet(U)
  BY <1>1, UptoMore
<1>3. Complete(s, o, x)
  <2>1. \A m \in After(s, o) : m \in Nat
    BY <1>1 DEF After
  <2>2. \A m \in After(s, o) : m <= x => m <= n \/ m = x
    BY <1>1, <2>1
  <2>3. QED BY <2>2 DEF Complete
<1>4. CASE k = "exists_one"
  <2>1. ~ Fails(k, s, o, x)
    BY <1>4 DEF Fails, Transformers
  <2>2. a = Number(Cardinality(U)) /\ Cardinality(U) \in Nat
    BY <1>2, <1>4, FS_CardinalityType DEF Gathered
  <2>3. Cardinality(U \cup {x}) = Cardinality(U) + 1
    BY <1>2, FS_AddElement
  <2>4. a2 = Add(a, Number(1))
    BY <1>4 DEF TakeOf, Collectors
  <2>5. a2 = Number(Cardinality(U) + 1)
    BY <2>2, <2>4, <1>1, TakeValue
  <2>6. QED BY <1>2, <1>4, <2>1, <2>3, <2>5 DEF Gathered, Collectors, Transformers
<1>5. CASE k \in Collectors
  <2>1. ~ Fails(k, s, o, x)
    BY <1>5 DEF Fails, Transformers, Collectors
  <2>2. PICK q \in Seq(Nat) : a = List(q) /\ Lists(q, U)
    BY <1>5 DEF Gathered
  <2>3. a2 = Add(a, Singleton(e, x))
    BY <1>5 DEF TakeOf, Collectors
  <2>4. a2 = List(Append(q, x))
    BY <1>1, <2>2, <2>3, TakeValue
  <2>5. U \in SUBSET Nat /\ \A y \in U : y < x
    BY <1>1, <1>2
  <2>6. Lists(Append(q, x), U \cup {x})
    BY <1>1, <2>2, <2>5, ListsMore
  <2>7. Append(q, x) \in Seq(Nat)
    BY <1>1
  <2>8. QED BY <1>2, <1>5, <2>1, <2>4, <2>6, <2>7 DEF Gathered, Collectors, Transformers
<1>6. CASE k \in Transformers
  <2>1. a = Map(M)
    BY <1>6 DEF Gathered
  <2>2. UNION {KeysOf(k, s, m) : m \in U \cup {x}} = M \cup KeysOf(k, s, x)
    OBVIOUS
  <2>3. Fails(k, s, o, x) <=> Refused(k, s, o, x)
    BY <1>3, <1>6 DEF Fails
  <2>4. Refused(k, s, o, x) <=> (KeysOf(k, s, x) = {} /\ ~ IsMap(e)) \/ M \cap KeysOf(k, s, x) # {}
    <3>1. \A m : m \in After(s, o) /\ m < x <=> m \in U
      <4>1. \A m \in After(s, o) : m \in Nat
        BY <1>1 DEF After
      <4>2. \A m \in After(s, o) : m < x <=> m <= n
        BY <1>1, <4>1
      <4>3. QED BY <4>2 DEF Upto
    <3>2. (\E m \in After(s, o) : m < x /\ KeysOf(k, s, m) \cap KeysOf(k, s, x) # {})
            <=> M \cap KeysOf(k, s, x) # {}
      BY <3>1
    <3>3. QED BY <3>2 DEF Refused
  <2>5. Gathered(k, s, o, x, Map(M \cup KeysOf(k, s, x)))
    BY <1>2, <1>6, <2>2 DEF Gathered, Collectors, Transformers
  <2>6. CASE k \in {"transformMap", "transformMap_filter"}
    <3>1. \A m : KeysOf(k, s, m) = {m}
      BY <2>6 DEF KeysOf
    <3>2. x \notin M
      BY <1>2, <3>1
    <3>3. a2 = InsertKey(Map(M), x, e)
      BY <2>1, <2>6 DEF TakeOf, Collectors
    <3>4. a2 = Map(M \cup {x})
      BY <1>1, <3>2, <3>3, TakeValue
    <3>5. ~ Refused(k, s, o, x)
      BY <2>4, <3>1, <3>2
    <3>6. QED BY <2>3, <2>5, <3>1, <3>4, <3>5
  <2>7. CASE k \in {"transformMapEntry", "transformMapEntry_filter"}
    <3>1. KeysOf(k, s, x) = IF IsMap(e) THEN e.map ELSE {}
      BY <2>7 DEF KeysOf
    <3>2. a2 = InsertMap(Map(M), e)
      BY <2>1, <2>7 DEF TakeOf, Collectors
    <3>3. a2 = IF IsMap(e) /\ M \cap e.map = {} THEN Map(M \cup e.map) ELSE NoOverload
      BY <1>1, <3>2, TakeValue
    <3>4. QED BY <2>3, <2>4, <2>5, <3>1, <3>3
  <2>8. QED BY <1>6, <2>6, <2>7 DEF Transformers
<1>7. QED BY <1>4, <1>5, <1>6 DEF Gatherers

\* One more element that is taken.
LEMMA GatherTaken ==
  ASSUME NEW k \in Gatherers, NEW s, Fits(k, s), NEW n \in Nat, n + 1 <= Len(s), NEW o \in 0..n,
         o > 0 => ~ IsBool(s[o].p),
         NEW a \in Outcome, Collects(k, s, o, n, a), n + 1 \in After(s, o)
  PROVE  Collects(k, s, o, n + 1, TakeOf(k, a, s[n + 1].t, n + 1))
<1> DEFINE x == n + 1
           e == s[n + 1].t
           base == Base(k, s, o)
           U == Upto(s, o, n)
           P == Parts(k, s, o, n)
           a2 == TakeOf(k, a, e, x)
<1>1. s \in Seq(Item) /\ o \in Nat /\ x \in Nat /\ n < x /\ x \in DOMAIN s
  BY DEF Fits
<1>2. Upto(s, o, x) = U \cup {x} /\ U \subseteq 1..n /\ x \notin U
  BY <1>1, UptoMore
<1>3. e \in Outcome /\ (k = "exists_one" => e = Other)
  BY <1>1, ItemFields DEF Fits
<1>4. Parts(k, s, o, x) = P \cup {e}
  BY <1>2 DEF Parts
<1>5. Missing(P \cup {e}) = Missing(P) \cup (IF IsUnknown(e) THEN e.unknown ELSE {})
  BY MissingMore
<1>6. o > 0 => o \in DOMAIN s /\ s[o].p \in Outcome
  <2>1. o > 0 => o \in DOMAIN s
    BY <1>1
  <2>2. QED BY <1>1, <2>1, ItemFields DEF Outcome
<1>7. IsUnknown(base) <=> o > 0 /\ IsUnknown(s[o].p)
  BY <1>1, <1>6, InitIsValue, InterruptIs DEF Base
<1>8. CASE IsError(base)
  BY <1>3, <1>8, TakeStrict DEF Collects
<1>9. CASE ~ IsError(base) /\ \E f \in U : Fails(k, s, o, f)
  <2>1. PICK f \in U : FirstFail(k, s, o, n, f) /\ a = Interrupt(s[f].t)
    BY <1>9 DEF Collects
  <2>2. f \in After(s, o) /\ f \in DOMAIN s /\ f \in Nat /\ f < x
    <3>1. f \in After(s, o) /\ f \in 1..n
      BY <1>2, <2>1 DEF Upto
    <3>2. f \in DOMAIN s
      BY <3>1 DEF After
    <3>3. f \in Nat /\ f <= n
      BY <3>1
    <3>4. f < x
      BY <3>3
    <3>5. QED BY <3>1, <3>2, <3>3, <3>4
  <2>3. s[f].t \in Outcome
    BY <1>1, <2>2, ItemFields
  <2>4. IsError(s[f].t) \/ ~ IsUnknown(s[f].t)
    BY <2>1, <2>2 DEF FirstFail, Fails, Complete
  <2>5. IsError(a)
    BY <2>1, <2>3, <2>4, InterruptIs
  <2>6. a2 = a
    BY <1>3, <2>5, TakeStrict
  <2>7. FirstFail(k, s, o, x, f)
    BY <1>2, <2>1, <2>2 DEF FirstFail
  <2>8. QED BY <1>2, <1>9, <2>1, <2>6, <2>7 DEF Collects, FirstFail
<1>10. CASE ~ IsError(base) /\ ~ \E f \in U : Fails(k, s, o, f)
  <2>1. a = IF \E v \in P : IsUnknown(v) THEN Unknown(Missing(P)) ELSE a
    BY <1>10 DEF Collects
  <2>2. ~ (\E v \in P : IsUnknown(v)) => Gathered(k, s, o, n, a) /\ ~ IsError(a) /\ ~ IsUnknown(a)
    <3>1. SUFFICES ASSUME ~ (\E v \in P : IsUnknown(v))
                   PROVE  Gathered(k, s, o, n, a) /\ ~ IsError(a) /\ ~ IsUnknown(a)
      OBVIOUS
    <3>2. Gathered(k, s, o, n, a)
      BY <1>10, <3>1 DEF Collects
    <3>3. \A v : /\ ~ IsError(Number(v)) /\ ~ IsUnknown(Number(v))
                 /\ ~ IsError(List(v)) /\ ~ IsUnknown(List(v))
                 /\ ~ IsError(Map(v)) /\ ~ IsUnknown(Map(v))
      BY DEF Number, List, Map, IsError, IsUnknown
    <3>4. QED BY <3>2, <3>3 DEF Gathered, Gatherers
  <2>3. (\E v \in P : IsUnknown(v)) =>
          a = Unknown(Missing(P)) /\ a.unknown = Missing(P) /\ IsUnknown(a) /\ ~ IsError(a)
    BY <2>1 DEF Unknown, IsUnknown, IsError
  <2>4. (\E v \in P : IsUnknown(v)) => ~ Complete(s, o, x)
    <3>1. SUFFICES ASSUME NEW v \in P, IsUnknown(v) PROVE ~ Complete(s, o, x)
      OBVIOUS
    <3>2. CASE v = base
      BY <1>7, <3>1, <3>2 DEF Complete
    <3>3. CASE v # base
      <4>1. PICK m \in U : v = s[m].t
        BY <3>3 DEF Parts
      <4>2. m \in After(s, o) /\ m <= x
        BY <1>1, <1>2 DEF Upto
      <4>3. QED BY <3>1, <4>1, <4>2 DEF Complete
    <3>4. QED BY <3>2, <3>3
  <2>5. ~ IsError(a)
    BY <2>2, <2>3
  <2>6. CASE IsError(e)
    <3>1. a2 = e /\ Interrupt(e) = e
      BY <1>3, <2>5, <2>6, TakeStrict DEF Interrupt
    <3>2. Fails(k, s, o, x) /\ x \in Upto(s, o, x)
      BY <1>2, <2>6 DEF Fails
    <3>3. FirstFail(k, s, o, x, x)
      BY <1>1, <1>2, <1>10, <3>2 DEF FirstFail
    <3>4. QED BY <1>10, <3>1, <3>2, <3>3 DEF Collects
  <2>7. CASE ~ IsError(e) /\ (IsUnknown(e) \/ \E v \in P : IsUnknown(v))
    <3>1. ~ Complete(s, o, x)
      BY <1>1, <2>4, <2>7 DEF Complete
    <3>2. ~ \E f \in Upto(s, o, x) : Fails(k, s, o, f)
      BY <1>2, <1>10, <2>7, <3>1 DEF Fails
    <3>3. \E v \in Parts(k, s, o, x) : IsUnknown(v)
      BY <1>4, <2>7
    <3>4. a2 = Unknown(Missing(Parts(k, s, o, x)))
      <4>1. CASE (\E v \in P : IsUnknown(v)) /\ IsUnknown(e)
        <5>1. a2 = Merge(a, e)
          BY <1>3, <2>3, <4>1, TakeStrict
        <5>2. QED BY <1>4, <1>5, <2>3, <4>1, <5>1 DEF Merge
      <4>2. CASE (\E v \in P : IsUnknown(v)) /\ ~ IsUnknown(e)
        <5>1. a2 = a
          BY <1>3, <2>3, <2>7, <4>2, TakeStrict
        <5>2. QED BY <1>4, <1>5, <2>3, <4>2, <5>1
      <4>3. CASE ~ (\E v \in P : IsUnknown(v)) /\ IsUnknown(e)
        <5>1. a2 = e
          BY <1>3, <2>2, <4>3, TakeStrict
        <5>2. Missing(P) = {}
          BY <4>3, MissingNone
        <5>3. e = Unknown(e.unknown)
          BY <1>3, <4>3, OutcomeKinds DEF Unknown
        <5>4. QED BY <1>4, <1>5, <4>3, <5>1, <5>2, <5>3
      <4>4. QED BY <2>7, <4>1, <4>2, <4>3
    <3>5. QED BY <1>10, <3>2, <3>3, <3>4 DEF Collects
  <2>8. CASE ~ IsError(e) /\ ~ IsUnknown(e) /\ ~ \E v \in P : IsUnknown(v)
    <3>1. Complete(s, o, n)
      <4>1. ASSUME NEW m \in After(s, o), m <= n PROVE ~ IsUnknown(s[m].t)
        BY <2>8, <4>1 DEF Parts, Upto
      <4>2. base \in P
        BY DEF Parts
      <4>3. o > 0 => ~ IsUnknown(s[o].p)
        BY <1>7, <2>8, <4>2
      <4>4. QED BY <4>1, <4>3 DEF Complete
    <3>2. IF Fails(k, s, o, x) THEN a2 = NoOverload ELSE Gathered(k, s, o, x, a2)
      BY <2>2, <2>8, <3>1, GatherValue
    <3>3. CASE Fails(k, s, o, x)
      <4>1. a2 = Interrupt(e)
        BY <2>8, <3>2, <3>3 DEF Interrupt
      <4>2. x \in Upto(s, o, x)
        BY <1>2
      <4>3. FirstFail(k, s, o, x, x)
        BY <1>1, <1>2, <1>10, <3>3, <4>2 DEF FirstFail
      <4>4. QED BY <1>10, <3>3, <4>1, <4>2, <4>3 DEF Collects
    <3>4. CASE ~ Fails(k, s, o, x)
      <4>1. ~ \E f \in Upto(s, o, x) : Fails(k, s, o, f)
        BY <1>2, <1>10, <3>4
      <4>2. ~ \E v \in Parts(k, s, o, x) : IsUnknown(v)
        BY <1>4, <2>8
      <4>3. QED BY <1>10, <3>2, <3>4, <4>1, <4>2 DEF Collects
    <3>5. QED BY <3>3, <3>4
  <2>9. QED BY <2>6, <2>7, <2>8
<1>11. QED BY <1>8, <1>9, <1>10

\* One more element, whatever its predicate comes to.
LEMMA GatherMore ==
  ASSUME NEW k \in Gatherers, NEW s, Fits(k, s), NEW n \in Nat, n + 1 <= Len(s),
         NEW o, Odd(s, n, o), NEW a \in Outcome, Collects(k, s, o, n, a)
  PROVE  \E u \in 0..(n + 1) : /\ Odd(s, n + 1, u)
                               /\ Collects(k, s, u, n + 1, StepOf(k, a, s[n + 1], n + 1))
<1> DEFINE x == n + 1
           p == s[n + 1].p
           e == s[n + 1].t
<1>1. s \in Seq(Item) /\ x \in DOMAIN s /\ s[x] \in Item /\ o \in 0..n /\ o \in 0..x /\ x \in Nat /\ x > 0
      /\ o \in Nat /\ x > o /\ DOMAIN s = 1..Len(s)
  BY DEF Fits, Odd
<1>2. p \in Plain /\ e \in Outcome
  BY <1>1, ItemFields
<1>3. StepOf(k, a, s[x], x) = Conditional(p, TakeOf(k, a, e, x), a)
  BY <1>1, StepIs DEF Fits
<1>4. \A m \in 1..x : m \in 1..n \/ m = x
  BY <1>1
<1>5. CASE ~ IsBool(p)
  <2>1. StepOf(k, a, s[x], x) = Interrupt(p)
    BY <1>3, <1>5 DEF Conditional, Interrupt
  <2>2. Odd(s, x, x)
    BY <1>1, <1>5 DEF Odd
  <2>3. Base(k, s, x) = Interrupt(p)
    BY <1>1 DEF Base
  <2>4. Upto(s, x, x) = {}
    <3>1. \A m \in After(s, x) : m \in Nat /\ m > x
      BY <1>1 DEF After
    <3>2. QED BY <1>1, <3>1 DEF Upto
  <2>5. Parts(k, s, x, x) = {Interrupt(p)}
    BY <2>3, <2>4 DEF Parts
  <2>6. ASSUME ~ IsError(Interrupt(p)) PROVE IsUnknown(Interrupt(p)) /\ Interrupt(p) = Unknown(Missing({Interrupt(p)}))
    <3>1. IsUnknown(p) /\ Interrupt(p) = p
      BY <1>2, <2>6, InterruptIs DEF Outcome
    <3>2. p = Unknown(p.unknown)
      BY <1>2, <3>1, PlainKinds
    <3>3. Missing({p}) = p.unknown
      BY <3>1 DEF Missing
    <3>4. QED BY <3>1, <3>2, <3>3
  <2>7. Collects(k, s, x, x, Interrupt(p))
    BY <2>3, <2>4, <2>5, <2>6 DEF Collects
  <2>8. QED BY <1>1, <2>1, <2>2, <2>7
<1>6. CASE p = Bool(FALSE)
  <2>1. StepOf(k, a, s[x], x) = a
    <3>1. \A y, z : Conditional(Bool(FALSE), y, z) = z
      BY ConditionTrue
    <3>2. StepOf(k, a, s[x], x) = Conditional(p, TakeOf(k, a, e, x), a)
      BY <1>3
    <3> HIDE DEF x, p, e
    <3>3. QED BY <1>6, <3>1, <3>2
  <2>2. x \notin After(s, o)
    BY <1>6, PlainValues DEF After
  <2>3. Upto(s, o, x) = Upto(s, o, n)
    BY <1>1, <2>2, UptoMore
  <2>4. Odd(s, x, o)
    BY <1>1, <1>4, <1>6, PlainValues DEF Odd
  <2>5. Collects(k, s, o, x, a)
    BY <2>3 DEF Collects, FirstFail, Parts, Gathered
  <2>6. QED BY <1>1, <2>1, <2>4, <2>5
<1>7. CASE p = Bool(TRUE)
  <2>1. StepOf(k, a, s[x], x) = TakeOf(k, a, e, x)
    BY <1>3, <1>7, ConditionTrue
  <2>2. x \in After(s, o)
    BY <1>1, <1>7 DEF After
  <2>3. Odd(s, x, o)
    BY <1>1, <1>4, <1>7, PlainValues DEF Odd
  <2>4. Collects(k, s, o, x, TakeOf(k, a, e, x))
    BY <1>1, <2>2, GatherTaken DEF Odd
  <2>5. QED BY <1>1, <2>1, <2>3, <2>4
<1>8. QED BY <1>5, <1>6, <1>7 DEF IsBool, Bools

-----------------------------------------------------------------------------
\* The end of the range: what was collected is the declared answer.
LEMMA Counted ==
  ASSUME NEW T \in SUBSET Nat, NEW q \in Seq(Nat), Lists(q, T), NEW m \in 0..Len(q)
  PROVE  Cardinality({q[j] : j \in 1..m}) = m
<1> DEFINE S == {q[j] : j \in 1..m}
           f == [j \in 1..m |-> q[j]]
<1>1. \A j \in 1..m : j \in 1..Len(q) /\ q[j] \in Nat /\ j \in Nat
  OBVIOUS
<1>2. f \in [1..m -> S]
  OBVIOUS
<1>3. ASSUME NEW j \in 1..m, NEW l \in 1..m, f[j] = f[l] PROVE j = l
  <2>1. q[j] = q[l] /\ q[j] \in Nat /\ j \in 1..Len(q) /\ l \in 1..Len(q)
    BY <1>1, <1>3
  <2>2. ~ (j < l) /\ ~ (l < j)
    BY <2>1 DEF Lists
  <2>3. QED BY <1>1, <2>2
<1>4. \A x \in S : \E j \in 1..m : f[j] = x
  OBVIOUS
<1>5. f \in Bijection(1..m, S)
  <2> HIDE DEF f, S
  <2> QED BY <1>2, <1>3, <1>4 DEF Bijection, Injection, Surjection, IsInjective
<1>6. ExistsBijection(1..m, S)
  BY <1>5 DEF ExistsBijection
<1>7. m \in Nat
  OBVIOUS
<1>8. QED BY <1>6, <1>7, FS_CountingElements

LEMMA ListsIs ==
  ASSUME NEW T \in SUBSET Nat, NEW q \in Seq(Nat), Lists(q, T)
  PROVE  q = [m \in 1..Cardinality(T) |-> CHOOSE n \in T : Cardinality({x \in T : x <= n}) = m]
<1>1. Len(q) \in Nat /\ q = [m \in 1..Len(q) |-> q[m]] /\ \A j \in 1..Len(q) : q[j] \in T /\ q[j] \in Nat
  BY DEF Lists
<1>2. Cardinality(T) = Len(q)
  <2>1. T = {q[j] : j \in 1..Len(q)}
    BY DEF Lists
  <2>2. Len(q) \in 0..Len(q)
    BY <1>1
  <2>3. QED BY <2>1, <2>2, Counted
<1>3. ASSUME NEW m \in 1..Len(q)
      PROVE  Cardinality({x \in T : x <= q[m]}) = m
  <2>1. ASSUME NEW x \in T, x <= q[m] PROVE \E j \in 1..m : q[j] = x
    <3>1. PICK j \in 1..Len(q) : q[j] = x
      BY DEF Lists
    <3>2. ~ (m < j)
      <4>1. m < j => q[m] < q[j]
        BY DEF Lists
      <4>2. QED BY <1>1, <2>1, <3>1, <4>1
    <3>3. j \in 1..m
      BY <3>1, <3>2
    <3>4. QED BY <3>1, <3>3
  <2>2. ASSUME NEW j \in 1..m PROVE q[j] \in T /\ q[j] <= q[m]
    <3>1. j \in 1..Len(q) /\ (j = m \/ j < m)
      BY <1>1
    <3>2. j < m => q[j] < q[m]
      BY <3>1 DEF Lists
    <3>3. QED BY <1>1, <3>1, <3>2
  <2>3. {x \in T : x <= q[m]} = {q[j] : j \in 1..m}
    BY <2>1, <2>2
  <2>4. m \in 0..Len(q)
    BY <1>1
  <2>5. QED BY <2>3, <2>4, Counted
<1>4. ASSUME NEW m \in 1..Len(q)
      PROVE  (CHOOSE n \in T : Cardinality({x \in T : x <= n}) = m) = q[m]
  <2>1. ASSUME NEW n \in T, Cardinality({x \in T : x <= n}) = m PROVE n = q[m]
    <3>1. PICK j \in 1..Len(q) : q[j] = n
      BY DEF Lists
    <3>2. Cardinality({x \in T : x <= n}) = j
      BY <1>3, <3>1
    <3>3. QED BY <2>1, <3>1, <3>2
  <2>2. QED BY <1>1, <1>3, <2>1
<1>5. QED BY <1>1, <1>2, <1>4

\* The declared answer's last odd element and those taken are the fold's.
LEMMA TakenIs ==
  ASSUME NEW s \in Seq(Item), NEW o, Odd(s, Len(s), o)
  PROVE  /\ LastOdd(s) = o
         /\ Taken(s) = After(s, o) /\ Upto(s, o, Len(s)) = After(s, o)
<1> DEFINE S == {0} \cup {m \in DOMAIN s : ~ IsBool(s[m].p)}
<1>1. DOMAIN s = 1..Len(s) /\ Len(s) \in Nat /\ o \in 0..Len(s) /\ o \in Nat /\ S \subseteq Nat
  <2>1. DOMAIN s = 1..Len(s) /\ Len(s) \in Nat /\ S \subseteq Nat
    OBVIOUS
  <2>2. QED BY <2>1 DEF Odd
<1>2. o \in S
  <2>1. o # 0 => o \in DOMAIN s /\ ~ IsBool(s[o].p)
    BY <1>1 DEF Odd
  <2>2. QED BY <2>1
<1>3. \A m \in S : m <= o
  BY <1>1 DEF Odd
<1>4. Greatest(S) = o
  <2> HIDE DEF S
  <2>1. \A m \in S : (\A l \in S : l <= m) => m = o
    BY <1>1, <1>2, <1>3
  <2>2. QED BY <1>2, <1>3, <2>1 DEF Greatest
<1>5. LastOdd(s) = o
  BY <1>4 DEF LastOdd
<1>6. Taken(s) = After(s, o)
  BY <1>5 DEF Taken, After
<1>7. \A m \in After(s, o) : m <= Len(s)
  BY <1>1 DEF After
<1>8. QED BY <1>5, <1>6, <1>7 DEF Upto

\* What interrupts the fold is its result.
LEMMA ResultStrict ==
  ASSUME NEW k, NEW a \in Outcome, IsError(a) \/ IsUnknown(a)
  PROVE  ResultOf(k, a) = a
<1>1. ~ IsError(Number(1)) /\ ~ IsUnknown(Number(1)) /\ ~ (IsError(a) /\ IsUnknown(a))
  BY ErrorOrUnknown DEF Number, IsError, IsUnknown
<1>2. QED BY <1>1 DEF ResultOf, Equals, Strict

LEMMA GatherAnswer ==
  ASSUME NEW k \in Gatherers, NEW s, Fits(k, s), NEW o, Odd(s, Len(s), o),
         NEW a \in Outcome, Collects(k, s, o, Len(s), a)
  PROVE  ResultOf(k, a) = Collected(k, s)
<1> DEFINE base == IF LastOdd(s) = 0 THEN InitOf(k) ELSE Interrupt(s[LastOdd(s)].p)
           failed == {n \in Taken(s) : IsError(s[n].t) \/ Clashes(k, s, n)}
           parts == {base} \cup {s[n].t : n \in Taken(s)}
           T == After(s, o)
           N == Len(s)
<1>1. s \in Seq(Item) /\ T \in SUBSET Nat /\ DOMAIN s = 1..N /\ T \subseteq DOMAIN s
  <2>1. s \in Seq(Item)
    BY DEF Fits
  <2>2. T \subseteq DOMAIN s
    BY DEF After
  <2>3. DOMAIN s = 1..N /\ N \in Nat
    BY <2>1
  <2>4. QED BY <2>1, <2>2, <2>3
<1>2. LastOdd(s) = o /\ Taken(s) = T /\ Upto(s, o, N) = T
  BY <1>1, TakenIs
<1>3. base = Base(k, s, o) /\ parts = Parts(k, s, o, N)
  BY <1>2 DEF Base, Parts
<1>4. \A n \in T : Fails(k, s, o, n) <=> IsError(s[n].t) \/ Clashes(k, s, n)
  BY <1>2 DEF Fails, Complete, Refused, Clashes
<1>5. failed = {n \in T : Fails(k, s, o, n)}
  BY <1>2, <1>4
<1>6. Collected(k, s) =
        IF IsError(base) THEN base
        ELSE IF failed # {} THEN Interrupt(s[Least(failed)].t)
        ELSE IF \E v \in parts : IsUnknown(v) THEN Unknown(Missing(parts))
        ELSE CASE k = "exists_one" -> Bool(Cardinality(Taken(s)) = 1)
               [] k \in Transformers -> Map(UNION {KeysOf(k, s, n) : n \in Taken(s)})
               [] k \in Collectors ->
                    List([m \in 1..Cardinality(Taken(s)) |->
                            CHOOSE n \in Taken(s) : Cardinality({x \in Taken(s) : x <= n}) = m])
  BY DEF Collected
<1> HIDE DEF base, failed, parts, T, N
<1>7. CASE IsError(base)
  <2>1. a = base
    BY <1>3, <1>7 DEF Collects, N
  <2>2. QED BY <1>6, <1>7, <2>1, ResultStrict
<1>8. CASE ~ IsError(base) /\ failed # {}
  <2>1. \E f \in Upto(s, o, N) : Fails(k, s, o, f)
    BY <1>2, <1>5, <1>8
  <2>2. PICK f \in Upto(s, o, N) : FirstFail(k, s, o, N, f) /\ a = Interrupt(s[f].t)
    BY <1>3, <1>8, <2>1 DEF Collects, N
  <2>3. f \in failed /\ \A m \in failed : f <= m
    BY <1>2, <1>5, <2>2 DEF FirstFail
  <2>4. failed \in SUBSET Nat
    BY <1>1, <1>5
  <2>5. Least(failed) = f
    <3>1. \A m \in failed : (\A l \in failed : m <= l) => m = f
      BY <2>3, <2>4
    <3>2. QED BY <2>3, <3>1 DEF Least
  <2>6. s[f].t \in Outcome
    <3>1. f \in DOMAIN s
      BY <1>1, <1>2, <2>2
    <3>2. s[f] \in Item
      BY <3>1, s \in Seq(Item) DEF Fits
    <3>3. QED BY <3>2, ItemFields
  <2>7. IsError(a) \/ IsUnknown(a)
    BY <2>2, <2>6, InterruptIs
  <2>8. QED BY <1>6, <1>8, <2>2, <2>5, <2>7, ResultStrict
<1>9. CASE ~ IsError(base) /\ failed = {} /\ \E v \in parts : IsUnknown(v)
  <2>1. ~ \E f \in Upto(s, o, N) : Fails(k, s, o, f)
    BY <1>2, <1>5, <1>9
  <2>2. a = Unknown(Missing(parts))
    BY <1>3, <1>9, <2>1 DEF Collects, N
  <2>3. IsUnknown(a)
    BY <2>2 DEF Unknown, IsUnknown
  <2>4. QED BY <1>6, <1>9, <2>2, <2>3, ResultStrict
<1>10. CASE ~ IsError(base) /\ failed = {} /\ ~ \E v \in parts : IsUnknown(v)
  <2>1. ~ \E f \in Upto(s, o, N) : Fails(k, s, o, f)
    BY <1>2, <1>5, <1>10
  <2>2. Gathered(k, s, o, N, a)
    BY <1>3, <1>10, <2>1 DEF Collects, N
  <2>3. CASE k = "exists_one"
    <3>1. a = Number(Cardinality(T))
      BY <1>2, <2>2, <2>3 DEF Gathered
    <3>2. Collected(k, s) = Bool(Cardinality(T) = 1)
      <4>1. k \notin Transformers /\ k \notin Collectors
        BY <2>3 DEF Collectors, Transformers
      <4>2. QED BY <1>2, <1>6, <1>10, <2>3, <4>1
    <3>3. \A c : Equals(Number(c), Number(1)) = Bool(c = 1)
      <4>1. \A c : ~ IsError(Number(c)) /\ ~ IsUnknown(Number(c)) /\ (Number(c) = Number(1) <=> c = 1)
        BY DEF Number, IsError, IsUnknown
      <4>2. TAKE c
      <4>3. Equals(Number(c), Number(1)) = Bool(Number(c) = Number(1))
        BY <4>1 DEF Equals, Strict
      <4>4. (Number(c) = Number(1)) = (c = 1)
        BY <4>1
      <4>5. QED BY <4>3, <4>4
    <3>4. QED BY <2>3, <3>1, <3>2, <3>3 DEF ResultOf
  <2>4. CASE k \in Transformers
    <3>1. a = Map(UNION {KeysOf(k, s, m) : m \in T})
      BY <1>2, <2>2, <2>4 DEF Gathered
    <3>2. k # "exists_one" /\ k \notin Collectors
      BY <2>4 DEF Collectors, Transformers
    <3>3. Collected(k, s) = Map(UNION {KeysOf(k, s, m) : m \in T})
      BY <1>2, <1>6, <1>10, <2>4, <3>2
    <3>4. QED BY <3>1, <3>2, <3>3 DEF ResultOf
  <2>5. CASE k \in Collectors
    <3>1. PICK q \in Seq(Nat) : a = List(q) /\ Lists(q, T)
      BY <1>2, <2>2, <2>5 DEF Gathered
    <3>2. k # "exists_one" /\ k \notin Transformers
      BY <2>5 DEF Collectors, Transformers
    <3>3. q = [m \in 1..Cardinality(T) |-> CHOOSE n \in T : Cardinality({x \in T : x <= n}) = m]
      BY <1>1, <3>1, ListsIs
    <3>4. Collected(k, s) =
            List([m \in 1..Cardinality(T) |->
                    CHOOSE n \in T : Cardinality({x \in T : x <= n}) = m])
      BY <1>2, <1>6, <1>10, <2>5, <3>2
    <3>5. QED BY <3>1, <3>2, <3>3, <3>4 DEF ResultOf
  <2>6. QED BY <2>3, <2>4, <2>5 DEF Gatherers
<1>11. QED BY <1>7, <1>8, <1>9, <1>10

-----------------------------------------------------------------------------
\* Such a macro's range has the elements its expansion gives it.
LEMMA ElementsFit ==
  ASSUME RangeGiven, IsList(range), kind \in Gatherers
  PROVE  /\ Fits(kind, range.list)
         /\ \A n \in DOMAIN range.list : range.list[n] \in ItemsOf(kind)
<1>1. \A v \in Strays : ~ IsList(v)
  <2>1. \A v \in Plain : ~ IsList(v)
    BY DEF Plain, Bools, Bool, Other, IsList
  <2>2. QED BY <2>1, OutcomeAssumption
<1>2. PICK n \in 0..MaxLen : \E s \in [1..n -> ItemsOf(kind)] : range = List(s)
  <2>1. kind # "bind"
    BY DEF Gatherers, Collectors, Transformers
  <2>2. range \in {List(s) : s \in UNION {[1..n -> ItemsOf(kind)] : n \in 0..MaxLen}}
    BY <1>1, <2>1 DEF RangeGiven, Ranges
  <2>3. QED BY <2>2
<1>3. PICK s \in [1..n -> ItemsOf(kind)] : range = List(s)
  BY <1>2
<1>4. n \in Nat /\ range.list = s
  BY <1>2, <1>3 DEF List
<1>5. ItemsOf(kind) \subseteq Item
  BY OutcomeAssumption, PlainValues DEF ItemsOf, Item, Plain
<1>6. s \in Seq(Item) /\ DOMAIN s = 1..n /\ \A m \in 1..n : s[m] \in ItemsOf(kind)
  BY <1>3, <1>4, <1>5
<1>7. kind \in {"map", "transformMap", "transformMapEntry"} =>
        \A x \in ItemsOf(kind) : x.p = Bool(TRUE)
  BY DEF ItemsOf
<1>8. kind \in {"exists_one", "filter"} => \A x \in ItemsOf(kind) : x.t = Other
  BY DEF ItemsOf
<1>9. QED BY <1>4, <1>6, <1>7, <1>8 DEF Fits

\* The inductive invariant of the macros that collect: the accumulator is what
\* the elements looked at come to, and the loop never stops early.
GatherInv ==
  /\ TypeInv
  /\ RangeGiven
  /\ kind \in Gatherers
  /\ init = InitOf(kind)
  /\ pc \in {"loop", "result"} =>
       \E o \in 0..(i - 1) : Odd(range.list, i - 1, o) /\ Collects(kind, range.list, o, i - 1, accu)
  /\ pc = "result" => i = Len(range.list) + 1
  /\ AnswerDeclared /\ StopsWhenDecided

LEMMA GatherInductive ==
  ASSUME GatherInv, TypeInv', [Next]_vars
  PROVE  GatherInv'
<1>1. TypeInv /\ TypeOK /\ kind \in Gatherers /\ RangeGiven /\ i \in Nat \ {0}
      /\ init = InitOf(kind) /\ kind \notin Quantifiers
  BY DEF GatherInv, TypeInv, TypeOK, Gatherers, Quantifiers, Collectors, Transformers
<1>2. kind' = kind /\ range' = range /\ init' = init
  BY DEF Next, EvalRange, EvalInit, Fold, Leave, EvalResult, vars
<1>3. RangeGiven'
  BY <1>1, <1>2 DEF RangeGiven
<1>4. CASE EvalRange
  <2>1. IsList(range) => ~ IsError(range) /\ ~ IsUnknown(range)
    <3>1. \A v \in Plain : ~ IsList(v)
      BY DEF Plain, Bools, Bool, Other, IsList
    <3>2. \A v \in [list : Seq(Item)] : ~ IsError(v) /\ ~ IsUnknown(v)
      BY DEF IsError, IsUnknown
    <3>3. QED BY <1>1, <3>1, <3>2, OutcomeAssumption DEF TypeOK
  <2>2. pc' \in {"init", "done"} /\ ~ (pc' = "done" /\ IsList(range))
    BY <1>4, <2>1 DEF EvalRange, Settles
  <2>3. QED
    BY <1>1, <1>2, <1>3, <2>2 DEF GatherInv, AnswerDeclared, StopsWhenDecided, Iterated
<1>5. CASE EvalInit
  <2>1. ~ IsError(init) /\ ~ IsUnknown(init)
    BY <1>1, InitIsValue
  <2>2. pc' = "loop" /\ accu' = init /\ i' = i /\ i = 1
    BY <1>1, <1>5, <2>1 DEF EvalInit, TypeOK
  <2>3. Odd(range.list, 0, 0)
    BY DEF Odd
  <2>4. Collects(kind, range.list, 0, 0, InitOf(kind))
    <3>1. Upto(range.list, 0, 0) = {}
      <4>1. range.list \in Seq(Item)
        BY <1>1, <1>5, ListRange DEF EvalInit, TypeOK
      <4>2. \A m \in After(range.list, 0) : m \in Nat /\ m > 0
        BY <4>1 DEF After
      <4>3. QED BY <4>2 DEF Upto
    <3>2. Base(kind, range.list, 0) = InitOf(kind)
      BY DEF Base
    <3>3. Parts(kind, range.list, 0, 0) = {InitOf(kind)}
      BY <3>1, <3>2 DEF Parts
    <3>4. Gathered(kind, range.list, 0, 0, InitOf(kind))
      <4>1. CASE kind = "exists_one"
        BY <3>1, <4>1, FS_EmptySet DEF Gathered, InitOf, Quantifiers, Collectors, Transformers
      <4>2. CASE kind \in Transformers
        BY <3>1, <4>2 DEF Gathered, InitOf, Quantifiers, Collectors, Transformers
      <4>3. CASE kind \in Collectors
        <5>1. InitOf(kind) = List(<<>>)
          BY <4>3 DEF InitOf, Quantifiers, Collectors, Transformers
        <5>2. <<>> \in Seq(Nat) /\ Lists(<<>>, {})
          BY DEF Lists
        <5>3. kind # "exists_one" /\ kind \notin Transformers
          BY <4>3 DEF Collectors, Transformers
        <5>4. QED BY <3>1, <5>1, <5>2, <5>3 DEF Gathered
      <4>4. QED BY <1>1, <4>1, <4>2, <4>3 DEF Gatherers
    <3>5. QED BY <1>1, <2>1, <3>1, <3>2, <3>3, <3>4 DEF Collects
  <2>5. \E o \in 0..(i' - 1) : Odd(range.list, i' - 1, o) /\ Collects(kind, range.list, o, i' - 1, accu')
    BY <1>1, <2>2, <2>3, <2>4
  <2>6. QED
    BY <1>1, <1>2, <1>3, <2>2, <2>5 DEF GatherInv, AnswerDeclared, StopsWhenDecided, Iterated
<1>6. CASE Fold
  <2>1. pc = "loop" /\ pc' = "loop" /\ i' = i + 1 /\ i <= Len(range.list)
        /\ accu' = StepOf(kind, accu, range.list[i], i)
    BY <1>6 DEF Fold, More
  <2>2. accu \in Outcome /\ IsList(range)
    BY <1>1, <2>1 DEF TypeOK
  <2>3. Fits(kind, range.list)
    BY <1>1, <2>2, ElementsFit
  <2>4. PICK o \in 0..(i - 1) : Odd(range.list, i - 1, o) /\ Collects(kind, range.list, o, i - 1, accu)
    BY <2>1 DEF GatherInv
  <2>5. i - 1 \in Nat /\ (i - 1) + 1 = i /\ i' - 1 = i
    BY <1>1, <2>1
  <2>6. \E u \in 0..i : Odd(range.list, i, u)
                        /\ Collects(kind, range.list, u, i, StepOf(kind, accu, range.list[i], i))
    <3> DEFINE n == i - 1
    <3>1. n \in Nat /\ n + 1 = i
      BY <2>5
    <3> HIDE DEF n
    <3>2. \E u \in 0..(n + 1) : /\ Odd(range.list, n + 1, u)
                                /\ Collects(kind, range.list, u, n + 1,
                                            StepOf(kind, accu, range.list[n + 1], n + 1))
      BY <1>1, <2>1, <2>2, <2>3, <2>4, <3>1, GatherMore DEF n
    <3>3. QED BY <3>1, <3>2
  <2>7. QED
    BY <1>1, <1>2, <1>3, <2>1, <2>5, <2>6
    DEF GatherInv, AnswerDeclared, StopsWhenDecided, Iterated
<1>7. CASE Leave
  <2>1. pc = "loop" /\ pc' = "result" /\ i' = i /\ accu' = accu /\ (i <= Len(range.list) => Stops(accu))
    BY <1>7 DEF Leave, More
  <2>2. ~ Stops(accu)
    <3>1. CondOf(kind, accu) = Bool(TRUE)
      BY <1>1 DEF CondOf, Gatherers, Collectors, Transformers
    <3>2. QED BY <3>1, PlainValues DEF Stops
  <2>3. IsList(range) /\ i <= Len(range.list) + 1
    BY <1>1, <2>1 DEF TypeOK
  <2>4. range.list \in Seq(Item)
    BY <1>1, <2>3, ListRange
  <2>5. i = Len(range.list) + 1
    BY <1>1, <2>1, <2>2, <2>3, <2>4
  <2>6. \E o \in 0..(i - 1) : Odd(range.list, i - 1, o) /\ Collects(kind, range.list, o, i - 1, accu)
    BY <2>1 DEF GatherInv
  <2>7. QED
    BY <1>1, <1>2, <1>3, <2>1, <2>5, <2>6 DEF GatherInv, AnswerDeclared, StopsWhenDecided, Iterated
<1>8. CASE EvalResult
  <2>1. pc = "result" /\ pc' = "done" /\ i' = i /\ answer' = ResultOf(kind, accu)
    BY <1>8 DEF EvalResult, Settles
  <2>2. IsList(range) /\ accu \in Outcome
    BY <1>1, <2>1 DEF TypeOK
  <2>3. range.list \in Seq(Item) /\ Fits(kind, range.list)
    BY <1>1, <2>2, ElementsFit, ListRange
  <2>4. i - 1 = Len(range.list)
    BY <1>1, <2>1, <2>3 DEF GatherInv
  <2>5. PICK o \in 0..(i - 1) : Odd(range.list, i - 1, o) /\ Collects(kind, range.list, o, i - 1, accu)
    BY <2>1 DEF GatherInv
  <2>6. ResultOf(kind, accu) = Collected(kind, range.list)
    BY <1>1, <2>2, <2>3, <2>4, <2>5, GatherAnswer
  <2>7. AnswerDeclared'
    BY <1>1, <1>2, <2>1, <2>6 DEF AnswerDeclared, Answer
  <2>8. StopsWhenDecided'
    BY <1>1, <1>2, <2>1, <2>4 DEF StopsWhenDecided
  <2>9. QED
    BY <1>1, <1>2, <1>3, <2>1, <2>7, <2>8 DEF GatherInv
<1>9. CASE UNCHANGED vars
  BY <1>9, <1>3 DEF vars, GatherInv, AnswerDeclared, StopsWhenDecided, Iterated, IsList, TypeInv
<1>10. QED
  BY <1>4, <1>5, <1>6, <1>7, <1>8, <1>9 DEF Next

\* A bind has no element to look at.
LEMMA BindInductive ==
  ASSUME TypeInv, kind = "bind", AnswerDeclared, StopsWhenDecided, [Next]_vars
  PROVE  AnswerDeclared' /\ StopsWhenDecided'
  BY KindKept DEF AnswerDeclared, StopsWhenDecided, Iterated

\* What is invariant whatever the macro.
FoldInv ==
  /\ TypeInv
  /\ kind \in Quantifiers => QuantifierInv
  /\ kind \in Gatherers => GatherInv
  /\ AnswerDeclared /\ StopsWhenDecided

LEMMA FoldInitially == Init => FoldInv
<1>1. Init => AnswerDeclared /\ StopsWhenDecided /\ RangeGiven
  BY DEF Init, AnswerDeclared, StopsWhenDecided, Iterated, RangeGiven
<1>2. Init /\ kind \in Gatherers => init = InitOf(kind)
  BY DEF Init, Gatherers, Collectors, Transformers
<1>3. QED BY <1>1, <1>2, InitType DEF Init, FoldInv, QuantifierInv, GatherInv

LEMMA FoldInductive == FoldInv /\ [Next]_vars => FoldInv'
<1> SUFFICES ASSUME FoldInv, [Next]_vars PROVE FoldInv'
  OBVIOUS
<1>1. TypeInv' /\ kind' = kind
  BY TypeStep, KindKept DEF FoldInv
<1>2. kind \in Quantifiers \/ kind \in Gatherers \/ kind = "bind"
  BY KindAssumption DEF FoldInv, TypeInv, TypeOK, Gatherers
<1>3. kind \in Quantifiers => QuantifierInv'
  BY <1>1, QuantifierInductive DEF FoldInv
<1>4. kind \in Gatherers => GatherInv'
  BY <1>1, GatherInductive DEF FoldInv
<1>5. kind = "bind" => AnswerDeclared' /\ StopsWhenDecided'
  BY BindInductive DEF FoldInv
<1>6. QED BY <1>1, <1>2, <1>3, <1>4, <1>5 DEF FoldInv, QuantifierInv, GatherInv

\* Every macro comes to its declared answer, for ranges of any length and any
\* mix of values, errors and unknowns their elements come to (cel._ev_comp
\* over the nodes the macros expand to).
THEOREM FoldAnswers == Spec => []AnswerDeclared
<1>1. FoldInv => AnswerDeclared
  BY DEF FoldInv
<1>2. QED BY <1>1, FoldInitially, FoldInductive, PTL DEF Spec

\* ... and its loop stops at the element that decides a quantifier, and
\* nowhere else: neither an error nor an unknown ends it early.
THEOREM FoldStops == Spec => []StopsWhenDecided
<1>1. FoldInv => StopsWhenDecided
  BY DEF FoldInv
<1>2. QED BY <1>1, FoldInitially, FoldInductive, PTL DEF Spec

-----------------------------------------------------------------------------
(***************************************************************************)
(* Partial evaluation of the macros that collect.                          *)
(***************************************************************************)
BaseOf(k, s) == IF LastOdd(s) = 0 THEN InitOf(k) ELSE Interrupt(s[LastOdd(s)].p)
FailedOf(k, s) == {n \in Taken(s) : IsError(s[n].t) \/ Clashes(k, s, n)}
PartsOf(k, s) == {BaseOf(k, s)} \cup {s[n].t : n \in Taken(s)}

ValueOf(k, taken, keys) ==
  CASE k = "exists_one" -> Bool(Cardinality(taken) = 1)
    [] k \in Transformers -> Map(keys)
    [] k \in Collectors -> List([m \in 1..Cardinality(taken) |->
                                CHOOSE n \in taken : Cardinality({x \in taken : x <= n}) = m])

LEMMA CollectedIs ==
  ASSUME NEW k, NEW s
  PROVE  Collected(k, s) =
           IF IsError(BaseOf(k, s)) THEN BaseOf(k, s)
           ELSE IF FailedOf(k, s) # {} THEN Interrupt(s[Least(FailedOf(k, s))].t)
           ELSE IF \E v \in PartsOf(k, s) : IsUnknown(v) THEN Unknown(Missing(PartsOf(k, s)))
           ELSE ValueOf(k, Taken(s), UNION {KeysOf(k, s, n) : n \in Taken(s)})
  BY DEF Collected, BaseOf, FailedOf, PartsOf, ValueOf

LEMMA OddIs ==
  ASSUME NEW s \in Seq(Item)
  PROVE  Odd(s, Len(s), LastOdd(s))
<1> DEFINE S == {0} \cup {m \in DOMAIN s : ~ IsBool(s[m].p)}
<1>1. DOMAIN s = 1..Len(s) /\ Len(s) \in Nat /\ S \subseteq 0..Len(s) /\ S # {}
  OBVIOUS
<1>2. \E o \in S : \A m \in S : m <= o
  <2> HIDE DEF S
  <2> QED BY <1>1, GreatestOf
<1>3. LastOdd(s) \in S /\ \A m \in S : m <= LastOdd(s)
  BY <1>2 DEF LastOdd, Greatest
<1>4. LastOdd(s) \in 0..Len(s)
  BY <1>1, <1>3
<1>5. ASSUME NEW m \in 1..Len(s), m > LastOdd(s) PROVE IsBool(s[m].p)
  <2>1. m \notin S
    BY <1>3, <1>4, <1>5
  <2>2. QED BY <1>1, <2>1
<1>6. QED BY <1>3, <1>4, <1>5 DEF Odd

LEMMA LeastIn ==
  ASSUME NEW S, S \subseteq Nat, S # {}
  PROVE  Least(S) \in S
<1>1. \E m \in S : \A l \in S : m <= l
  BY LeastOf
<1>2. QED BY <1>1 DEF Least

\* An element that fails makes the answer an error.
LEMMA FailedIsError ==
  ASSUME NEW k, NEW s \in Seq(Item), IsError(BaseOf(k, s)) \/ FailedOf(k, s) # {}
  PROVE  IsError(Collected(k, s))
<1>1. CASE IsError(BaseOf(k, s))
  BY <1>1, CollectedIs
<1>2. CASE ~ IsError(BaseOf(k, s)) /\ FailedOf(k, s) # {}
  <2> DEFINE failed == FailedOf(k, s)
             f == Least(failed)
  <2>1. failed \subseteq Nat /\ failed \subseteq DOMAIN s
    <3>1. failed \subseteq DOMAIN s
      BY DEF FailedOf, Taken
    <3>2. DOMAIN s \subseteq Nat
      OBVIOUS
    <3>3. QED BY <3>1, <3>2
  <2>2. f \in failed
    BY <1>2, <2>1, LeastIn
  <2>3. f \in Taken(s) /\ (IsError(s[f].t) \/ Clashes(k, s, f)) /\ f \in DOMAIN s /\ f \in Nat
    BY <2>1, <2>2 DEF FailedOf
  <2> HIDE DEF f
  <2>4. s[f].t \in Outcome
    BY <2>3, ItemFields
  <2>5. IsError(s[f].t) \/ ~ IsUnknown(s[f].t)
    BY <2>3 DEF Clashes
  <2>6. IsError(Interrupt(s[f].t))
    BY <2>4, <2>5, InterruptIs
  <2>7. Collected(k, s) = Interrupt(s[f].t)
    BY <1>2, CollectedIs DEF f
  <2>8. QED BY <2>6, <2>7
<1>3. QED BY <1>1, <1>2

\* Only the last odd element and those taken count.
LEMMA OnlyTakenCount ==
  ASSUME NEW k, NEW s, NEW u, LastOdd(u) = LastOdd(s), Taken(u) = Taken(s),
         LastOdd(s) # 0 => u[LastOdd(s)].p = s[LastOdd(s)].p,
         LastOdd(s) \in Nat, Taken(s) \subseteq Nat,
         \A m \in Taken(s) : u[m].t = s[m].t
  PROVE  Collected(k, u) = Collected(k, s)
<1>1. BaseOf(k, u) = BaseOf(k, s)
  BY DEF BaseOf
<1>2. \A m \in Taken(s) : KeysOf(k, u, m) = KeysOf(k, s, m)
  BY DEF KeysOf
<1>3. \A m \in Taken(s) : Clashes(k, u, m) <=> Clashes(k, s, m)
  <2>1. LastOdd(s) > 0 => LastOdd(s) # 0
    OBVIOUS
  <2>2. QED BY <1>2, <2>1 DEF Clashes
<1>4. FailedOf(k, u) = FailedOf(k, s) /\ FailedOf(k, s) \subseteq Taken(s)
  BY <1>3 DEF FailedOf
<1>5. PartsOf(k, u) = PartsOf(k, s)
  BY <1>1 DEF PartsOf
<1>6. FailedOf(k, s) # {} =>
        Interrupt(u[Least(FailedOf(k, u))].t) = Interrupt(s[Least(FailedOf(k, s))].t)
  <2>1. SUFFICES ASSUME FailedOf(k, s) # {} PROVE u[Least(FailedOf(k, s))].t = s[Least(FailedOf(k, s))].t
    BY <1>4
  <2>2. Least(FailedOf(k, s)) \in Taken(s)
    BY <1>4, <2>1, LeastIn
  <2>3. QED BY <2>2
<1>7. UNION {KeysOf(k, u, m) : m \in Taken(u)} = UNION {KeysOf(k, s, m) : m \in Taken(s)}
  BY <1>2
<1>8. QED BY <1>1, <1>4, <1>5, <1>6, <1>7, CollectedIs

\* One more element known leaves an answer as it is, unless it was unknown.
LEMMA CollectedKept ==
  ASSUME NEW k, NEW s \in Seq(Item), NEW n \in DOMAIN s, NEW x \in Item,
         Completes(x, s[n]), ~ IsUnknown(Collected(k, s))
  PROVE  SameAnswer(Collected(k, s), Collected(k, [s EXCEPT ![n] = x]))
<1> DEFINE u == [s EXCEPT ![n] = x]
           o == LastOdd(s)
           N == Len(s)
<1>1. /\ u \in Seq(Item) /\ DOMAIN u = 1..N /\ DOMAIN s = 1..N /\ Len(u) = N /\ N \in Nat
      /\ u[n] = x /\ n \in Nat /\ n > 0
      /\ \A m \in 1..N : m # n => u[m] = s[m]
  OBVIOUS
<1>2. Odd(s, N, o) /\ o \in Nat /\ o \in 0..N /\ (o # 0 => o \in 1..N)
  <2>1. Odd(s, N, o)
    BY OddIs
  <2>2. QED BY <1>1, <2>1 DEF Odd
<1>3. Taken(s) \subseteq 1..N /\ Taken(s) \subseteq Nat
  <2>1. Taken(s) \subseteq DOMAIN s
    BY DEF Taken
  <2>2. DOMAIN s = 1..N /\ DOMAIN s \subseteq Nat
    OBVIOUS
  <2>3. QED BY <2>1, <2>2
<1>4. ASSUME \E v \in PartsOf(k, s) : IsUnknown(v)
      PROVE  IsError(BaseOf(k, s)) \/ FailedOf(k, s) # {}
  <2>1. SUFFICES ASSUME ~ IsError(BaseOf(k, s)), FailedOf(k, s) = {} PROVE FALSE
    OBVIOUS
  <2>2. Collected(k, s) = Unknown(Missing(PartsOf(k, s)))
    BY <1>4, <2>1, CollectedIs
  <2>3. QED BY <2>2 DEF Unknown, IsUnknown
<1>5. ASSUME IsError(BaseOf(k, s)) \/ FailedOf(k, s) # {},
             IsError(BaseOf(k, u)) \/ FailedOf(k, u) # {}
      PROVE  SameAnswer(Collected(k, s), Collected(k, u))
  BY <1>1, <1>5, FailedIsError DEF SameAnswer
<1> HIDE DEF u, o, N
<1>6. CASE n = o /\ IsUnknown(s[o].p)
  <2>1. s[o].p \in Outcome /\ o # 0
    BY <1>1, <1>6, ItemFields DEF Outcome, o
  <2>2. BaseOf(k, s) = s[o].p /\ ~ IsError(BaseOf(k, s))
    BY <1>6, <2>1, InterruptIs DEF BaseOf, o
  <2>3. FailedOf(k, s) # {}
    BY <1>4, <1>6, <2>2 DEF PartsOf
  <2>4. PICK f \in FailedOf(k, s) : TRUE
    BY <2>3
  <2>5. f \in Taken(s) /\ IsError(s[f].t)
    <3>1. ~ Clashes(k, s, f)
      BY <1>2, <1>6, <2>1 DEF Clashes, o
    <3>2. QED BY <2>4, <3>1 DEF FailedOf
  <2>6. f \in 1..N /\ f > o /\ s[f].p = Bool(TRUE)
    BY <1>1, <2>5 DEF Taken, o
  <2>7. u[f] = s[f]
    BY <1>1, <1>2, <1>6, <2>6
  <2>8. Odd(u, N, LastOdd(u)) /\ LastOdd(u) \in 0..N
    <3>1. Odd(u, N, LastOdd(u))
      BY <1>1, OddIs
    <3>2. QED BY <3>1 DEF Odd
  <2>9. LastOdd(u) <= o
    <3>1. SUFFICES ASSUME LastOdd(u) > o PROVE FALSE
      BY <1>1, <1>2, <2>8
    <3>2. LastOdd(u) \in 1..N /\ LastOdd(u) # n /\ LastOdd(u) > 0
      BY <1>1, <1>2, <1>6, <2>8, <3>1
    <3>3. u[LastOdd(u)] = s[LastOdd(u)]
      BY <1>1, <3>2
    <3>4. QED BY <1>2, <2>8, <3>1, <3>2, <3>3 DEF Odd
  <2>10. f \in Taken(u)
    <3>1. f > LastOdd(u)
      BY <1>1, <1>2, <2>6, <2>8, <2>9
    <3>2. QED BY <1>1, <2>6, <2>7, <3>1 DEF Taken
  <2>11. FailedOf(k, u) # {}
    BY <2>5, <2>7, <2>10 DEF FailedOf
  <2>12. QED BY <1>5, <2>3, <2>11 DEF u
<1>7. CASE ~ (n = o /\ IsUnknown(s[o].p))
  <2>1. \A m \in 1..N : m >= o => u[m].p = s[m].p
    <3>1. SUFFICES ASSUME n >= o PROVE u[n].p = s[n].p
      BY <1>1
    <3>2. ~ IsUnknown(s[n].p)
      <4>1. n \in 1..N
        BY <1>1
      <4>2. n > o => IsBool(s[n].p)
        BY <1>2, <4>1 DEF Odd
      <4>3. n > o \/ n = o
        BY <1>1, <1>2, <3>1
      <4>4. s[n].p \in Plain
        BY ItemFields
      <4>5. QED BY <1>7, <4>2, <4>3, <4>4, PlainKinds
    <3>3. QED BY <1>1, <3>2 DEF Completes
  <2>2. o # 0 => u[o].p = s[o].p
    BY <1>2, <2>1
  <2>3. Odd(u, N, o)
    <3>1. \A m \in 1..N : m > o => u[m].p = s[m].p
      BY <1>2, <2>1
    <3>2. QED BY <1>2, <2>2, <3>1 DEF Odd
  <2>4. LastOdd(u) = o
    BY <1>1, <2>3, TakenIs
  <2>5. Taken(u) = Taken(s)
    <3>1. \A m \in 1..N : m > o => u[m].p = s[m].p
      BY <1>2, <2>1
    <3>2. QED BY <1>1, <2>4, <3>1 DEF Taken, o
  <2>6. BaseOf(k, u) = BaseOf(k, s)
    BY <2>2, <2>4 DEF BaseOf, o
  <2>7. CASE \A m \in Taken(s) : u[m].t = s[m].t
    <3>1. Collected(k, u) = Collected(k, s)
      BY <1>2, <1>3, <2>2, <2>4, <2>5, <2>7, OnlyTakenCount DEF o
    <3>2. QED BY <3>1 DEF SameAnswer, u
  <2>8. CASE ~ \A m \in Taken(s) : u[m].t = s[m].t
    <3>1. n \in Taken(s) /\ x.t # s[n].t
      BY <1>1, <1>3, <2>8
    <3>2. IsUnknown(s[n].t)
      BY <3>1 DEF Completes
    <3>3. \A m \in Taken(s) : m # n => u[m].t = s[m].t
      BY <1>1, <1>3
    <3>4. IsError(BaseOf(k, s)) \/ FailedOf(k, s) # {}
      BY <1>4, <3>1, <3>2 DEF PartsOf
    <3>5. ASSUME NEW f \in FailedOf(k, s) PROVE f \in FailedOf(k, u)
      <4>1. f \in Taken(s) /\ f \in Nat /\ (IsError(s[f].t) \/ Clashes(k, s, f))
        BY <1>3 DEF FailedOf
      <4>2. CASE IsError(s[f].t)
        <5>1. s[n].t \in Outcome
          BY ItemFields
        <5>2. f # n
          BY <3>2, <4>2, <5>1, ErrorOrUnknown
        <5>3. QED BY <2>5, <3>3, <4>1, <4>2, <5>2 DEF FailedOf
      <4>3. CASE Clashes(k, s, f)
        <5>1. ~ (n <= f)
          BY <3>1, <3>2, <4>3 DEF Clashes
        <5>2. \A m \in Taken(s) : m <= f => u[m].t = s[m].t
          BY <3>3, <5>1
        <5>3. f <= f /\ \A m \in Taken(s) : m < f => m <= f
          BY <1>3, <4>1
        <5>4. KeysOf(k, u, f) = KeysOf(k, s, f) /\ u[f].t = s[f].t
          BY <4>1, <5>2, <5>3 DEF KeysOf
        <5>5. \A m \in Taken(s) : m < f => KeysOf(k, u, m) = KeysOf(k, s, m)
          BY <5>2, <5>3 DEF KeysOf
        <5>6. o > 0 => u[o].p = s[o].p
          BY <1>2, <2>2
        <5>7. Clashes(k, u, f)
          BY <2>4, <2>5, <4>3, <5>2, <5>4, <5>5, <5>6 DEF Clashes, o
        <5>8. QED BY <2>5, <4>1, <5>7 DEF FailedOf
      <4>4. QED BY <4>1, <4>2, <4>3
    <3>6. IsError(BaseOf(k, u)) \/ FailedOf(k, u) # {}
      BY <2>6, <3>4, <3>5
    <3>7. QED BY <1>5, <3>4, <3>6 DEF u
  <2>9. QED BY <2>7, <2>8
<1>8. QED BY <1>6, <1>7

LEMMA GatherPartial ==
  ASSUME RangeGiven, kind \in Gatherers, AnswerDeclared
  PROVE  SoundWhenPartial
<1> SUFFICES ASSUME Iterated PROVE SoundWhenPartial
  BY DEF SoundWhenPartial
<1> DEFINE s == range.list
<1>1. kind \notin Quantifiers
  BY DEF Gatherers, Quantifiers, Collectors, Transformers
<1>2. s \in Seq(Item) /\ answer = Collected(kind, s)
  BY <1>1, ElementsFit DEF Iterated, AnswerDeclared, Answer, Fits
<1>3. ItemsOf(kind) \subseteq Item
  BY OutcomeAssumption, PlainValues DEF ItemsOf, Item, Plain
<1>4. ASSUME ~ IsUnknown(answer), NEW f \in Futures(kind, s)
      PROVE  SameAnswer(answer, f)
  <2>1. PICK n \in DOMAIN s, x \in ItemsOf(kind) :
          Completes(x, s[n]) /\ f = Answer(kind, [s EXCEPT ![n] = x])
    BY DEF Futures
  <2>2. f = Collected(kind, [s EXCEPT ![n] = x])
    BY <1>1, <2>1 DEF Answer
  <2>3. QED BY <1>2, <1>3, <1>4, <2>1, <2>2, CollectedKept
<1>5. QED BY <1>1, <1>4 DEF SoundWhenPartial

\* An answer that a macro gives while inputs are missing stays the answer, or
\* an error, when one of them becomes known; a quantifier answers unknown only
\* while what is missing could settle it.
THEOREM PartialSound == Spec => []SoundWhenPartial
<1>1. Init => RangeGiven
  BY DEF Init, RangeGiven
<1>2. RangeGiven /\ [Next]_vars => RangeGiven'
  BY DEF RangeGiven, Next, EvalRange, EvalInit, Fold, Leave, EvalResult, vars
<1>3. RangeGiven /\ FoldInv => SoundWhenPartial
  <2>1. SUFFICES ASSUME RangeGiven, FoldInv PROVE SoundWhenPartial
    OBVIOUS
  <2>2. kind \in Quantifiers \/ kind \in Gatherers \/ kind = "bind"
    BY <2>1, KindAssumption DEF FoldInv, TypeInv, TypeOK, Gatherers
  <2>3. kind = "bind" => SoundWhenPartial
    BY DEF SoundWhenPartial, Iterated
  <2>4. QED BY <2>1, <2>2, <2>3, QuantifierPartial, GatherPartial DEF FoldInv
<1>4. QED BY <1>1, <1>2, <1>3, FoldInitially, FoldInductive, PTL DEF Spec
=============================================================================
