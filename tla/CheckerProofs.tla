--------------------------- MODULE CheckerProofs ---------------------------
(***************************************************************************)
(* Proofs about the type checker.                                          *)
(***************************************************************************)
EXTENDS Checker, FiniteSetTheorems, TLAPS

-----------------------------------------------------------------------------
\* A nonempty set of natural numbers has a least element.
LEMMA LeastOf ==
  ASSUME NEW T, T \subseteq Nat, T # {}
  PROVE  \E x \in T : \A y \in T : x <= y
<1>1. \A x, y \in Nat : <<y, x>> \in OpToRel(<, Nat) <=> y < x
  BY DEF OpToRel
<1>2. \E R : /\ IsWellFoundedOn(R, Nat)
             /\ \A x, y \in Nat : <<y, x>> \in R <=> y < x
  BY <1>1, NatLessThanWellFounded
<1>3. PICK R : /\ IsWellFoundedOn(R, Nat)
               /\ \A x, y \in Nat : <<y, x>> \in R <=> y < x
  BY <1>2
<1>4. \E x \in T : \A y \in T : ~ (<<y, x>> \in R)
  BY <1>3, WFMin
<1>5. PICK x \in T : \A y \in T : ~ (<<y, x>> \in R)
  BY <1>4
<1>6. ASSUME NEW y \in T PROVE x <= y
  <2>1. x \in Nat /\ y \in Nat /\ <<y, x>> \notin R
    BY <1>5
  <2>2. ~ (y < x)
    BY <1>3, <2>1
  <2>3. QED BY <2>1, <2>2
<1>7. QED BY <1>6

-----------------------------------------------------------------------------
(***************************************************************************)
(* Types: parts, induction on parts, and what the constructors make.       *)
(***************************************************************************)
LEMMA TermIs ==
  ASSUME NEW k, NEW ps
  PROVE  /\ Term(k, ps).k = k /\ Term(k, ps).n = 0 /\ Term(k, ps).ps = ps
         /\ Term(k, ps).parts = UNION {Parts(ps[i]) : i \in DOMAIN ps}
         /\ IsParam(Term(k, ps)) <=> k = "param"
  BY DEF Term, IsParam

LEMMA ParamIs ==
  ASSUME NEW i
  PROVE  /\ Param(i).k = "param" /\ Param(i).n = i /\ Param(i).ps = <<>>
         /\ Param(i).parts = {} /\ IsParam(Param(i))
         /\ Parts(Param(i)) = {Param(i)} /\ Occurring(Param(i)) = {Param(i)}
  BY DEF Param, IsParam, Parts, Occurring

\* The children of a type.
LEMMA Children ==
  ASSUME NEW t, WellMade(t)
  PROVE  /\ IsParam(t) => t.n \in Int /\ t = Param(t.n) /\ t.parts = {} /\ DOMAIN t.ps = {}
         /\ ~ IsParam(t) =>
              /\ t.k # "none" /\ t = Term(t.k, t.ps) /\ ParamsOf(t)
              /\ IsFiniteSet(t.parts) /\ t \notin t.parts
              /\ t.ps \in Seq(t.parts) /\ Len(t.ps) \in Nat /\ DOMAIN t.ps = 1..Len(t.ps)
              /\ t.parts = UNION {Parts(t.ps[i]) : i \in DOMAIN t.ps}
         /\ \A i \in DOMAIN t.ps : t.ps[i] \in t.parts /\ Parts(t.ps[i]) \subseteq t.parts
<1>1. CASE IsParam(t)
  <2>1. t.n \in Int /\ t = Param(t.n)
    BY <1>1 DEF WellMade
  <2>2. t.parts = {} /\ t.ps = <<>>
    BY <2>1, ParamIs
  <2>3. DOMAIN t.ps = {}
    BY <2>2
  <2>4. QED BY <1>1, <2>1, <2>2, <2>3
<1>2. CASE ~ IsParam(t)
  <2>1. /\ t.k # "none" /\ t = Term(t.k, t.ps)
        /\ t.ps \in Seq(t.parts) /\ IsFiniteSet(t.parts) /\ t \notin t.parts /\ ParamsOf(t)
    BY <1>2 DEF WellMade
  <2>2. t.parts = UNION {Parts(t.ps[i]) : i \in DOMAIN t.ps}
    BY <2>1, TermIs
  <2>3. Len(t.ps) \in Nat /\ DOMAIN t.ps = 1..Len(t.ps)
    BY <2>1
  <2>4. ASSUME NEW i \in DOMAIN t.ps PROVE t.ps[i] \in t.parts /\ Parts(t.ps[i]) \subseteq t.parts
    <3>1. t.ps[i] \in Parts(t.ps[i])
      BY DEF Parts
    <3>2. QED BY <2>2, <3>1
  <2>5. QED BY <1>2, <2>1, <2>2, <2>3, <2>4
<1>3. QED BY <1>1, <1>2

\* Cardinality strictly falls from a term to a child whose parts it includes.
LEMMA Smaller ==
  ASSUME NEW X, IsFiniteSet(X), NEW Y, Y \subseteq X, NEW x \in X, x \notin Y
  PROVE  IsFiniteSet(Y) /\ Cardinality(Y) \in Nat /\ Cardinality(X) \in Nat /\ Cardinality(Y) < Cardinality(X)
<1>1. IsFiniteSet(Y) /\ Cardinality(Y) <= Cardinality(X) /\ (Cardinality(X) = Cardinality(Y) => X = Y)
  BY FS_Subset
<1>2. Cardinality(Y) \in Nat /\ Cardinality(X) \in Nat
  BY <1>1, FS_CardinalityType
<1>3. QED BY <1>1, <1>2

\* Of a nonempty set of terms, one with the fewest parts.
LEMMA Fewest ==
  ASSUME NEW X, X # {}, \A t \in X : IsFiniteSet(t.parts)
  PROVE  \E t \in X : \A u \in X : Cardinality(t.parts) <= Cardinality(u.parts)
<1> DEFINE sizes == {Cardinality(t.parts) : t \in X}
<1>1. sizes \subseteq Nat /\ sizes # {}
  BY FS_CardinalityType
<1>2. PICK c \in sizes : \A d \in sizes : c <= d
  <2> HIDE DEF sizes
  <2> QED BY <1>1, LeastOf
<1>3. QED BY <1>2

LEMMA FiniteParts ==
  ASSUME NEW t, WellMade(t)
  PROVE  IsFiniteSet(t.parts) /\ t \notin t.parts
<1>1. IsParam(t) => t.parts = {} /\ IsFiniteSet({})
  BY Children, FS_EmptySet
<1>2. QED BY <1>1, Children

\* The parts of a part are parts.
LEMMA PartsIn ==
  ASSUME NEW t, IsType(t), NEW u \in Parts(t)
  PROVE  /\ IsType(u) /\ WellMade(u)
         /\ Parts(u) \subseteq Parts(t)
         /\ u \in t.parts => Parts(u) \subseteq t.parts
<1> DEFINE D == {v \in Parts(t) : v.parts \subseteq t.parts}
           Bad == {v \in D : \E w \in v.parts : ~ (w.parts \subseteq v.parts)}
<1>1. \A v \in D : WellMade(v)
  BY DEF IsType
<1>2. ASSUME NEW v \in D, NEW i \in DOMAIN v.ps
      PROVE  v.ps[i] \in D /\ v.ps[i] \in v.parts /\ Parts(v.ps[i]) \subseteq v.parts
  <2>1. v.ps[i] \in v.parts /\ Parts(v.ps[i]) \subseteq v.parts
    BY <1>1, Children
  <2>2. v.ps[i].parts \subseteq Parts(v.ps[i]) /\ t.parts \subseteq Parts(t)
    BY DEF Parts
  <2>3. QED BY <2>1, <2>2
<1>3. Bad = {}
  <2>1. SUFFICES ASSUME Bad # {} PROVE FALSE
    OBVIOUS
  <2>2. \A v \in Bad : IsFiniteSet(v.parts)
    BY <1>1, FiniteParts
  <2>3. PICK v \in Bad : \A w \in Bad : Cardinality(v.parts) <= Cardinality(w.parts)
    <3> HIDE DEF Bad
    <3> QED BY <2>1, <2>2, Fewest
  <2>4. v \in D /\ WellMade(v)
    BY <1>1
  <2>5. PICK w \in v.parts : ~ (w.parts \subseteq v.parts)
    OBVIOUS
  <2>6. ~ IsParam(v)
    BY <2>4, <2>5, Children
  <2>7. PICK i \in DOMAIN v.ps : w \in Parts(v.ps[i])
    BY <2>4, <2>5, <2>6, Children
  <2>8. v.ps[i] \in D /\ v.ps[i] \in v.parts /\ Parts(v.ps[i]) \subseteq v.parts
    BY <1>2, <2>4
  <2>9. w \in v.ps[i].parts /\ v.ps[i].parts \subseteq v.parts
    BY <2>5, <2>7, <2>8 DEF Parts
  <2>10. v.ps[i] \in Bad
    BY <2>5, <2>8, <2>9
  <2>11. v.ps[i] \notin v.ps[i].parts
    BY <1>1, <2>8, FiniteParts
  <2>12. Cardinality(v.ps[i].parts) \in Nat /\ Cardinality(v.parts) \in Nat
         /\ Cardinality(v.ps[i].parts) < Cardinality(v.parts)
    <3> HIDE DEF Bad, D
    <3> QED BY <2>2, <2>8, <2>9, <2>11, Smaller
  <2>13. Cardinality(v.parts) <= Cardinality(v.ps[i].parts)
    BY <2>3, <2>10
  <2>14. QED BY <2>12, <2>13
<1>4. t \in D
  BY DEF Parts
<1>5. ASSUME u \in t.parts PROVE u.parts \subseteq t.parts
  BY <1>3, <1>4, <1>5
<1>6. Parts(u) \subseteq Parts(t) /\ (u \in t.parts => Parts(u) \subseteq t.parts)
  BY <1>5 DEF Parts
<1>7. QED BY <1>6 DEF IsType

\* A nonempty set of types has one none of whose parts is in it.
LEMMA Smallest ==
  ASSUME NEW X, X # {}, \A t \in X : IsType(t)
  PROVE  \E t \in X : \A u \in X : u \notin t.parts
<1>1. \A t \in X : t \in Parts(t) /\ WellMade(t)
  BY DEF IsType, Parts
<1>2. PICK t \in X : \A u \in X : Cardinality(t.parts) <= Cardinality(u.parts)
  BY <1>1, FiniteParts, Fewest
<1>3. ASSUME NEW u \in X, u \in t.parts PROVE FALSE
  <2>1. Parts(u) \subseteq t.parts
    BY <1>3, PartsIn DEF Parts
  <2>2. u.parts \subseteq t.parts /\ u \notin u.parts /\ IsFiniteSet(t.parts)
    BY <1>1, <2>1, FiniteParts DEF Parts
  <2>3. Cardinality(u.parts) \in Nat /\ Cardinality(t.parts) \in Nat /\ Cardinality(u.parts) < Cardinality(t.parts)
    BY <1>3, <2>2, Smaller
  <2>4. QED BY <1>2, <2>3
<1>4. QED BY <1>3

\* Induction on the parts of a type: what holds of a type whenever it holds of
\* its parameters. G is where it holds.
LEMMA OnParts ==
  ASSUME NEW t, IsType(t), NEW G,
         \A u \in Parts(t) : (\A i \in DOMAIN u.ps : u.ps[i] \in G) => u \in G
  PROVE  t \in G
<1> DEFINE Bad == Parts(t) \ G
<1>1. SUFFICES ASSUME Bad # {} PROVE FALSE
  BY DEF Parts
<1>2. \A u \in Bad : IsType(u)
  BY PartsIn
<1>3. PICK u \in Bad : \A v \in Bad : v \notin u.parts
  <2> HIDE DEF Bad
  <2> QED BY <1>1, <1>2, Smallest
<1>4. WellMade(u) /\ Parts(u) \subseteq Parts(t) /\ u.parts \subseteq Parts(u)
  BY PartsIn DEF Parts
<1>5. ASSUME NEW i \in DOMAIN u.ps PROVE u.ps[i] \in G
  <2>1. u.ps[i] \in u.parts
    BY <1>4, Children
  <2>2. QED BY <1>3, <1>4, <2>1
<1>6. QED BY <1>5

LEMMA ChildType ==
  ASSUME NEW t, IsType(t)
  PROVE  /\ WellMade(t) /\ t.parts \subseteq Parts(t)
         /\ \A i \in DOMAIN t.ps :
              /\ IsType(t.ps[i]) /\ t.ps[i] \in t.parts /\ t.ps[i] \in Parts(t)
              /\ Parts(t.ps[i]) \subseteq t.parts
              /\ Occurring(t.ps[i]) \subseteq Occurring(t)
<1>1. t \in Parts(t) /\ t.parts \subseteq Parts(t)
  BY DEF Parts
<1>2. WellMade(t)
  BY <1>1, PartsIn
<1>3. ASSUME NEW i \in DOMAIN t.ps
      PROVE  /\ IsType(t.ps[i]) /\ t.ps[i] \in t.parts /\ t.ps[i] \in Parts(t)
             /\ Parts(t.ps[i]) \subseteq t.parts
             /\ Occurring(t.ps[i]) \subseteq Occurring(t)
  <2>1. t.ps[i] \in t.parts /\ t.ps[i] \in Parts(t)
    BY <1>1, <1>2, Children
  <2>2. IsType(t.ps[i]) /\ Parts(t.ps[i]) \subseteq t.parts
    BY <2>1, PartsIn
  <2>3. QED BY <1>1, <2>1, <2>2 DEF Occurring
<1>4. QED BY <1>1, <1>2, <1>3

\* The variables of a type that is none are those of its parameters.
LEMMA OccursBelow ==
  ASSUME NEW t, IsType(t), ~ IsParam(t)
  PROVE  /\ Occurring(t) = UNION {Occurring(t.ps[i]) : i \in DOMAIN t.ps}
         /\ Occurring(t) \subseteq t.parts
<1>1. t.parts = UNION {Parts(t.ps[i]) : i \in DOMAIN t.ps}
  BY ChildType, Children
<1>2. Occurring(t) = {u \in t.parts : IsParam(u)}
  BY DEF Occurring, Parts
<1>3. QED BY <1>1, <1>2 DEF Occurring

\* The variables of a type are variables.
LEMMA OccurringAre ==
  ASSUME NEW t, IsType(t), NEW p \in Occurring(t)
  PROVE  /\ p \in Parts(t) /\ IsType(p) /\ IsParam(p) /\ p.n \in Int /\ p = Param(p.n)
         /\ Occurring(p) = {p}
<1>1. p \in Parts(t) /\ IsParam(p)
  BY DEF Occurring
<1>2. IsType(p) /\ WellMade(p)
  BY <1>1, PartsIn
<1>3. p.n \in Int /\ p = Param(p.n)
  BY <1>1, <1>2, Children
<1>4. Occurring(p) = {p}
  BY <1>3, ParamIs
<1>5. QED BY <1>1, <1>2, <1>3, <1>4

LEMMA ParamType ==
  ASSUME NEW i \in Int
  PROVE  IsType(Param(i)) /\ IsParam(Param(i)) /\ Occurring(Param(i)) = {Param(i)}
  BY ParamIs DEF IsType, WellMade, Param

LEMMA FiniteUnion ==
  ASSUME NEW len \in Nat, NEW g, \A i \in 1..len : IsFiniteSet(g[i])
  PROVE  IsFiniteSet(UNION {g[i] : i \in 1..len})
<1> DEFINE S == {g[i] : i \in 1..len}
           f == [i \in 1..len |-> g[i]]
<1>1. f \in Surjection(1..len, S)
  BY DEF Surjection
<1>2. IsFiniteSet(1..len)
  <2>1. 1 \in Int /\ len \in Int
    OBVIOUS
  <2>2. QED BY <2>1, FS_Interval
<1>3. IsFiniteSet(S)
  <2> HIDE DEF f, S
  <2> QED BY <1>1, <1>2, FS_Surjection
<1>4. \A T \in S : IsFiniteSet(T)
  OBVIOUS
<1>5. IsFiniteSet(UNION S)
  <2> HIDE DEF S
  <2> QED BY <1>3, <1>4, FS_UNION
<1>6. QED BY <1>5

\* What Term makes of types is a type.
LEMMA TermType ==
  ASSUME NEW k, k # "none", k # "param", NEW ps, IsSeq(ps),
         \A i \in DOMAIN ps : IsType(ps[i]),
         ParamsOf(Term(k, ps))
  PROVE  /\ IsType(Term(k, ps)) /\ ~ IsParam(Term(k, ps))
         /\ Occurring(Term(k, ps)) = UNION {Occurring(ps[i]) : i \in DOMAIN ps}
         /\ Term(k, ps).k = k /\ Term(k, ps).ps = ps
<1> DEFINE T == Term(k, ps)
<1>1. T.k = k /\ T.n = 0 /\ T.ps = ps /\ T.parts = UNION {Parts(ps[i]) : i \in DOMAIN ps} /\ ~ IsParam(T)
  BY TermIs
<1>2. Len(ps) \in Nat /\ DOMAIN ps = 1..Len(ps)
  BY DEF IsSeq
<1> HIDE DEF T
<1>3. \A i \in DOMAIN ps : ps[i] \in T.parts /\ ps[i] \in Parts(ps[i]) /\ ps[i].parts \subseteq Parts(ps[i])
                             /\ Parts(ps[i]) \subseteq T.parts
  BY <1>1 DEF Parts
<1>4. IsFiniteSet(T.parts)
  <2> DEFINE g == [i \in 1..Len(ps) |-> Parts(ps[i])]
  <2>1. \A i \in 1..Len(ps) : IsFiniteSet(g[i])
    <3>1. SUFFICES ASSUME NEW i \in DOMAIN ps PROVE IsFiniteSet(Parts(ps[i]))
      BY <1>2
    <3>2. IsFiniteSet(ps[i].parts)
      BY <1>3, PartsIn, FiniteParts
    <3>3. IsFiniteSet(ps[i].parts \cup {ps[i]})
      BY <3>2, FS_AddElement
    <3>4. Parts(ps[i]) = ps[i].parts \cup {ps[i]}
      BY DEF Parts
    <3>5. QED BY <3>3, <3>4
  <2>2. IsFiniteSet(UNION {g[i] : i \in 1..Len(ps)})
    <3> HIDE DEF g
    <3> QED BY <1>2, <2>1, FiniteUnion
  <2>3. T.parts = UNION {g[i] : i \in 1..Len(ps)}
    BY <1>1, <1>2
  <2>4. QED BY <2>2, <2>3
<1>5. T \notin T.parts
  <2>1. SUFFICES ASSUME T \in T.parts PROVE FALSE
    OBVIOUS
  <2>2. PICK i \in DOMAIN ps : T \in Parts(ps[i])
    BY <1>1, <2>1
  <2>3. IsType(ps[i]) /\ ps[i] \in T.parts /\ WellMade(ps[i])
    BY <1>3, PartsIn
  <2>4. ps[i] \notin ps[i].parts
    BY <2>3, FiniteParts
  <2>5. T \in ps[i].parts
    BY <2>2, <2>3, <2>4 DEF Parts
  <2>6. Parts(T) \subseteq ps[i].parts
    BY <2>2, <2>3, <2>5, PartsIn
  <2>7. QED BY <2>3, <2>4, <2>6 DEF Parts
<1>6. ps \in Seq(T.parts)
  <2>1. Listed(ps) \subseteq T.parts
    BY <1>3 DEF Listed
  <2>2. QED BY <2>1 DEF IsSeq
<1>7. WellMade(T)
  BY <1>1, <1>4, <1>5, <1>6 DEF WellMade, T
<1>8. \A u \in T.parts : WellMade(u)
  <2>1. SUFFICES ASSUME NEW i \in DOMAIN ps, NEW u \in Parts(ps[i]) PROVE WellMade(u)
    BY <1>1
  <2>2. QED BY PartsIn
<1>9. IsType(T)
  BY <1>7, <1>8 DEF IsType, Parts
<1>10. QED BY <1>1, <1>9, OccursBelow DEF T

-----------------------------------------------------------------------------
(***************************************************************************)
(* Substitution. That its recursion comes to an end on an acyclic substi-  *)
(* tution, so that Subst is what its equation says.                        *)
(***************************************************************************)
TypeMap(f) == \A p \in DOMAIN f : IsParam(p) /\ IsType(p) /\ IsType(f[p])
Sound(f) == TypeMap(f) /\ NoCycle(f)

\* What the substitution of u looks at, one equation, and its solutions on D.
After(f, u) ==
  IF IsParam(u) THEN IF u \in DOMAIN f THEN {f[u]} ELSE {}
  ELSE {u.ps[i] : i \in DOMAIN u.ps}
Step(f, d, g, u) ==
  IF IsParam(u) THEN IF u \in DOMAIN f THEN g[f[u]] ELSE IF d THEN DynType ELSE u
  ELSE Term(u.k, [i \in DOMAIN u.ps |-> g[u.ps[i]]])
Closed(f, D) == \A u \in D : IsType(u) /\ After(f, u) \subseteq D
Solves(f, d, g, D) == g = [u \in D |-> Step(f, d, g, u)]

\* A nonempty set of types has one after which none of the set comes.
LEMMA LastOf ==
  ASSUME NEW f, Sound(f), NEW X, X # {}, \A u \in X : IsType(u)
  PROVE  \E u \in X : After(f, u) \cap X = {}
<1>1. SUFFICES ASSUME \A u \in X : After(f, u) \cap X # {} PROVE FALSE
  OBVIOUS
<1> DEFINE S == {p \in X : IsParam(p) /\ p \in DOMAIN f}
           Y == {u \in X : Occurring(u) \cap S = {}}
<1>2. Y = {}
  <2>1. SUFFICES ASSUME Y # {} PROVE FALSE
    OBVIOUS
  <2>2. PICK u \in Y : \A v \in Y : v \notin u.parts
    <3>1. \A v \in Y : IsType(v)
      OBVIOUS
    <3> HIDE DEF Y
    <3>2. QED BY <2>1, <3>1, Smallest
  <2>3. IsType(u) /\ u \in X
    OBVIOUS
  <2>4. ~ IsParam(u)
    <3>1. SUFFICES ASSUME IsParam(u) PROVE FALSE
      OBVIOUS
    <3>2. u \in DOMAIN f
      BY <1>1, <2>3, <3>1 DEF After
    <3>3. u \in Occurring(u)
      BY <3>1 DEF Occurring, Parts
    <3>4. QED BY <2>2, <3>1, <3>2, <3>3
  <2>5. PICK i \in DOMAIN u.ps : u.ps[i] \in X
    BY <1>1, <2>3, <2>4 DEF After
  <2>6. u.ps[i] \in u.parts /\ Occurring(u.ps[i]) \subseteq Occurring(u)
    BY <2>3, ChildType
  <2>7. u.ps[i] \in Y
    BY <2>2, <2>5, <2>6
  <2>8. QED BY <2>2, <2>6, <2>7
<1>3. S # {} /\ S \subseteq DOMAIN f
  BY <1>2
<1>4. PICK p \in S : Occurring(f[p]) \cap S = {}
  BY <1>3 DEF Sound, NoCycle
<1>5. f[p] \in X
  BY <1>1 DEF After
<1>6. QED BY <1>2, <1>4, <1>5

LEMMA StepOn ==
  ASSUME NEW f, NEW d, NEW g, NEW h, NEW u, \A v \in After(f, u) : g[v] = h[v]
  PROVE  Step(f, d, g, u) = Step(f, d, h, u)
<1>1. CASE IsParam(u)
  BY <1>1 DEF Step, After
<1>2. CASE ~ IsParam(u)
  <2>1. \A i \in DOMAIN u.ps : g[u.ps[i]] = h[u.ps[i]]
    BY <1>2 DEF After
  <2>2. [i \in DOMAIN u.ps |-> g[u.ps[i]]] = [i \in DOMAIN u.ps |-> h[u.ps[i]]]
    BY <2>1
  <2>3. QED BY <1>2, <2>2 DEF Step
<1>3. QED BY <1>1, <1>2

LEMMA SolvesAt ==
  ASSUME NEW f, NEW d, NEW g, NEW D, Solves(f, d, g, D)
  PROVE  DOMAIN g = D /\ \A u \in D : g[u] = Step(f, d, g, u)
<1> DEFINE h == [u \in D |-> Step(f, d, g, u)]
<1>1. g = h
  BY DEF Solves
<1>2. DOMAIN h = D /\ \A u \in D : h[u] = Step(f, d, g, u)
  OBVIOUS
<1>3. QED BY <1>1, <1>2

\* Solutions agree.
LEMMA OneSolution ==
  ASSUME NEW f, NEW d, Sound(f), NEW D, NEW E, Closed(f, D), Closed(f, E),
         NEW g, NEW h, Solves(f, d, g, D), Solves(f, d, h, E)
  PROVE  \A u \in D \cap E : g[u] = h[u]
<1> DEFINE X == {u \in D \cap E : g[u] # h[u]}
<1>1. SUFFICES ASSUME X # {} PROVE FALSE
  OBVIOUS
<1>2. PICK u \in X : After(f, u) \cap X = {}
  <2>1. \A u \in X : IsType(u)
    BY DEF Closed
  <2> HIDE DEF X
  <2>2. QED BY <1>1, <2>1, LastOf
<1>3. After(f, u) \subseteq D \cap E
  BY DEF Closed
<1>4. \A v \in After(f, u) : g[v] = h[v]
  BY <1>2, <1>3
<1>5. Step(f, d, g, u) = Step(f, d, h, u)
  BY <1>4, StepOn
<1>6. g[u] = Step(f, d, g, u) /\ h[u] = Step(f, d, h, u)
  BY SolvesAt
<1>7. QED BY <1>2, <1>5, <1>6

\* There is one.
LEMMA SomeSolution ==
  ASSUME NEW f, NEW d, Sound(f), NEW D, Closed(f, D)
  PROVE  \E g : Solves(f, d, g, D)
<1> DEFINE Part(E, g) == E \subseteq D /\ Closed(f, E) /\ Solves(f, d, g, E)
           W == {w \in D : \E E, g : Part(E, g) /\ w \in E}
           F == [w \in W |-> CHOOSE x : \E E, g : Part(E, g) /\ w \in E /\ x = g[w]]
<1>1. ASSUME NEW E, NEW g, Part(E, g), NEW w \in E PROVE w \in W /\ F[w] = g[w]
  <2>1. w \in W
    BY <1>1
  <2>2. PICK E2, g2 : Part(E2, g2) /\ w \in E2 /\ F[w] = g2[w]
    <3>1. \E x : \E E2, g2 : Part(E2, g2) /\ w \in E2 /\ x = g2[w]
      BY <1>1
    <3>2. F[w] = CHOOSE x : \E E2, g2 : Part(E2, g2) /\ w \in E2 /\ x = g2[w]
      BY <2>1
    <3>3. QED BY <3>1, <3>2
  <2>3. g2[w] = g[w]
    BY <1>1, <2>2, OneSolution
  <2>4. QED BY <2>1, <2>2, <2>3
<1>2. ASSUME NEW w \in W PROVE After(f, w) \subseteq W /\ F[w] = Step(f, d, F, w)
  <2>1. PICK E, g : Part(E, g) /\ w \in E
    OBVIOUS
  <2>2. After(f, w) \subseteq E
    BY <2>1 DEF Closed
  <2>3. \A v \in After(f, w) : v \in W /\ F[v] = g[v]
    <3>1. Part(E, g)
      BY <2>1
    <3> HIDE DEF F, W, Part
    <3>2. \A v \in E : v \in W /\ F[v] = g[v]
      BY <1>1, <3>1
    <3>3. QED BY <2>2, <3>2
  <2>4. Step(f, d, F, w) = Step(f, d, g, w)
    <3> HIDE DEF F, W
    <3> QED BY <2>3, StepOn
  <2>5. g[w] = Step(f, d, g, w)
    BY <2>1, SolvesAt
  <2>6. F[w] = g[w]
    BY <1>1, <2>1
  <2>7. QED BY <2>3, <2>4, <2>5, <2>6
<1>3. Closed(f, W)
  <2>1. \A w \in W : IsType(w)
    BY DEF Closed
  <2> HIDE DEF W, F
  <2>2. QED BY <1>2, <2>1 DEF Closed
<1>4. Solves(f, d, F, W)
  <2> DEFINE H == [w \in W |-> Step(f, d, F, w)]
  <2>1. \A w \in W : F[w] = H[w]
    BY <1>2
  <2>2. F = H
    BY <2>1
  <2>3. QED BY <2>2 DEF Solves
<1>5. W = D
  <2> DEFINE X == D \ W
  <2>1. SUFFICES ASSUME X # {} PROVE FALSE
    OBVIOUS
  <2>2. \A u \in X : IsType(u)
    BY DEF Closed
  <2>3. PICK u \in X : After(f, u) \cap X = {}
    <3> HIDE DEF X
    <3> QED BY <2>1, <2>2, LastOf
  <2>4. u \in D /\ u \notin W /\ IsType(u) /\ After(f, u) \subseteq W
    BY <2>2, <2>3 DEF Closed
  <2> DEFINE E == W \cup {u}
             g == [w \in E |-> IF w = u THEN Step(f, d, F, u) ELSE F[w]]
             h == [w \in E |-> Step(f, d, g, w)]
  <2>5. E \subseteq D /\ Closed(f, E)
    BY <1>3, <2>4 DEF Closed
  <2> HIDE DEF F, W
  <2>6. ASSUME NEW w \in E PROVE g[w] = h[w]
    <3>1. After(f, w) \subseteq W
      BY <1>2, <2>4
    <3>2. \A v \in After(f, w) : F[v] = g[v]
      BY <2>4, <3>1
    <3>3. Step(f, d, F, w) = Step(f, d, g, w)
      <4> HIDE DEF g
      <4> QED BY <3>2, StepOn
    <3>4. w # u => F[w] = Step(f, d, F, w)
      BY <1>2
    <3>5. g[w] = Step(f, d, F, w)
      BY <3>4
    <3>6. h[w] = Step(f, d, g, w)
      <4> HIDE DEF g
      <4> QED OBVIOUS
    <3>7. QED BY <3>3, <3>5, <3>6
  <2>7. g = h
    BY <2>6
  <2>8. Solves(f, d, g, E)
    BY <2>7 DEF Solves
  <2>9. u \in W
    BY <2>4, <2>5, <2>8 DEF W
  <2>10. QED BY <2>4, <2>9
<1>6. QED BY <1>4, <1>5

\* The function of Subst, on any set with all that comes after.
Solution(f, d, D) == CHOOSE g : Solves(f, d, g, D)

LEMMA SolutionSolves ==
  ASSUME NEW f, NEW d, Sound(f), NEW D, Closed(f, D)
  PROVE  Solves(f, d, Solution(f, d, D), D)
  BY SomeSolution DEF Solution

LEMMA SubstIs ==
  ASSUME NEW f, NEW d, NEW t
  PROVE  Subst(f, t, d) = Solution(f, d, Below(f, t))[t]
  BY DEF Subst, Solution, Solves, Step

LEMMA BelowClosed ==
  ASSUME NEW f, TypeMap(f), NEW t, IsType(t)
  PROVE  Closed(f, Below(f, t)) /\ t \in Below(f, t)
<1>1. t \in Below(f, t)
  BY DEF Below, Parts
<1>2. ASSUME NEW v, IsType(v), Parts(v) \subseteq Below(f, t), NEW u \in Parts(v)
      PROVE  IsType(u) /\ After(f, u) \subseteq Below(f, t)
  <2>1. IsType(u) /\ Parts(u) \subseteq Below(f, t)
    BY <1>2, PartsIn
  <2>2. CASE IsParam(u)
    <3>1. u \in DOMAIN f => f[u] \in Below(f, t)
      BY DEF Below, Parts
    <3>2. QED BY <2>1, <2>2, <3>1 DEF After
  <2>3. CASE ~ IsParam(u)
    BY <2>1, <2>3, ChildType DEF After
  <2>4. QED BY <2>1, <2>2, <2>3
<1>3. ASSUME NEW u \in Below(f, t) PROVE IsType(u) /\ After(f, u) \subseteq Below(f, t)
  <2>1. CASE u \in Parts(t)
    BY <1>2, <2>1 DEF Below
  <2>2. CASE u \notin Parts(t)
    <3>1. PICK p \in DOMAIN f : u \in Parts(f[p])
      BY <2>2 DEF Below
    <3>2. IsType(f[p]) /\ Parts(f[p]) \subseteq Below(f, t)
      BY DEF TypeMap, Below
    <3>3. QED BY <1>2, <3>1, <3>2
  <2>3. QED BY <2>1, <2>2
<1>4. QED BY <1>1, <1>3 DEF Closed

\* On any closed set.
LEMMA SubstOn ==
  ASSUME NEW f, NEW d, Sound(f), NEW D, Closed(f, D), NEW t \in D
  PROVE  Subst(f, t, d) = Solution(f, d, D)[t]
<1>1. Closed(f, Below(f, t)) /\ t \in Below(f, t)
  BY BelowClosed DEF Closed, Sound
<1>2. Solves(f, d, Solution(f, d, D), D) /\ Solves(f, d, Solution(f, d, Below(f, t)), Below(f, t))
  BY <1>1, SolutionSolves
<1>3. Solution(f, d, D)[t] = Solution(f, d, Below(f, t))[t]
  BY <1>1, <1>2, OneSolution
<1>4. QED BY <1>3, SubstIs

LEMMA SubstStep ==
  ASSUME NEW f, NEW d, Sound(f), NEW t, IsType(t)
  PROVE  \E g : /\ Subst(f, t, d) = Step(f, d, g, t)
                /\ \A v \in After(f, t) : g[v] = Subst(f, v, d)
<1> DEFINE D == Below(f, t)
           g == Solution(f, d, D)
<1>1. Closed(f, D) /\ t \in D
  BY BelowClosed DEF Sound
<1>2. \A u \in D : g[u] = Step(f, d, g, u) /\ Subst(f, u, d) = g[u]
  BY <1>1, SolutionSolves, SolvesAt, SubstOn
<1> HIDE DEF D, g
<1>3. Subst(f, t, d) = Step(f, d, g, t) /\ After(f, t) \subseteq D
  BY <1>1, <1>2 DEF Closed
<1>4. \A v \in After(f, t) : g[v] = Subst(f, v, d)
  BY <1>2, <1>3
<1>5. QED BY <1>3, <1>4

LEMMA SubstBound ==
  ASSUME NEW f, NEW d, Sound(f), NEW t, IsType(t), IsParam(t), t \in DOMAIN f
  PROVE  Subst(f, t, d) = Subst(f, f[t], d)
<1>1. PICK g : /\ Subst(f, t, d) = Step(f, d, g, t)
               /\ \A v \in After(f, t) : g[v] = Subst(f, v, d)
  BY SubstStep
<1>2. QED BY <1>1 DEF Step, After

LEMMA SubstFree ==
  ASSUME NEW f, Sound(f), NEW t, IsType(t), IsParam(t), t \notin DOMAIN f
  PROVE  Subst(f, t, FALSE) = t /\ Subst(f, t, TRUE) = DynType
<1>1. \E g : Subst(f, t, FALSE) = Step(f, FALSE, g, t)
  BY SubstStep
<1>2. \E g : Subst(f, t, TRUE) = Step(f, TRUE, g, t)
  BY SubstStep
<1>3. QED BY <1>1, <1>2 DEF Step

LEMMA SubstTerm ==
  ASSUME NEW f, NEW d, Sound(f), NEW t, IsType(t), ~ IsParam(t)
  PROVE  /\ Subst(f, t, d) = Term(t.k, [i \in DOMAIN t.ps |-> Subst(f, t.ps[i], d)])
         /\ Subst(f, t, d).k = t.k /\ ~ IsParam(Subst(f, t, d))
         /\ Subst(f, t, d).ps = [i \in DOMAIN t.ps |-> Subst(f, t.ps[i], d)]
<1> DEFINE qs == [i \in DOMAIN t.ps |-> Subst(f, t.ps[i], d)]
<1>1. PICK g : /\ Subst(f, t, d) = Step(f, d, g, t)
               /\ \A v \in After(f, t) : g[v] = Subst(f, v, d)
  BY SubstStep
<1>2. \A i \in DOMAIN t.ps : g[t.ps[i]] = Subst(f, t.ps[i], d)
  BY <1>1 DEF After
<1>3. [i \in DOMAIN t.ps |-> g[t.ps[i]]] = qs
  BY <1>2
<1>4. Subst(f, t, d) = Term(t.k, [i \in DOMAIN t.ps |-> g[t.ps[i]]])
  BY <1>1 DEF Step
<1>5. Subst(f, t, d) = Term(t.k, qs)
  BY <1>3, <1>4
<1>6. t.k # "param"
  BY DEF IsParam
<1>7. QED
  <2> HIDE DEF qs
  <2>1. Subst(f, t, d).k = t.k /\ ~ IsParam(Subst(f, t, d)) /\ Subst(f, t, d).ps = qs
    BY <1>5, <1>6, TermIs
  <2>2. QED BY <1>5, <2>1 DEF qs

\* What the provers use of it.
LEMMA SubstChildren ==
  ASSUME NEW f, NEW d, Sound(f), NEW t, IsType(t), ~ IsParam(t)
  PROVE  /\ Subst(f, t, d).k = t.k /\ ~ IsParam(Subst(f, t, d))
         /\ Subst(f, t, d) = Term(t.k, Subst(f, t, d).ps)
         /\ DOMAIN Subst(f, t, d).ps = DOMAIN t.ps
         /\ \A i \in DOMAIN t.ps : Subst(f, t, d).ps[i] = Subst(f, t.ps[i], d)
<1> DEFINE qs == [i \in DOMAIN t.ps |-> Subst(f, t.ps[i], d)]
<1>1. /\ Subst(f, t, d) = Term(t.k, qs) /\ Subst(f, t, d).ps = qs
      /\ Subst(f, t, d).k = t.k /\ ~ IsParam(Subst(f, t, d))
  BY SubstTerm
<1>2. DOMAIN qs = DOMAIN t.ps /\ \A i \in DOMAIN t.ps : qs[i] = Subst(f, t.ps[i], d)
  OBVIOUS
<1> HIDE DEF qs
<1>3. QED BY <1>1, <1>2

LEMMA SubstEqual ==
  ASSUME NEW f, NEW d, NEW g, NEW e, Sound(f), Sound(g),
         NEW t, NEW u, IsType(t), IsType(u), ~ IsParam(t), ~ IsParam(u),
         t.k = u.k, DOMAIN t.ps = DOMAIN u.ps,
         \A i \in DOMAIN t.ps : Subst(f, t.ps[i], d) = Subst(g, u.ps[i], e)
  PROVE  Subst(f, t, d) = Subst(g, u, e)
<1> DEFINE qs == [i \in DOMAIN t.ps |-> Subst(f, t.ps[i], d)]
           rs == [i \in DOMAIN u.ps |-> Subst(g, u.ps[i], e)]
<1>1. Subst(f, t, d) = Term(t.k, qs) /\ Subst(g, u, e) = Term(u.k, rs)
  BY SubstTerm
<1>2. qs = rs
  OBVIOUS
<1> HIDE DEF qs, rs
<1>3. QED BY <1>1, <1>2

\* Induction along the substitution: G is where the claim holds.
LEMMA OnSubst ==
  ASSUME NEW f, Sound(f), NEW t, IsType(t), NEW G,
         \A u \in Below(f, t) : After(f, u) \subseteq G => u \in G
  PROVE  t \in G
<1> DEFINE X == Below(f, t) \ G
<1>1. Closed(f, Below(f, t)) /\ t \in Below(f, t)
  BY BelowClosed DEF Sound
<1>2. SUFFICES ASSUME X # {} PROVE FALSE
  BY <1>1
<1>3. \A u \in X : IsType(u)
  BY <1>1 DEF Closed
<1>4. PICK u \in X : After(f, u) \cap X = {}
  <2> HIDE DEF X
  <2> QED BY <1>2, <1>3, LastOf
<1>5. After(f, u) \subseteq G
  BY <1>1, <1>4 DEF Closed
<1>6. QED BY <1>4, <1>5

-----------------------------------------------------------------------------
(***************************************************************************)
(* What substitution preserves.                                            *)
(***************************************************************************)
Ranges(f) == UNION {Occurring(f[p]) : p \in DOMAIN f}

\* Types without parameters.
LEMMA PlainIs ==
  ASSUME NEW k
  PROVE  /\ Plain(k).k = k /\ Plain(k).ps = <<>> /\ DOMAIN Plain(k).ps = {}
         /\ Plain(k).parts = {} /\ Parts(Plain(k)) = {Plain(k)}
         /\ IsParam(Plain(k)) <=> k = "param"
<1>1. Plain(k).parts = UNION {Parts(<<>>[i]) : i \in DOMAIN <<>>}
  BY TermIs DEF Plain
<1>2. DOMAIN <<>> = {}
  OBVIOUS
<1>3. Plain(k).parts = {}
  BY <1>1, <1>2
<1>4. QED BY <1>2, <1>3, TermIs DEF Plain, Parts

LEMMA PlainType ==
  ASSUME NEW k, k \notin {"none", "param", "list", "optional", "map", "wrapper"}
  PROVE  IsType(Plain(k)) /\ ~ IsParam(Plain(k)) /\ Occurring(Plain(k)) = {}
<1>1. ParamsOf(Plain(k))
  BY PlainIs DEF ParamsOf
<1>2. <<>> \in Seq(Plain(k).parts) /\ IsFiniteSet({}) 
  BY FS_EmptySet
<1>3. WellMade(Plain(k))
  BY <1>1, <1>2, PlainIs DEF WellMade, Plain
<1>4. QED BY <1>3, PlainIs DEF IsType, Occurring

LEMMA SubstPlain ==
  ASSUME NEW f, NEW d, Sound(f), NEW t, IsType(t), t = Plain(t.k), ~ IsParam(t)
  PROVE  Subst(f, t, d) = t
<1> DEFINE qs == [i \in DOMAIN t.ps |-> Subst(f, t.ps[i], d)]
<1>1. t.ps = <<>>
  BY PlainIs
<1>2. qs = <<>>
  BY <1>1
<1>3. Subst(f, t, d) = Term(t.k, qs)
  BY SubstTerm
<1> HIDE DEF qs
<1>4. QED BY <1>2, <1>3 DEF Plain

LEMMA SubstParams ==
  ASSUME NEW f, NEW d, Sound(f), NEW t, IsType(t), ~ IsParam(t)
  PROVE  ParamsOf(Term(t.k, [i \in DOMAIN t.ps |-> Subst(f, t.ps[i], d)]))
<1> DEFINE qs == [i \in DOMAIN t.ps |-> Subst(f, t.ps[i], d)]
           T == Term(t.k, qs)
<1>1. ParamsOf(t) /\ Len(t.ps) \in Nat /\ DOMAIN t.ps = 1..Len(t.ps)
  BY ChildType, Children
<1>2. T.k = t.k /\ T.ps = qs
  BY TermIs
<1>3. qs \in Seq({Subst(f, t.ps[i], d) : i \in DOMAIN t.ps}) /\ Len(qs) = Len(t.ps)
  BY <1>1
<1>4. \A i \in DOMAIN t.ps : qs[i] = Subst(f, t.ps[i], d)
  OBVIOUS
<1> HIDE DEF qs
<1>5. t.ps = <<>> => qs = <<>>
  BY <1>3
<1>6. ASSUME t.k = "wrapper" PROVE Len(qs) = 1 /\ qs[1] = Plain(qs[1].k) /\ ~ IsParam(qs[1])
  <2>1. Len(t.ps) = 1 /\ t.ps[1] = Plain(t.ps[1].k) /\ ~ IsParam(t.ps[1])
    BY <1>1, <1>6 DEF ParamsOf
  <2>2. 1 \in DOMAIN t.ps /\ IsType(t.ps[1])
    BY <1>1, <2>1, ChildType
  <2>3. qs[1] = t.ps[1]
    BY <1>4, <2>1, <2>2, SubstPlain
  <2>4. QED BY <1>3, <2>1, <2>3
<1> HIDE DEF T
<1>7. ParamsOf(T)
  <2>1. CASE t.k \in {"list", "optional"}
    BY <1>1, <1>2, <1>3, <2>1 DEF ParamsOf
  <2>2. CASE t.k = "map"
    BY <1>1, <1>2, <1>3, <2>2 DEF ParamsOf
  <2>3. CASE t.k = "wrapper"
    BY <1>2, <1>6, <2>3 DEF ParamsOf
  <2>4. CASE t.k = "type"
    BY <1>1, <1>2, <1>3, <2>4 DEF ParamsOf
  <2>5. CASE t.k \notin {"list", "optional", "map", "wrapper", "type"}
    BY <1>1, <1>2, <1>5, <2>5 DEF ParamsOf
  <2>6. QED BY <2>1, <2>2, <2>3, <2>4, <2>5
<1>8. QED BY <1>7 DEF T, qs

\* The result is a type, over unbound variables of the type and the bindings.
LEMMA SubstType ==
  ASSUME NEW f, NEW d, d \in {FALSE, TRUE}, Sound(f), NEW t, IsType(t)
  PROVE  /\ IsType(Subst(f, t, d))
         /\ Occurring(Subst(f, t, d)) \subseteq (Occurring(t) \cup Ranges(f)) \ DOMAIN f
         /\ d = TRUE => Occurring(Subst(f, t, d)) = {}
<1> DEFINE Holds(u) == /\ IsType(Subst(f, u, d))
                       /\ Occurring(Subst(f, u, d)) \subseteq (Occurring(u) \cup Ranges(f)) \ DOMAIN f
                       /\ d = TRUE => Occurring(Subst(f, u, d)) = {}
           G == {u \in Below(f, t) : Holds(u)}
<1>1. Closed(f, Below(f, t))
  BY BelowClosed DEF Sound
<1>2. ASSUME NEW u \in Below(f, t), After(f, u) \subseteq G PROVE u \in G
  <2>1. IsType(u)
    BY <1>1 DEF Closed
  <2>2. CASE IsParam(u) /\ u \in DOMAIN f
    <3>1. Subst(f, u, d) = Subst(f, f[u], d)
      BY <2>1, <2>2, SubstBound
    <3>2. Holds(f[u])
      BY <1>2, <2>2 DEF After
    <3>3. Occurring(f[u]) \subseteq Ranges(f)
      BY <2>2 DEF Ranges
    <3>4. QED BY <3>1, <3>2, <3>3
  <2>3. CASE IsParam(u) /\ u \notin DOMAIN f
    <3>1. (d = FALSE /\ Subst(f, u, d) = u) \/ (d = TRUE /\ Subst(f, u, d) = DynType)
      BY <2>1, <2>3, SubstFree
    <3>2. IsType(DynType) /\ Occurring(DynType) = {}
      BY PlainType DEF DynType
    <3>3. Occurring(u) = {u}
      BY <2>1, <2>3, ChildType, Children, ParamIs
    <3>4. d = TRUE => Subst(f, u, d) = DynType
      BY <3>1
    <3>5. Subst(f, u, d) \in {DynType, u}
      BY <3>1
    <3>6. Holds(u)
      BY <2>1, <2>3, <3>2, <3>3, <3>4, <3>5
    <3>7. QED BY <3>6
  <2>4. CASE ~ IsParam(u)
    <3> DEFINE qs == [i \in DOMAIN u.ps |-> Subst(f, u.ps[i], d)]
    <3>1. DOMAIN qs = DOMAIN u.ps /\ \A i \in DOMAIN u.ps : qs[i] = Subst(f, u.ps[i], d)
      OBVIOUS
    <3>2. \A i \in DOMAIN u.ps : Holds(u.ps[i])
      BY <1>2, <2>4 DEF After
    <3>3. u.k # "none" /\ u.k # "param" /\ DOMAIN u.ps = 1..Len(u.ps) /\ Len(u.ps) \in Nat
      BY <2>1, <2>4, ChildType, Children DEF IsParam
    <3>4. IsSeq(qs)
      BY <3>3 DEF IsSeq, Listed
    <3>5. ParamsOf(Term(u.k, qs)) /\ Subst(f, u, d) = Term(u.k, qs)
      <4>1. Subst(f, u, d) = Term(u.k, qs)
        BY <2>1, <2>4, SubstTerm
      <4>2. ParamsOf(Term(u.k, qs))
        BY <2>1, <2>4, SubstParams
      <4>3. QED BY <4>1, <4>2
    <3> HIDE DEF qs
    <3>6. \A i \in DOMAIN qs : IsType(qs[i])
      BY <3>1, <3>2
    <3>7. IsType(Subst(f, u, d)) /\ Occurring(Subst(f, u, d)) = UNION {Occurring(qs[i]) : i \in DOMAIN qs}
      <4>1. LET T == Term(u.k, qs) IN IsType(T) /\ Occurring(T) = UNION {Occurring(qs[i]) : i \in DOMAIN qs}
        BY <3>3, <3>4, <3>5, <3>6, TermType
      <4>2. QED BY <3>5, <4>1
    <3>8. \A i \in DOMAIN u.ps : Occurring(u.ps[i]) \subseteq Occurring(u)
      BY <2>1, ChildType
    <3>9. ASSUME NEW i \in DOMAIN qs
          PROVE  /\ Occurring(qs[i]) \subseteq (Occurring(u) \cup Ranges(f)) \ DOMAIN f
                 /\ d = TRUE => Occurring(qs[i]) = {}
      BY <3>1, <3>2, <3>8
    <3> DEFINE os == {Occurring(qs[i]) : i \in DOMAIN qs}
               bound == (Occurring(u) \cup Ranges(f)) \ DOMAIN f
    <3>10. \A o \in os : o \subseteq bound /\ (d = TRUE => o = {})
      BY <3>9
    <3>11. Occurring(Subst(f, u, d)) = UNION os
      BY <3>7
    <3> HIDE DEF os, bound
    <3>12. UNION os \subseteq bound /\ (d = TRUE => UNION os = {})
      BY <3>10
    <3>13. Holds(u)
      BY <3>7, <3>11, <3>12 DEF bound
    <3>14. QED BY <3>13
  <2>5. QED BY <2>2, <2>3, <2>4
<1>3. t \in G
  <2> HIDE DEF G
  <2> QED BY <1>2, OnSubst
<1>4. QED BY <1>3

\* Substitution that leaves what is unknown.
Value(f, t) == Subst(f, t, FALSE)

LEMMA ValueParam ==
  ASSUME NEW f, Sound(f), NEW t, IsType(t), IsParam(t)
  PROVE  /\ t \in DOMAIN f => Value(f, t) = Value(f, f[t])
         /\ t \notin DOMAIN f => Value(f, t) = t
<1>1. ASSUME NEW d, t \in DOMAIN f PROVE Subst(f, t, d) = Subst(f, f[t], d)
  BY <1>1, SubstBound
<1>2. t \in DOMAIN f => Value(f, t) = Value(f, f[t])
  BY Zenon, <1>1 DEF Value
<1>3. t \notin DOMAIN f => Value(f, t) = t
  BY SubstFree DEF Value
<1>4. QED BY <1>2, <1>3

LEMMA ValueTerm ==
  ASSUME NEW f, Sound(f), NEW t, IsType(t), ~ IsParam(t)
  PROVE  Value(f, t) = Term(t.k, [i \in DOMAIN t.ps |-> Value(f, t.ps[i])])
<1>1. ASSUME NEW d PROVE Subst(f, t, d) = Term(t.k, [i \in DOMAIN t.ps |-> Subst(f, t.ps[i], d)])
  BY SubstTerm
<1>2. QED BY Zenon, <1>1 DEF Value

LEMMA ValueChildren ==
  ASSUME NEW f, Sound(f), NEW t, IsType(t), ~ IsParam(t)
  PROVE  /\ Value(f, t).k = t.k /\ ~ IsParam(Value(f, t))
         /\ Value(f, t) = Term(t.k, Value(f, t).ps)
         /\ DOMAIN Value(f, t).ps = DOMAIN t.ps
         /\ \A i \in DOMAIN t.ps : Value(f, t).ps[i] = Value(f, t.ps[i])
<1>1. ASSUME NEW d
      PROVE  /\ Subst(f, t, d).k = t.k /\ ~ IsParam(Subst(f, t, d))
             /\ Subst(f, t, d) = Term(t.k, Subst(f, t, d).ps)
             /\ DOMAIN Subst(f, t, d).ps = DOMAIN t.ps
             /\ \A i \in DOMAIN t.ps : Subst(f, t, d).ps[i] = Subst(f, t.ps[i], d)
  BY SubstChildren
<1>2. QED BY Zenon, <1>1 DEF Value

LEMMA ValueEqual ==
  ASSUME NEW f, NEW g, Sound(f), Sound(g),
         NEW t, NEW u, IsType(t), IsType(u), ~ IsParam(t), ~ IsParam(u),
         t.k = u.k, DOMAIN t.ps = DOMAIN u.ps,
         \A i \in DOMAIN t.ps : Value(f, t.ps[i]) = Value(g, u.ps[i])
  PROVE  Value(f, t) = Value(g, u)
<1>1. ASSUME NEW d, NEW e, \A i \in DOMAIN t.ps : Subst(f, t.ps[i], d) = Subst(g, u.ps[i], e)
      PROVE  Subst(f, t, d) = Subst(g, u, e)
  BY <1>1, SubstEqual
<1>2. QED BY Zenon, <1>1 DEF Value

LEMMA ValueType ==
  ASSUME NEW f, Sound(f), NEW t, IsType(t)
  PROVE  /\ IsType(Value(f, t))
         /\ Occurring(Value(f, t)) \subseteq (Occurring(t) \cup Ranges(f)) \ DOMAIN f
<1>1. ASSUME NEW d, d \in {FALSE, TRUE}
      PROVE  /\ IsType(Subst(f, t, d))
             /\ Occurring(Subst(f, t, d)) \subseteq (Occurring(t) \cup Ranges(f)) \ DOMAIN f
  BY <1>1, SubstType
<1>2. FALSE \in {FALSE, TRUE}
  OBVIOUS
<1>3. QED BY Zenon, <1>1, <1>2 DEF Value

LEMMA ValuePlain ==
  ASSUME NEW f, Sound(f), NEW t, IsType(t), t = Plain(t.k), ~ IsParam(t)
  PROVE  Value(f, t) = t
<1>1. ASSUME NEW d PROVE Subst(f, t, d) = t
  BY SubstPlain
<1>2. QED BY Zenon, <1>1 DEF Value

\* Without bound variables the type stays as it is.
LEMMA ValueAlone ==
  ASSUME NEW f, Sound(f), NEW t, IsType(t), Occurring(t) \cap DOMAIN f = {}
  PROVE  Value(f, t) = t
<1> DEFINE G == {u \in Parts(t) : Value(f, u) = u}
<1>1. ASSUME NEW u \in Parts(t), \A i \in DOMAIN u.ps : u.ps[i] \in G PROVE u \in G
  <2>1. IsType(u) /\ WellMade(u)
    BY PartsIn
  <2>2. CASE IsParam(u)
    <3>1. u \notin DOMAIN f
      BY <2>2 DEF Occurring
    <3>2. QED BY <2>1, <2>2, <3>1, ValueParam
  <2>3. CASE ~ IsParam(u)
    <3>1. \A i \in DOMAIN u.ps : Value(f, u.ps[i]) = u.ps[i]
      BY <1>1
    <3>2. u = Term(u.k, u.ps) /\ u.ps \in Seq(u.parts)
      BY <2>1, <2>3, Children
    <3>3. u.ps = [i \in DOMAIN u.ps |-> u.ps[i]]
      BY <3>2
    <3> DEFINE qs == [i \in DOMAIN u.ps |-> Value(f, u.ps[i])]
    <3>4. qs = u.ps
      BY <3>1, <3>3
    <3>5. Value(f, u) = Term(u.k, qs)
      BY <2>1, <2>3, ValueTerm
    <3> HIDE DEF qs
    <3>6. QED BY <3>2, <3>4, <3>5
  <2>4. QED BY <2>2, <2>3
<1>2. t \in G
  <2> HIDE DEF G
  <2> QED BY <1>1, OnParts
<1>3. QED BY <1>2

\* Parts go to parts.
LEMMA ValueParts ==
  ASSUME NEW f, Sound(f), NEW t, IsType(t), NEW u \in t.parts
  PROVE  Value(f, u) \in Value(f, t).parts
<1> DEFINE G == {v \in Parts(t) : \A w \in v.parts : Value(f, w) \in Value(f, v).parts}
<1>1. ASSUME NEW v \in Parts(t), \A i \in DOMAIN v.ps : v.ps[i] \in G PROVE v \in G
  <2>1. SUFFICES ASSUME NEW w \in v.parts PROVE Value(f, w) \in Value(f, v).parts
    OBVIOUS
  <2>2. IsType(v) /\ WellMade(v)
    BY PartsIn
  <2>3. ~ IsParam(v)
    BY <2>1, <2>2, Children
  <2>4. PICK i \in DOMAIN v.ps : w \in Parts(v.ps[i])
    BY <2>1, <2>2, <2>3, Children
  <2>5. Value(f, v.ps[i]) = Value(f, v).ps[i] /\ i \in DOMAIN Value(f, v).ps
    BY <2>2, <2>3, ValueChildren
  <2>6. IsType(Value(f, v))
    BY <2>2, ValueType
  <2>7. Parts(Value(f, v.ps[i])) \subseteq Value(f, v).parts
    BY <2>5, <2>6, ChildType
  <2>8. Value(f, w) \in Parts(Value(f, v.ps[i]))
    <3>1. CASE w = v.ps[i]
      BY <3>1 DEF Parts
    <3>2. CASE w \in v.ps[i].parts
      BY <1>1, <3>2 DEF Parts
    <3>3. QED BY <2>4, <3>1, <3>2 DEF Parts
  <2>9. QED BY <2>7, <2>8
<1>2. t \in G
  <2> HIDE DEF G
  <2> QED BY <1>1, OnParts
<1>3. QED BY <1>2

LEMMA ValuePart ==
  ASSUME NEW f, Sound(f), NEW t, IsType(t), NEW u \in Parts(t)
  PROVE  Value(f, u) \in Parts(Value(f, t))
  BY ValueParts DEF Parts

\* Substitutions that agree on the variables of a type agree on the type.
LEMMA ValueAgree ==
  ASSUME NEW f, NEW g, Sound(f), Sound(g), NEW t, IsType(t),
         \A p \in Occurring(t) : Value(f, p) = Value(g, p)
  PROVE  Value(f, t) = Value(g, t)
<1> DEFINE G == {u \in Parts(t) : Value(f, u) = Value(g, u)}
<1>1. ASSUME NEW u \in Parts(t), \A i \in DOMAIN u.ps : u.ps[i] \in G PROVE u \in G
  <2>1. IsType(u)
    BY PartsIn
  <2>2. CASE IsParam(u)
    BY <2>2 DEF Occurring
  <2>3. CASE ~ IsParam(u)
    <3>1. \A i \in DOMAIN u.ps : Value(f, u.ps[i]) = Value(g, u.ps[i])
      BY <1>1
    <3>2. QED BY <2>1, <2>3, <3>1, ValueEqual
  <2>4. QED BY <2>2, <2>3
<1>2. t \in G
  <2> HIDE DEF G
  <2> QED BY <1>1, OnParts
<1>3. QED BY <1>2

\* So does a substitution with one after another.
LEMMA ValueAfter ==
  ASSUME NEW f, NEW g, NEW h, Sound(f), Sound(g), Sound(h), NEW t, IsType(t),
         \A p \in Occurring(t) : Value(h, p) = Value(g, Value(f, p))
  PROVE  Value(h, t) = Value(g, Value(f, t))
<1> DEFINE G == {u \in Parts(t) : Value(h, u) = Value(g, Value(f, u))}
<1>1. ASSUME NEW u \in Parts(t), \A i \in DOMAIN u.ps : u.ps[i] \in G PROVE u \in G
  <2>1. IsType(u)
    BY PartsIn
  <2>2. CASE IsParam(u)
    BY <2>2 DEF Occurring
  <2>3. CASE ~ IsParam(u)
    <3> DEFINE F == Value(f, u)
    <3>1. /\ IsType(F) /\ ~ IsParam(F) /\ F.k = u.k /\ DOMAIN F.ps = DOMAIN u.ps
          /\ \A i \in DOMAIN u.ps : F.ps[i] = Value(f, u.ps[i])
      BY <2>1, <2>3, ValueChildren, ValueType
    <3> HIDE DEF F
    <3>2. \A i \in DOMAIN u.ps : Value(h, u.ps[i]) = Value(g, F.ps[i])
      BY <1>1, <3>1
    <3>3. Value(h, u) = Value(g, F)
      BY <2>1, <2>3, <3>1, <3>2, ValueEqual
    <3>4. QED BY <3>3 DEF F
  <2>4. QED BY <2>2, <2>3
<1>2. t \in G
  <2> HIDE DEF G
  <2> QED BY <1>1, OnParts
<1>3. QED BY <1>2

\* What makes bindings equal does not see whether they have been followed.
LEMMA Followed ==
  ASSUME NEW f, NEW s, Sound(f), Sound(s), NEW t, IsType(t), NEW S, Meets(f, t, S),
         \A p \in S \cap DOMAIN f : Value(s, p) = Value(s, f[p])
  PROVE  Value(s, Value(f, t)) = Value(s, t)
<1> DEFINE G == {u \in Below(f, t) : Occurring(u) \subseteq S =>
                   Value(s, Value(f, u)) = Value(s, u)}
<1>1. Closed(f, Below(f, t))
  BY BelowClosed DEF Sound
<1>2. ASSUME NEW u \in Below(f, t), After(f, u) \subseteq G PROVE u \in G
  <2>1. IsType(u)
    BY <1>1 DEF Closed
  <2>2. SUFFICES ASSUME Occurring(u) \subseteq S
                 PROVE  Value(s, Value(f, u)) = Value(s, u)
    OBVIOUS
  <2>3. CASE IsParam(u) /\ u \in DOMAIN f
    <3>1. u \in S
      BY <2>2, <2>3 DEF Occurring, Parts
    <3>2. Occurring(f[u]) \subseteq S
      BY <2>3, <3>1 DEF Meets
    <3>3. Value(s, Value(f, f[u])) = Value(s, f[u])
      BY <1>2, <2>3, <3>2 DEF After
    <3>4. Value(f, u) = Value(f, f[u])
      BY <2>1, <2>3, ValueParam
    <3>5. QED BY <2>3, <3>1, <3>3, <3>4
  <2>4. CASE IsParam(u) /\ u \notin DOMAIN f
    BY <2>1, <2>4, ValueParam
  <2>5. CASE ~ IsParam(u)
    <3> DEFINE F == Value(f, u)
    <3>1. /\ IsType(F) /\ ~ IsParam(F) /\ F.k = u.k /\ DOMAIN F.ps = DOMAIN u.ps
          /\ \A i \in DOMAIN u.ps : F.ps[i] = Value(f, u.ps[i])
      BY <2>1, <2>5, ValueChildren, ValueType
    <3>2. \A i \in DOMAIN u.ps : Occurring(u.ps[i]) \subseteq S /\ u.ps[i] \in G
      BY <1>2, <2>1, <2>2, <2>5, ChildType DEF After
    <3> HIDE DEF F
    <3>3. \A i \in DOMAIN u.ps : Value(s, F.ps[i]) = Value(s, u.ps[i])
      BY <3>1, <3>2
    <3>4. Value(s, F) = Value(s, u)
      BY <2>1, <2>5, <3>1, <3>3, ValueEqual
    <3>5. QED BY <3>4 DEF F
  <2>6. QED BY <2>3, <2>4, <2>5
<1>3. t \in G
  <2> HIDE DEF G
  <2> QED BY <1>2, OnSubst
<1>4. Occurring(t) \subseteq S
  BY DEF Meets
<1>5. QED BY <1>3, <1>4

-----------------------------------------------------------------------------
(***************************************************************************)
(* The occurs check: what it admits makes no cycle.                        *)
(***************************************************************************)
LEMMA BindAcyclic ==
  ASSUME NEW f, NoCycle(f), NEW p, NEW t, NotRefIn(f, p, t),
         NEW g, DOMAIN g \subseteq DOMAIN f \cup {p},
         \A q \in DOMAIN g : q # p => g[q] = f[q],
         p \in DOMAIN g => g[p] = t
  PROVE  NoCycle(g)
<1>1. PICK C : p \notin C /\ Meets(f, t, C)
  BY DEF NotRefIn
<1>2. SUFFICES ASSUME NEW S, S \subseteq DOMAIN g, S # {}
               PROVE  \E q \in S : Occurring(g[q]) \cap S = {}
  BY DEF NoCycle
<1>3. CASE p \notin S
  <2>1. S \in SUBSET DOMAIN f
    BY <1>2, <1>3
  <2>2. PICK q \in S : Occurring(f[q]) \cap S = {}
    BY <1>2, <2>1 DEF NoCycle
  <2>3. QED BY <1>2, <1>3, <2>2
<1>4. CASE p \in S /\ S \cap C # {}
  <2>1. S \cap C \in SUBSET DOMAIN f
    BY <1>1, <1>2
  <2>2. PICK q \in S \cap C : Occurring(f[q]) \cap (S \cap C) = {}
    BY <1>4, <2>1 DEF NoCycle
  <2>3. Occurring(f[q]) \subseteq C
    BY <1>1, <2>1 DEF Meets
  <2>4. Occurring(f[q]) \cap S = {} /\ g[q] = f[q]
    BY <1>1, <1>2, <2>2, <2>3
  <2>5. QED BY <2>4
<1>5. CASE p \in S /\ S \cap C = {}
  <2>1. Occurring(t) \subseteq C
    BY <1>1 DEF Meets
  <2>2. g[p] = t
    BY <1>2, <1>5
  <2>3. Occurring(g[p]) \cap S = {}
    BY <1>5, <2>1, <2>2
  <2>4. QED BY <1>5, <2>3
<1>6. QED BY <1>3, <1>4, <1>5

\* A bound variable is not met from what it is bound to.
LEMMA NotBack ==
  ASSUME NEW f, NoCycle(f), NEW p \in DOMAIN f
  PROVE  \E S : p \notin S /\ Meets(f, f[p], S)
<1> DEFINE Apart(C) == p \notin C /\ \A q \in C \cap DOMAIN f : Occurring(f[q]) \subseteq C
           Z == UNION {C \in SUBSET Ranges(f) : Apart(C)}
           X == {q \in DOMAIN f : ~ (Occurring(f[q]) \subseteq Z)}
<1>1. Apart(Z) /\ Z \subseteq Ranges(f)
  <2>1. p \notin Z /\ Z \subseteq Ranges(f)
    OBVIOUS
  <2>2. ASSUME NEW q \in Z \cap DOMAIN f PROVE Occurring(f[q]) \subseteq Z
    <3>1. PICK C \in SUBSET Ranges(f) : Apart(C) /\ q \in C
      OBVIOUS
    <3>2. Occurring(f[q]) \subseteq C
      BY <2>2, <3>1
    <3>3. C \subseteq Z
      BY <3>1
    <3>4. QED BY <3>2, <3>3
  <2> HIDE DEF Z
  <2>3. QED BY <2>1, <2>2
<1>2. \A C \in SUBSET Ranges(f) : Apart(C) => C \subseteq Z
  OBVIOUS
<1> HIDE DEF Z
<1>3. SUFFICES ASSUME p \in X PROVE FALSE
  BY <1>1 DEF Meets
<1>4. X \in SUBSET DOMAIN f /\ X # {}
  BY <1>3
<1>5. PICK q \in X : Occurring(f[q]) \cap X = {}
  <2> HIDE DEF X
  <2> QED BY <1>4 DEF NoCycle
<1>6. PICK r \in Occurring(f[q]) : r \notin Z
  BY <1>5
<1>7. r \notin X /\ r # p /\ r \in Ranges(f)
  BY <1>3, <1>4, <1>5, <1>6 DEF Ranges
<1>8. r \in DOMAIN f => Occurring(f[r]) \subseteq Z
  BY <1>7
<1>9. Apart(Z \cup {r})
  BY <1>1, <1>7, <1>8
<1>10. Z \cup {r} \in SUBSET Ranges(f)
  BY <1>1, <1>7
<1>11. Z \cup {r} \subseteq Z
  <2> HIDE DEF Apart
  <2> QED BY <1>2, <1>9, <1>10
<1>12. QED BY <1>6, <1>11

-----------------------------------------------------------------------------
(***************************************************************************)
(* Valuations: types for all variables the checker makes, over others.     *)
(***************************************************************************)
Unknowns == {Param(i) : i \in Nat}
OverUnknowns(t) == IsType(t) /\ Occurring(t) \subseteq Unknowns
Bound(f) == Sound(f) /\ \A p \in DOMAIN f : p \in Unknowns /\ OverUnknowns(f[p])

Valuation(s) ==
  /\ DOMAIN s = Unknowns
  /\ \A p \in Unknowns : IsType(s[p]) /\ Occurring(s[p]) \cap Unknowns = {}

\* It makes the bindings equations.
Obeys(s, f) == \A p \in DOMAIN f : Value(s, p) = Value(s, f[p])

LEMMA UnknownType ==
  ASSUME NEW p \in Unknowns
  PROVE  IsType(p) /\ IsParam(p) /\ Occurring(p) = {p} /\ OverUnknowns(p)
<1>1. PICK i \in Nat : p = Param(i)
  BY DEF Unknowns
<1>2. i \in Int
  OBVIOUS
<1>3. QED BY <1>1, <1>2, ParamType DEF OverUnknowns

LEMMA ApartSound ==
  ASSUME NEW f, TypeMap(f), \A p \in DOMAIN f : Occurring(f[p]) \cap DOMAIN f = {}
  PROVE  Sound(f)
<1>1. NoCycle(f)
  <2>1. SUFFICES ASSUME NEW S, S \subseteq DOMAIN f, S # {}
                 PROVE  \E p \in S : Occurring(f[p]) \cap S = {}
    BY DEF NoCycle
  <2>2. PICK p \in S : TRUE
    BY <2>1
  <2>3. Occurring(f[p]) \cap S = {}
    BY <2>1
  <2>4. QED BY <2>3
<1>2. QED BY <1>1 DEF Sound

LEMMA ValuationSound ==
  ASSUME NEW s, Valuation(s)
  PROVE  Sound(s)
<1>1. TypeMap(s)
  BY UnknownType DEF TypeMap, Valuation
<1>2. QED BY <1>1, ApartSound DEF Valuation

LEMMA ValuationAt ==
  ASSUME NEW s, Valuation(s), NEW p \in Unknowns
  PROVE  Value(s, p) = s[p]
<1>1. Sound(s) /\ p \in DOMAIN s /\ IsType(s[p]) /\ Occurring(s[p]) \cap DOMAIN s = {}
  BY ValuationSound DEF Valuation
<1>2. Value(s, p) = Value(s, s[p])
  BY <1>1, UnknownType, ValueParam
<1>3. QED BY <1>1, <1>2, ValueAlone

LEMMA ValuationType ==
  ASSUME NEW s, Valuation(s), NEW t, OverUnknowns(t)
  PROVE  IsType(Value(s, t)) /\ Occurring(Value(s, t)) \cap Unknowns = {}
<1>1. Sound(s) /\ DOMAIN s = Unknowns
  BY ValuationSound DEF Valuation
<1>2. QED BY <1>1, ValueType DEF OverUnknowns

LEMMA BoundValue ==
  ASSUME NEW f, Bound(f), NEW t, OverUnknowns(t)
  PROVE  OverUnknowns(Value(f, t))
<1>1. Sound(f) /\ IsType(t) /\ Occurring(t) \subseteq Unknowns
  BY DEF Bound, OverUnknowns
<1>2. Ranges(f) \subseteq Unknowns
  BY DEF Bound, Ranges, OverUnknowns
<1>3. QED BY <1>1, <1>2, ValueType DEF OverUnknowns

\* A valuation after the substitution is a valuation that obeys it.
Composed(s, f) == [p \in Unknowns |-> Value(s, Value(f, p))]

LEMMA Through ==
  ASSUME NEW f, Bound(f), NEW s, Valuation(s)
  PROVE  /\ Valuation(Composed(s, f)) /\ Obeys(Composed(s, f), f)
         /\ \A t : OverUnknowns(t) => Value(Composed(s, f), t) = Value(s, Value(f, t))
<1> DEFINE z == Composed(s, f)
<1>1. DOMAIN z = Unknowns /\ \A p \in Unknowns : z[p] = Value(s, Value(f, p))
  BY DEF Composed
<1> HIDE DEF z
<1>2. Valuation(z)
  <2>1. ASSUME NEW p \in Unknowns PROVE IsType(z[p]) /\ Occurring(z[p]) \cap Unknowns = {}
    <3>1. OverUnknowns(Value(f, p))
      BY UnknownType, BoundValue
    <3>2. QED BY <1>1, <3>1, ValuationType
  <2>2. QED BY <1>1, <2>1 DEF Valuation
<1>3. ASSUME NEW t, OverUnknowns(t) PROVE Value(z, t) = Value(s, Value(f, t))
  <2>1. IsType(t) /\ \A p \in Occurring(t) : p \in Unknowns
    BY <1>3 DEF OverUnknowns
  <2>2. \A p \in Occurring(t) : Value(z, p) = Value(s, Value(f, p))
    BY <1>1, <1>2, <2>1, ValuationAt
  <2>3. Sound(f) /\ Sound(s) /\ Sound(z)
    BY <1>2, ValuationSound DEF Bound
  <2>4. QED BY <2>1, <2>2, <2>3, ValueAfter
<1>4. Obeys(z, f)
  <2>1. SUFFICES ASSUME NEW p \in DOMAIN f PROVE Value(z, p) = Value(z, f[p])
    BY DEF Obeys
  <2>2. Sound(f) /\ p \in Unknowns /\ OverUnknowns(p) /\ OverUnknowns(f[p])
    BY UnknownType DEF Bound
  <2>3. Value(f, p) = Value(f, f[p])
    BY <2>2, UnknownType, ValueParam
  <2>4. QED BY <1>3, <2>2, <2>3
<1>5. QED BY <1>2, <1>3, <1>4 DEF z

\* Where a valuation obeys the bindings, following them changes nothing.
LEMMA Obeyed ==
  ASSUME NEW f, Bound(f), NEW s, Valuation(s), Obeys(s, f), NEW t, OverUnknowns(t)
  PROVE  Value(s, Value(f, t)) = Value(s, t)
<1>1. Meets(f, t, Unknowns)
  BY DEF Meets, Bound, OverUnknowns
<1>2. Sound(f) /\ Sound(s)
  BY ValuationSound DEF Bound
<1>3. \A p \in Unknowns \cap DOMAIN f : Value(s, p) = Value(s, f[p])
  BY DEF Obeys
<1>4. QED BY <1>1, <1>2, <1>3, Followed DEF OverUnknowns

(***************************************************************************)
(* The occurs check refuses nothing that could be made equal.              *)
(***************************************************************************)
LEMMA CheckPasses ==
  ASSUME NEW f, Bound(f), NEW s, Valuation(s), Obeys(s, f),
         NEW p \in Unknowns, NEW t, OverUnknowns(t), ~ IsParam(t), Value(s, p) = Value(s, t)
  PROVE  NotRefIn(f, p, t)
<1> DEFINE S == {u \in Below(f, t) : IsParam(u) /\ Value(s, u) \in Value(s, t).parts}
<1>1. /\ Sound(f) /\ Sound(s) /\ TypeMap(f) /\ IsType(t)
      /\ IsType(Value(s, t)) /\ WellMade(Value(s, t))
  BY ValuationSound, ValuationType, ChildType DEF Bound, Sound, OverUnknowns
<1>2. p \notin S
  BY <1>1, FiniteParts
<1>3. Occurring(t) \subseteq S
  <2>1. SUFFICES ASSUME NEW u \in Occurring(t) PROVE u \in S
    OBVIOUS
  <2>2. u \in t.parts /\ IsParam(u) /\ u \in Below(f, t)
    BY <1>1, <2>1, OccursBelow DEF Occurring, Below
  <2>3. Value(s, u) \in Value(s, t).parts
    BY <1>1, <2>2, ValueParts
  <2>4. QED BY <2>2, <2>3
<1>4. ASSUME NEW q \in S \cap DOMAIN f, NEW u \in Occurring(f[q]) PROVE u \in S
  <2>1. IsType(f[q]) /\ u \in Parts(f[q]) /\ IsParam(u) /\ u \in Below(f, t)
    BY <1>1, <1>4 DEF TypeMap, Occurring, Below
  <2>2. Value(s, u) \in Parts(Value(s, f[q]))
    BY <1>1, <2>1, ValuePart
  <2>3. Value(s, f[q]) = Value(s, q)
    BY <1>4 DEF Obeys
  <2>4. Value(s, q) \in Value(s, t).parts
    BY <1>4
  <2>5. Value(s, q) \in Parts(Value(s, t))
    BY <2>4 DEF Parts
  <2>6. Parts(Value(s, q)) \subseteq Value(s, t).parts
    BY <1>1, <2>4, <2>5, PartsIn
  <2>7. QED BY <2>1, <2>2, <2>3, <2>6
<1>5. Meets(f, t, S)
  <2> HIDE DEF S
  <2>1. QED BY <1>3, <1>4 DEF Meets
<1>6. S \in SUBSET ({u \in Below(f, t) : IsParam(u)} \ {p})
  BY <1>2
<1>7. QED
  <2> HIDE DEF S
  <2> QED BY <1>5, <1>6 DEF NotRefIn

LEMMA CheckPassesParam ==
  ASSUME NEW f, NEW p, NEW t, IsParam(t), IsType(t), t # p, t \notin DOMAIN f
  PROVE  NotRefIn(f, p, t)
<1>1. Occurring(t) = {t} /\ t \in Below(f, t)
  BY ChildType, Children, ParamIs DEF Below, Parts
<1>2. Meets(f, t, {t})
  BY <1>1 DEF Meets
<1>3. {t} \in SUBSET ({u \in Below(f, t) : IsParam(u)} \ {p})
  BY <1>1
<1>4. QED BY <1>2, <1>3 DEF NotRefIn

(***************************************************************************)
(* Widening loses nothing: where the bindings make the new type of a vari- *)
(* able equal to it, they still do when the old one is gone.               *)
(***************************************************************************)
LEMMA Widened ==
  ASSUME NEW f, Bound(f), NEW p \in DOMAIN f, NEW t, OverUnknowns(t), NotRefIn(f, p, t),
         \A z : Valuation(z) /\ Obeys(z, f) => Value(z, t) = Value(z, p),
         NEW s, Valuation(s), Value(s, p) = Value(s, t),
         \A q \in DOMAIN f : q # p => Value(s, q) = Value(s, f[q])
  PROVE  Obeys(s, f)
<1>1. Sound(f) /\ Sound(s) /\ OverUnknowns(f[p]) /\ OverUnknowns(p) /\ p \in Unknowns
  BY ValuationSound, UnknownType DEF Bound
<1>2. PICK C : p \notin C /\ Meets(f, t, C)
  BY DEF NotRefIn
<1>3. PICK D : p \notin D /\ Meets(f, f[p], D)
  BY <1>1, NotBack DEF Sound
<1>4. Value(s, Value(f, t)) = Value(s, t)
  BY <1>1, <1>2, Followed DEF OverUnknowns
<1>5. Value(s, Value(f, f[p])) = Value(s, f[p])
  BY <1>1, <1>3, Followed DEF OverUnknowns
<1> DEFINE z == Composed(s, f)
<1>6. Valuation(z) /\ Obeys(z, f) /\ \A u : OverUnknowns(u) => Value(z, u) = Value(s, Value(f, u))
  BY Through
<1> HIDE DEF z
<1>7. Value(z, t) = Value(z, p) /\ Value(z, p) = Value(z, f[p])
  BY <1>6 DEF Obeys
<1>8. Value(s, t) = Value(s, f[p])
  BY <1>1, <1>4, <1>5, <1>6, <1>7
<1>9. QED BY <1>8 DEF Obeys

(***************************************************************************)
(* What every valuation that obeys the bindings makes equal, they make     *)
(* equal: variables stand for themselves, under other names.               *)
(***************************************************************************)
Renames == [p \in Unknowns |-> Param(-1 - p.n)]
Restores == [p \in {Param(-1 - i) : i \in Nat} |-> Param(-1 - p.n)]

LEMMA RenamesBack ==
  /\ Valuation(Renames)
  /\ \A t : OverUnknowns(t) => Value(Restores, Value(Renames, t)) = t
<1> DEFINE Others == {Param(-1 - i) : i \in Nat}
<1>1. ASSUME NEW p \in Unknowns
      PROVE  /\ Renames[p] \in Others /\ IsType(Renames[p]) /\ IsParam(Renames[p])
             /\ Occurring(Renames[p]) = {Renames[p]} /\ Renames[p] \notin Unknowns
             /\ Restores[Renames[p]] = p
  <2>1. PICK i \in Nat : p = Param(i)
    BY DEF Unknowns
  <2>2. p.n = i /\ Renames[p] = Param(-1 - i)
    BY <2>1, ParamIs DEF Renames
  <2>3. Param(-1 - i) \in Others /\ Param(-1 - i).n = -1 - i /\ -1 - i \in Int /\ -1 - (-1 - i) = i
    BY ParamIs
  <2>4. Restores[Param(-1 - i)] = Param(i)
    BY <2>3 DEF Restores
  <2>5. Param(-1 - i) \notin Unknowns
    <3>1. SUFFICES ASSUME NEW j \in Nat, Param(-1 - i) = Param(j) PROVE FALSE
      BY DEF Unknowns
    <3>2. Param(j).n = j /\ Param(-1 - i).n = -1 - i
      BY ParamIs
    <3>3. QED BY <3>1, <3>2
  <2>6. IsType(Param(-1 - i)) /\ IsParam(Param(-1 - i)) /\ Occurring(Param(-1 - i)) = {Param(-1 - i)}
    BY <2>3, ParamType
  <2>7. QED BY <2>1, <2>2, <2>3, <2>4, <2>5, <2>6
<1>2. Valuation(Renames)
  <2>1. DOMAIN Renames = Unknowns
    BY DEF Renames
  <2>2. QED BY <1>1, <2>1 DEF Valuation
<1>3. DOMAIN Restores = Others /\ \A q \in Others : Restores[q] \in Unknowns /\ IsParam(q) /\ IsType(q)
  <2>1. DOMAIN Restores = Others
    BY DEF Restores
  <2>2. ASSUME NEW i \in Nat
        PROVE  Restores[Param(-1 - i)] \in Unknowns /\ IsParam(Param(-1 - i)) /\ IsType(Param(-1 - i))
    <3>1. Param(-1 - i).n = -1 - i /\ -1 - (-1 - i) = i /\ -1 - i \in Int
      BY ParamIs
    <3>2. Restores[Param(-1 - i)] = Param(i)
      BY <3>1 DEF Restores
    <3>3. QED BY <3>1, <3>2, ParamType DEF Unknowns
  <2>3. QED BY <2>1, <2>2
<1> HIDE DEF Others
<1>4. \A q \in Others : q \notin Unknowns
  <2>1. SUFFICES ASSUME NEW i \in Nat, NEW j \in Nat, Param(-1 - i) = Param(j) PROVE FALSE
    BY DEF Unknowns, Others
  <2>2. Param(j).n = j /\ Param(-1 - i).n = -1 - i
    BY ParamIs
  <2>3. QED BY <2>1, <2>2
<1>5. Sound(Restores)
  <2>1. TypeMap(Restores)
    BY <1>3, UnknownType DEF TypeMap
  <2>2. \A q \in Others : Occurring(Restores[q]) = {Restores[q]} /\ Restores[q] \notin Others
    BY <1>3, <1>4, UnknownType
  <2>3. QED BY <1>3, <2>1, <2>2, ApartSound
<1>6. ASSUME NEW p \in Unknowns PROVE Value(Restores, Value(Renames, p)) = p
  <2>1. Value(Renames, p) = Renames[p] /\ Renames[p] \in Others /\ Restores[Renames[p]] = p
    BY <1>1, <1>2, ValuationAt DEF Others
  <2>2. Value(Restores, Renames[p]) = Value(Restores, p)
    BY <1>3, <1>5, <2>1, ValueParam
  <2>3. Value(Restores, p) = p
    BY <1>3, <1>4, <1>5, UnknownType, ValueParam
  <2>4. QED BY <2>1, <2>2, <2>3
<1>7. ASSUME NEW t, OverUnknowns(t) PROVE Value(Restores, Value(Renames, t)) = t
  <2> DEFINE e == [p \in {} |-> p]
  <2>1. DOMAIN e = {}
    OBVIOUS
  <2> HIDE DEF e
  <2>2. Sound(e)
    BY <2>1, ApartSound DEF TypeMap
  <2>3. Value(e, t) = t
    BY <1>7, <2>1, <2>2, ValueAlone DEF OverUnknowns
  <2>4. ASSUME NEW p \in Occurring(t) PROVE Value(e, p) = Value(Restores, Value(Renames, p))
    <3>1. p \in Unknowns
      BY <1>7 DEF OverUnknowns
    <3>2. Value(e, p) = p
      BY <2>1, <2>2, <3>1, UnknownType, ValueParam
    <3>3. QED BY <1>6, <3>1, <3>2
  <2>5. Sound(Renames) /\ IsType(t)
    BY <1>2, <1>7, ValuationSound DEF OverUnknowns
  <2>6. Value(e, t) = Value(Restores, Value(Renames, t))
    BY <1>5, <2>2, <2>4, <2>5, ValueAfter
  <2>7. QED BY <2>3, <2>6
<1>8. QED BY <1>2, <1>7

LEMMA MadeEqual ==
  ASSUME NEW f, Bound(f), NEW t, NEW u, OverUnknowns(t), OverUnknowns(u),
         \A z : Valuation(z) /\ Obeys(z, f) => Value(z, t) = Value(z, u)
  PROVE  Value(f, t) = Value(f, u)
<1> DEFINE z == Composed(Renames, f)
<1>1. Valuation(z) /\ Obeys(z, f) /\ \A v : OverUnknowns(v) => Value(z, v) = Value(Renames, Value(f, v))
  BY RenamesBack, Through
<1> HIDE DEF z
<1>2. Value(z, t) = Value(z, u)
  BY <1>1
<1>3. Value(Renames, Value(f, t)) = Value(Renames, Value(f, u))
  BY <1>1, <1>2
<1>4. OverUnknowns(Value(f, t)) /\ OverUnknowns(Value(f, u))
  BY BoundValue
<1>5. QED BY <1>3, <1>4, RenamesBack

-----------------------------------------------------------------------------
(***************************************************************************)
(* Acyclic. A failed assignment gives back the substitution before it, so  *)
(* that one has to be acyclic too.                                         *)
(***************************************************************************)
Cycles == NoCycle(m) /\ NoCycle(saved)

LEMMA BindNoCycle ==
  ASSUME NoCycle(m), NEW p, NEW t, p \in DOMAIN m \/ NotRefIn(m, p, t)
  PROVE  NoCycle(Bind(p, t))
<1> DEFINE g == Bind(p, t)
<1>1. DOMAIN g = DOMAIN m \cup {p} /\ \A q \in DOMAIN g : g[q] = IF q \in DOMAIN m THEN m[q] ELSE t
  BY DEF Bind
<1> HIDE DEF g
<1>2. CASE p \in DOMAIN m
  <2>1. DOMAIN g = DOMAIN m /\ \A q \in DOMAIN g : g[q] = m[q]
    BY <1>1, <1>2
  <2>2. QED BY <2>1 DEF NoCycle, g
<1>3. CASE p \notin DOMAIN m
  <2>1. \A q \in DOMAIN g : q # p => g[q] = m[q]
    BY <1>1
  <2>2. p \in DOMAIN g => g[p] = t
    BY <1>1, <1>3
  <2>3. NotRefIn(m, p, t)
    BY <1>3
  <2>4. QED BY <1>1, <2>1, <2>2, <2>3, BindAcyclic DEF g
<1>4. QED BY <1>2, <1>3

LEMMA DynNotRef ==
  ASSUME NEW f, NEW p
  PROVE  NotRefIn(f, p, DynType)
<1>1. Occurring(DynType) = {}
  BY PlainType DEF DynType
<1>2. Meets(f, DynType, {})
  BY <1>1 DEF Meets
<1>3. QED BY <1>2 DEF NotRefIn

LEMMA SubstituteNoCycle ==
  ASSUME Cycles, NEW t, NEW p, CanSubstitute(t, p), Substitute(t, p)
  PROVE  NoCycle(m') /\ saved' = saved
<1>1. saved' = saved
  BY DEF Substitute, Continue
<1>2. CASE m' = m
  BY <1>1, <1>2 DEF Cycles
<1>3. CASE ~ (t = p \/ (p \in DOMAIN m /\ m[p] = t)) /\ p \notin DOMAIN m
  <2>1. m' = Bind(p, t) /\ NotRefIn(m, p, t)
    BY <1>3 DEF Substitute, CanSubstitute
  <2>2. QED BY <1>1, <2>1, BindNoCycle DEF Cycles
<1>4. QED BY <1>2, <1>3 DEF Substitute

LEMMA DynNoCycle ==
  ASSUME Cycles, NEW t, BindsDyn(t)
  PROVE  NoCycle(m')
  BY BindNoCycle, DynNotRef DEF BindsDyn, Cycles

LEMMA CyclesStep == Cycles /\ [Next]_vars => Cycles'
<1> SUFFICES ASSUME Cycles, [Next]_vars PROVE NoCycle(m') /\ NoCycle(saved')
  BY DEF Cycles
<1> USE DEF Cycles
<1>1. CASE m' = m /\ (saved' = saved \/ saved' = m)
  BY <1>1
<1>2. CASE Leaf \/ EnterCall \/ EnterList \/ EnterSelect \/ EnterComp
  BY <1>1, <1>2 DEF Leaf, EnterCall, EnterList, EnterSelect, EnterComp, Enter, Idle
<1>3. CASE Logical \/ Join \/ EndList \/ Result \/ Finish \/ Succeed
  BY <1>1, <1>3 DEF Logical, Join, EndList, Result, Finish, Succeed, Idle
<1>4. CASE Accept \/ Descend
  BY <1>1, <1>4 DEF Accept, Descend, Continue
<1>5. CASE Argument
  <2>1. m' = m /\ (saved' = saved \/ saved' = m)
    BY <1>5 DEF Argument, Resolve, Try, Start
  <2>2. QED BY <1>1, <2>1
<1>6. CASE Candidate
  <2>1. m' = m /\ (saved' = saved \/ saved' = m)
    BY <1>6 DEF Candidate, Try, Start, Idle
  <2>2. QED BY <1>1, <2>1
<1>7. CASE Element \/ StepTyped
  BY <1>1, <1>7 DEF Element, StepTyped, Start
<1>8. CASE Body \/ NullaryCall
  <2>1. m' = m /\ saved' = m
    BY <1>8 DEF Body, NullaryCall, Resolve, Try, Start
  <2>2. QED BY <1>1, <2>1
<1>9. CASE Select
  <2>1. saved' = saved /\ (m' = m \/ \E t : BindsDyn(t))
    BY <1>9 DEF Select
  <2>2. QED BY <1>1, <2>1, DynNoCycle
<1>10. CASE RangeTyped
  <2>1. saved' = saved /\ (m' = m \/ \E t : BindsDyn(t))
    BY <1>10 DEF RangeTyped
  <2>2. QED BY <1>1, <2>1, DynNoCycle
<1>11. CASE SubstituteRight
  BY <1>11, SubstituteNoCycle DEF SubstituteRight
<1>12. CASE SubstituteLeft
  BY <1>12, SubstituteNoCycle DEF SubstituteLeft
<1>13. CASE WidenBinding
  <2>1. PICK t : m' = IF NotRefIn(m, Task.t2, t) THEN [m EXCEPT ![Task.t2] = t] ELSE m
    BY <1>13 DEF WidenBinding
  <2>2. saved' = saved
    BY <1>13 DEF WidenBinding, Continue
  <2>3. CASE NotRefIn(m, Task.t2, t)
    <3>1. /\ DOMAIN m' = DOMAIN m
          /\ \A q \in DOMAIN m' : q # Task.t2 => m'[q] = m[q]
          /\ Task.t2 \in DOMAIN m' => m'[Task.t2] = t
      BY <2>1, <2>3
    <3>2. QED BY <2>2, <2>3, <3>1, BindAcyclic
  <2>4. CASE m' = m
    BY <1>1, <2>2, <2>4
  <2>5. QED BY <2>1, <2>3, <2>4
<1>14. CASE GiveUp
  BY <1>14 DEF GiveUp
<1>15. CASE UNCHANGED vars
  BY <1>1, <1>15 DEF vars
<1>16. QED
  BY <1>2, <1>3, <1>4, <1>5, <1>6, <1>7, <1>8, <1>9, <1>10, <1>11, <1>12, <1>13, <1>14, <1>15 DEF Next

\* cel._ck_not_ref_in guards every binding and every widening, so neither the
\* substitution nor the one a failed assignment goes back to has a cycle.
THEOREM SpecCycles == Spec => []Cycles
<1>1. Init => Cycles
  BY DEF Init, Cycles, NoCycle
<1>2. QED BY <1>1, CyclesStep, PTL DEF Spec

\* The loops that follow bindings, in cel._ck_subst and in the occurs check
\* itself, come to an end, whatever the expression and the signatures.
THEOREM SpecAcyclic == Spec => []Acyclic
<1>1. Cycles => Acyclic
  BY DEF Cycles, Acyclic
<1>2. QED BY <1>1, SpecCycles, PTL

-----------------------------------------------------------------------------
(***************************************************************************)
(* Sequences.                                                              *)
(***************************************************************************)
LEMMA SeqIs ==
  ASSUME NEW T, NEW s \in Seq(T)
  PROVE  IsSeq(s) /\ Len(s) \in Nat /\ DOMAIN s = 1..Len(s)
<1>1. \A i \in DOMAIN s : s[i] \in Listed(s)
  BY DEF Listed
<1>2. QED BY <1>1 DEF IsSeq

LEMMA SeqLen ==
  ASSUME NEW s, IsSeq(s)
  PROVE  /\ Len(s) \in Nat /\ DOMAIN s = 1..Len(s)
         /\ s # <<>> <=> Len(s) # 0
  BY DEF IsSeq

LEMMA SeqMade ==
  ASSUME NEW len \in Nat, NEW s, s = [i \in 1..len |-> s[i]]
  PROVE  IsSeq(s) /\ Len(s) = len
<1> DEFINE T == {s[i] : i \in 1..len}
<1>1. s \in Seq(T)
  OBVIOUS
<1>2. DOMAIN s = 1..len
  OBVIOUS
<1> HIDE DEF T
<1>3. IsSeq(s) /\ DOMAIN s = 1..Len(s) /\ Len(s) \in Nat
  BY <1>1, SeqIs
<1>4. QED BY <1>2, <1>3

LEMMA SeqJoin ==
  ASSUME NEW s, NEW r, IsSeq(s), IsSeq(r)
  PROVE  /\ IsSeq(s \o r) /\ Len(s \o r) = Len(s) + Len(r)
         /\ \A i \in DOMAIN s : (s \o r)[i] = s[i]
         /\ \A i \in DOMAIN r : (s \o r)[Len(s) + i] = r[i]
         /\ \A i \in DOMAIN (s \o r) : i \in DOMAIN s \/ (i > Len(s) /\ i - Len(s) \in DOMAIN r /\ (s \o r)[i] = r[i - Len(s)])
<1> DEFINE T == Listed(s) \cup Listed(r)
<1>1. s \in Seq(T) /\ r \in Seq(T)
  BY DEF IsSeq
<1> HIDE DEF T
<1>2. s \o r \in Seq(T) /\ Len(s \o r) = Len(s) + Len(r)
  BY <1>1
<1>3. IsSeq(s \o r)
  BY <1>2, SeqIs
<1>4. QED BY <1>1, <1>2, <1>3

LEMMA SeqOne ==
  ASSUME NEW x
  PROVE  IsSeq(<<x>>) /\ Len(<<x>>) = 1 /\ DOMAIN <<x>> = {1} /\ <<x>>[1] = x
<1>1. <<x>> \in Seq({x}) /\ Len(<<x>>) = 1 /\ <<x>>[1] = x
  OBVIOUS
<1>2. IsSeq(<<x>>) /\ DOMAIN <<x>> = 1..Len(<<x>>)
  BY <1>1, SeqIs
<1>3. 1..1 = {1}
  OBVIOUS
<1>4. QED BY <1>1, <1>2, <1>3

LEMMA SeqPush ==
  ASSUME NEW s, IsSeq(s), NEW x
  PROVE  /\ Append(s, x) = s \o <<x>>
         /\ IsSeq(s \o <<x>>) /\ Len(s \o <<x>>) = Len(s) + 1 /\ s \o <<x>> # <<>>
         /\ (s \o <<x>>)[Len(s \o <<x>>)] = x
         /\ SubSeq(s \o <<x>>, 1, Len(s \o <<x>>) - 1) = s
         /\ DOMAIN (s \o <<x>>) = 1..(Len(s) + 1)
         /\ \A i \in DOMAIN s : (s \o <<x>>)[i] = s[i]
<1> DEFINE T == Listed(s) \cup {x}
<1>1. s \in Seq(T) /\ x \in T
  BY DEF IsSeq
<1> HIDE DEF T
<1>2. Append(s, x) = s \o <<x>>
  BY <1>1
<1>3. /\ IsSeq(s \o <<x>>) /\ Len(s \o <<x>>) = Len(s) + 1 /\ (s \o <<x>>)[Len(s) + 1] = x
      /\ \A i \in DOMAIN s : (s \o <<x>>)[i] = s[i]
  BY SeqJoin, SeqOne
<1>4. Len(s) \in Nat /\ Len(s) + 1 - 1 = Len(s)
  BY SeqLen
<1>5. SubSeq(s \o <<x>>, 1, Len(s)) = s
  <2>1. s \o <<x>> \in Seq(T)
    BY <1>1
  <2> DEFINE r == SubSeq(s \o <<x>>, 1, Len(s))
  <2>2. r \in Seq(T) /\ Len(r) = Len(s) /\ \A i \in 1..Len(s) : r[i] = (s \o <<x>>)[i]
    BY <1>3, <1>4, <2>1
  <2> HIDE DEF r
  <2>3. \A i \in 1..Len(s) : r[i] = s[i]
    BY <1>3, <2>2, SeqLen
  <2>4. r = s
    BY <1>1, <2>2, <2>3
  <2>5. QED BY <2>4 DEF r
<1>6. DOMAIN (s \o <<x>>) = 1..(Len(s) + 1) /\ s \o <<x>> # <<>>
  BY <1>3, <1>4, SeqLen
<1>7. QED BY <1>2, <1>3, <1>4, <1>5, <1>6

LEMMA SeqFront ==
  ASSUME NEW s, IsSeq(s), s # <<>>
  PROVE  /\ Len(s) \in DOMAIN s
         /\ IsSeq(SubSeq(s, 1, Len(s) - 1))
         /\ \A i \in DOMAIN SubSeq(s, 1, Len(s) - 1) : i \in DOMAIN s /\ SubSeq(s, 1, Len(s) - 1)[i] = s[i]
<1> DEFINE T == Listed(s)
<1>1. s \in Seq(T) /\ Len(s) \in Nat /\ Len(s) > 0 /\ DOMAIN s = 1..Len(s)
  BY SeqLen DEF IsSeq
<1> HIDE DEF T
<1>2. /\ SubSeq(s, 1, Len(s) - 1) \in Seq(T) /\ Len(SubSeq(s, 1, Len(s) - 1)) = Len(s) - 1
      /\ \A i \in 1..(Len(s) - 1) : SubSeq(s, 1, Len(s) - 1)[i] = s[i]
  BY <1>1
<1>3. IsSeq(SubSeq(s, 1, Len(s) - 1)) /\ DOMAIN SubSeq(s, 1, Len(s) - 1) = 1..(Len(s) - 1)
  BY <1>2, SeqIs
<1>4. QED BY <1>1, <1>2, <1>3

LEMMA SeqTail ==
  ASSUME NEW s, IsSeq(s), s # <<>>
  PROVE  /\ 1 \in DOMAIN s /\ IsSeq(Tail(s)) /\ Len(Tail(s)) = Len(s) - 1
         /\ \A i \in DOMAIN Tail(s) : i + 1 \in DOMAIN s /\ Tail(s)[i] = s[i + 1]
<1> DEFINE T == Listed(s)
<1>1. s \in Seq(T) /\ Len(s) \in Nat /\ Len(s) > 0 /\ DOMAIN s = 1..Len(s)
  BY SeqLen DEF IsSeq
<1> HIDE DEF T
<1>2. Tail(s) \in Seq(T) /\ Len(Tail(s)) = Len(s) - 1
  BY <1>1
<1>3. IsSeq(Tail(s)) /\ DOMAIN Tail(s) = 1..(Len(s) - 1)
  BY <1>2, SeqIs
<1>4. QED BY <1>1, <1>2, <1>3

-----------------------------------------------------------------------------
(***************************************************************************)
(* Types in use.                                                           *)
(***************************************************************************)
MapOver(f, k) == \A p \in DOMAIN f : IsParam(p) /\ Over(p, k) /\ Over(f[p], k)

LEMMA OverMore ==
  ASSUME NEW k \in Nat, NEW j \in Nat, k <= j, NEW t, Over(t, k)
  PROVE  Over(t, j)
<1>1. \A i \in 0..(k - 1) : i \in 0..(j - 1)
  OBVIOUS
<1>2. QED BY <1>1 DEF Over

LEMMA OverIs ==
  ASSUME NEW k \in Nat, NEW t, Over(t, k)
  PROVE  OverUnknowns(t)
<1>1. IsType(t)
  BY DEF Over
<1>2. ASSUME NEW p \in Occurring(t) PROVE p \in Unknowns
  <2>1. p = Param(p.n) /\ p.n \in Nat
    BY <1>1, OccurringAre DEF Over
  <2>2. QED BY <2>1 DEF Unknowns
<1>3. QED BY <1>1, <1>2 DEF OverUnknowns

LEMMA OverParam ==
  ASSUME NEW k \in Nat, NEW i \in 0..(k - 1)
  PROVE  Over(Param(i), k) /\ IsParam(Param(i))
<1>1. IsType(Param(i)) /\ Occurring(Param(i)) = {Param(i)} /\ Param(i).n = i /\ IsParam(Param(i))
  BY ParamType, ParamIs
<1>2. QED BY <1>1 DEF Over

LEMMA GroundOver ==
  ASSUME NEW t, Ground(t), NEW k
  PROVE  Over(t, k)
  BY DEF Over, Ground

LEMMA PlainTypes ==
  ASSUME NEW k
  PROVE  Over(DynType, k) /\ Over(BoolType, k) /\ ~ IsParam(DynType)
  BY PlainType DEF Over, DynType, BoolType

LEMMA OverChild ==
  ASSUME NEW k, NEW t, Over(t, k), NEW i \in DOMAIN t.ps
  PROVE  Over(t.ps[i], k)
  BY ChildType DEF Over

\* Lists, maps and optionals.
LEMMA OverTerm ==
  ASSUME NEW k, NEW t, Over(t, k), NEW kind \in {"list", "optional"}
  PROVE  Over(Term(kind, <<t>>), k)
<1> DEFINE ps == <<t>>
<1>1. IsSeq(ps) /\ Len(ps) = 1 /\ DOMAIN ps = {1} /\ ps[1] = t
  BY SeqOne
<1> HIDE DEF ps
<1>2. ParamsOf(Term(kind, ps))
  BY <1>1, TermIs DEF ParamsOf
<1>3. kind # "none" /\ kind # "param" /\ \A i \in DOMAIN ps : IsType(ps[i])
  BY <1>1 DEF Over
<1>4. IsType(Term(kind, ps))
  BY <1>1, <1>2, <1>3, TermType
<1>5. Occurring(Term(kind, ps)) = Occurring(t)
  <2>1. Term(kind, ps).parts = UNION {Parts(ps[i]) : i \in DOMAIN ps} /\ ~ IsParam(Term(kind, ps))
    BY <1>3, TermIs
  <2>2. Term(kind, ps).parts = Parts(t)
    BY <1>1, <2>1
  <2>3. QED BY <2>1, <2>2 DEF Occurring, Parts
<1>6. QED BY <1>4, <1>5 DEF Over, ps

LEMMA MapBound ==
  ASSUME NEW k \in Nat, NEW f, MapOver(f, k), NoCycle(f)
  PROVE  Sound(f) /\ Bound(f)
<1>1. Sound(f)
  BY DEF Sound, TypeMap, MapOver, Over
<1>2. ASSUME NEW p \in DOMAIN f PROVE p \in Unknowns /\ OverUnknowns(f[p])
  <2>1. IsParam(p) /\ Over(p, k) /\ Over(f[p], k)
    BY DEF MapOver
  <2>2. p \in Occurring(p)
    BY <2>1 DEF Occurring, Parts
  <2>3. QED BY <2>1, <2>2, OverIs DEF OverUnknowns
<1>3. QED BY <1>1, <1>2 DEF Bound

LEMMA SubstOver ==
  ASSUME NEW k \in Nat, NEW f, MapOver(f, k), NoCycle(f), NEW t, Over(t, k)
  PROVE  Over(Value(f, t), k) /\ Over(Subst(f, t, TRUE), k) /\ Occurring(Subst(f, t, TRUE)) = {}
<1>1. Sound(f) /\ IsType(t)
  BY MapBound DEF Over
<1>2. IsType(Value(f, t)) /\ Occurring(Value(f, t)) \subseteq Occurring(t) \cup Ranges(f)
  BY <1>1, ValueType
<1>3. \A p \in Ranges(f) : p.n \in 0..(k - 1)
  BY DEF Ranges, MapOver, Over
<1>4. Over(Value(f, t), k)
  BY <1>2, <1>3 DEF Over
<1>5. IsType(Subst(f, t, TRUE)) /\ Occurring(Subst(f, t, TRUE)) = {}
  BY <1>1, SubstType
<1>6. QED BY <1>4, <1>5 DEF Over

LEMMA MapMore ==
  ASSUME NEW k \in Nat, NEW j \in Nat, k <= j, NEW f, MapOver(f, k)
  PROVE  MapOver(f, j)
  BY OverMore DEF MapOver

-----------------------------------------------------------------------------
(***************************************************************************)
(* Fresh variables: an instance of a signature is over variables of its    *)
(* own, numbered from where the last one ended.                            *)
(***************************************************************************)
Count(sig) == Cardinality(SignatureParams(sig))

LEMMA SignatureFinite ==
  ASSUME NEW sig, NEW f, SignatureOK(sig, f)
  PROVE  IsFiniteSet(SignatureParams(sig)) /\ Count(sig) \in Nat
<1> DEFINE ts == [i \in 1..(Len(sig.args) + 1) |-> IF i <= Len(sig.args) THEN sig.args[i] ELSE sig.result]
           g == [i \in 1..(Len(sig.args) + 1) |-> Occurring(ts[i])]
<1>1. Len(sig.args) \in Nat /\ DOMAIN sig.args = 1..Len(sig.args)
  BY SeqLen DEF SignatureOK
<1>2. SignatureTypes(sig) = {ts[i] : i \in 1..(Len(sig.args) + 1)}
  <2>1. \A i \in 1..(Len(sig.args) + 1) : ts[i] \in SignatureTypes(sig)
    BY <1>1 DEF SignatureTypes, Listed
  <2>2. \A i \in DOMAIN sig.args : i \in 1..(Len(sig.args) + 1) /\ ts[i] = sig.args[i]
    BY <1>1
  <2>3. Len(sig.args) + 1 \in 1..(Len(sig.args) + 1) /\ ts[Len(sig.args) + 1] = sig.result
    BY <1>1
  <2> HIDE DEF ts
  <2>4. QED BY <2>1, <2>2, <2>3 DEF SignatureTypes, Listed
<1>3. \A t \in SignatureTypes(sig) : IsFiniteSet(Occurring(t))
  <2>1. SUFFICES ASSUME NEW t, IsType(t) PROVE IsFiniteSet(Occurring(t))
    BY DEF SignatureOK
  <2>2. IsFiniteSet(t.parts)
    BY <2>1, ChildType, FiniteParts
  <2>3. IsFiniteSet(t.parts \cup {t})
    BY <2>2, FS_AddElement
  <2>4. Occurring(t) \subseteq t.parts \cup {t}
    BY DEF Occurring, Parts
  <2>5. QED BY <2>3, <2>4, FS_Subset
<1>4. \A i \in 1..(Len(sig.args) + 1) : IsFiniteSet(g[i])
  <2> HIDE DEF ts
  <2> QED BY <1>2, <1>3
<1>5. IsFiniteSet(UNION {g[i] : i \in 1..(Len(sig.args) + 1)})
  <2>1. Len(sig.args) + 1 \in Nat
    BY <1>1
  <2> HIDE DEF g
  <2>2. QED BY <1>4, <2>1, FiniteUnion
<1>6. SignatureParams(sig) = UNION {g[i] : i \in 1..(Len(sig.args) + 1)}
  <2> HIDE DEF ts
  <2> QED BY <1>2 DEF SignatureParams
<1>7. QED BY <1>5, <1>6, FS_CardinalityType DEF Count

LEMMA FreshIs ==
  ASSUME NEW sig, NEW fn, SignatureOK(sig, fn), NEW k \in Nat
  PROVE  /\ DOMAIN Fresh(sig, k) = SignatureParams(sig)
         /\ \A p \in SignatureParams(sig) : Over(Fresh(sig, k)[p], k + Count(sig))
         /\ Sound(Fresh(sig, k))
<1> DEFINE ps == SignatureParams(sig)
           F == Fresh(sig, k)
           j == k + Count(sig)
<1>1. DOMAIN F = ps
  BY DEF Fresh
<1>2. IsFiniteSet(ps) /\ Count(sig) \in Nat /\ Count(sig) = Cardinality(ps)
  BY SignatureFinite DEF Count
<1>3. ASSUME NEW p \in ps
      PROVE  \E i \in 0..(j - 1) : F[p] = Param(i)
  <2> DEFINE above == {q \in ps : q.n > p.n}
  <2>1. F[p] = Param(k + Cardinality(above))
    BY DEF Fresh
  <2>2. p \in SignatureParams(sig) /\ p.n \in Int
    <3>1. PICK t \in SignatureTypes(sig) : p \in Occurring(t)
      BY <1>3 DEF SignatureParams
    <3>2. IsType(t)
      BY DEF SignatureOK
    <3>3. QED BY <3>1, <3>2, OccurringAre
  <2>3. p \notin above /\ above \subseteq ps
    BY <2>2
  <2> HIDE DEF above, ps
  <2>4. Cardinality(above) \in Nat /\ Cardinality(above) < Cardinality(ps)
    BY <1>2, <1>3, <2>3, Smaller
  <2>5. k + Cardinality(above) \in 0..(j - 1)
    BY <1>2, <2>4
  <2>6. QED BY <2>1, <2>5
<1>4. ASSUME NEW p \in ps PROVE Over(F[p], j)
  <2> HIDE DEF F, ps
  <2>1. PICK i \in 0..(j - 1) : F[p] = Param(i)
    BY <1>3
  <2>2. j \in Nat
    BY <1>2
  <2> HIDE DEF j
  <2>3. Over(Param(i), j)
    BY <2>2, OverParam
  <2>4. QED BY <2>1, <2>3
<1>5. ASSUME NEW p \in ps PROVE IsParam(p) /\ IsType(p) /\ p.n < 0
  <2>1. PICK t \in SignatureTypes(sig) : p \in Occurring(t)
    BY <1>5 DEF SignatureParams
  <2>2. IsType(t) /\ p.n < 0
    BY DEF SignatureOK
  <2>3. QED BY <2>1, <2>2, OccurringAre
<1> HIDE DEF F, ps
<1>6. TypeMap(F)
  BY <1>1, <1>4, <1>5 DEF TypeMap, Over
<1>7. ASSUME NEW p \in ps, NEW q \in Occurring(F[p]) PROVE q \notin ps
  <2>1. j \in Nat
    BY <1>2
  <2> HIDE DEF j
  <2>2. q.n \in 0..(j - 1)
    BY <1>4, <1>7 DEF Over
  <2>3. QED BY <1>5, <2>1, <2>2
<1>8. Sound(F)
  BY <1>1, <1>6, <1>7, ApartSound
<1>9. QED BY <1>1, <1>4, <1>8 DEF F, ps

LEMMA InstanceOver ==
  ASSUME NEW sig, NEW fn, SignatureOK(sig, fn), NEW k \in Nat
  PROVE  /\ IsSeq(Instance(sig, k).args) /\ Len(Instance(sig, k).args) = Len(sig.args)
         /\ \A i \in DOMAIN Instance(sig, k).args : Over(Instance(sig, k).args[i], k + Count(sig))
         /\ Over(Instance(sig, k).result, k + Count(sig))
<1> DEFINE F == Fresh(sig, k)
           I == Instance(sig, k)
<1>1. Len(sig.args) \in Nat /\ DOMAIN sig.args = 1..Len(sig.args)
  BY SeqLen DEF SignatureOK
<1>2. I.args = [i \in 1..Len(sig.args) |-> Value(F, sig.args[i])] /\ I.result = Value(F, sig.result)
  BY <1>1 DEF Instance, Value
<1>3. ASSUME NEW t \in SignatureTypes(sig) PROVE Over(Value(F, t), k + Count(sig))
  <2>1. IsType(t) /\ Occurring(t) \subseteq SignatureParams(sig)
    BY DEF SignatureOK, SignatureParams
  <2>2. Sound(F) /\ DOMAIN F = SignatureParams(sig)
    BY FreshIs
  <2> HIDE DEF F
  <2>3. IsType(Value(F, t)) /\ Occurring(Value(F, t)) \subseteq Ranges(F)
    BY <2>1, <2>2, ValueType
  <2>4. \A p \in Ranges(F) : p.n \in 0..((k + Count(sig)) - 1)
    <3>1. \A p \in DOMAIN F : Over(F[p], k + Count(sig))
      BY <2>2, FreshIs DEF F
    <3>2. QED BY <3>1 DEF Ranges, Over
  <2>5. QED BY <2>3, <2>4 DEF Over
<1>4. sig.result \in SignatureTypes(sig) /\ \A i \in 1..Len(sig.args) : sig.args[i] \in SignatureTypes(sig)
  BY <1>1 DEF SignatureTypes, Listed
<1> HIDE DEF F, I
<1>5. IsSeq(I.args) /\ Len(I.args) = Len(sig.args) /\ DOMAIN I.args = 1..Len(sig.args)
  <2>1. I.args = [i \in 1..Len(sig.args) |-> I.args[i]]
    BY <1>2
  <2>2. QED BY <1>1, <1>2, <2>1, SeqMade
<1>6. \A i \in DOMAIN I.args : I.args[i] = Value(F, sig.args[i])
  BY <1>2, <1>5
<1>7. QED BY <1>2, <1>3, <1>4, <1>5, <1>6 DEF I

-----------------------------------------------------------------------------
(***************************************************************************)
(* TypeOK. The open nodes are what their kinds say, and the last one is    *)
(* what an assignment is made for while there is one.                      *)
(***************************************************************************)
SeqOver(s, k) == IsSeq(s) /\ \A i \in DOMAIN s : Over(s[i], k)
Typed(t, k) == t = NoType \/ Over(t, k)

CallOK(f, k) ==
  /\ f.node = "call"
  /\ DOMAIN f = {"node", "fn", "args", "cand", "result", "type"}
  /\ f.fn \in Functions /\ SeqOver(f.args, k) /\ Typed(f.type, k)

ListOK(f, k) == f.node = "list" /\ DOMAIN f = {"node", "type"} /\ Typed(f.type, k)

CompOK(f, k) ==
  /\ f.node = "comp"
  /\ DOMAIN f = {"node", "collects", "at", "var", "accu"}
  /\ f.at \in {"range", "step", "result"}
  /\ f.at # "range" => Over(f.var, k) /\ Over(f.accu, k)

Waiting(f, k) ==
  \/ CallOK(f, k) /\ Len(f.args) < Arity(f.fn) /\ f.cand = 0
  \/ ListOK(f, k)
  \/ f.node = "select"
  \/ CompOK(f, k)

Candidates(f, k) ==
  f.fn # "_&&_" => f.cand \in 1..Len(Overloads[f.fn]) /\ Over(f.result, k)

Trying(f, k) ==
  \/ CallOK(f, k) /\ Len(f.args) = Arity(f.fn) /\ Candidates(f, k)
  \/ ListOK(f, k) /\ f.type # NoType
  \/ CompOK(f, k) /\ f.at = "result"

Stacked(s, k) == IsSeq(s) /\ \A i \in DOMAIN s : Waiting(s[i], k)

FramesOK ==
  /\ pc \in {"node", "typed", "done"} => Stacked(open, n)
  /\ pc \in {"assign", "assigned"} =>
       /\ open # <<>> /\ Stacked(Pop, n) /\ Trying(Top, n)
       /\ Top.node = "list" => Over(typ, n)

TaskOK(x, f, k) ==
  /\ x.do \in {"assign", "widen"} /\ Over(x.t1, k) /\ Over(x.t2, k)
  /\ x.do = "widen" => IsParam(x.t2) /\ x.t2 \in DOMAIN f /\ Over(x.old, k)

TasksOK ==
  /\ IsSeq(todo) /\ \A i \in DOMAIN todo : TaskOK(todo[i], m, n)
  /\ pc # "assign" => todo = <<>>

MapsOK == MapOver(m, n) /\ MapOver(saved, n)
PairsOK == \A q \in goal \cup facts : Over(q[1], n) /\ Over(q[2], n)

ScalarsOK ==
  /\ pc \in {"node", "typed", "assign", "assigned", "done", "failed"}
  /\ n \in Nat /\ left \in 0..Nodes /\ ok \in BOOLEAN
  /\ pc \in {"typed", "done"} => Over(typ, n)
  /\ pc = "done" => open = <<>> /\ Occurring(typ) = {}

StateOK == ScalarsOK /\ MapsOK /\ PairsOK /\ TasksOK /\ FramesOK

LEMMA StateTyped == StateOK => TypeOK
<1> SUFFICES ASSUME StateOK PROVE TypeOK
  OBVIOUS
<1>1. \A f \in {m, saved} : \A p \in DOMAIN f : IsParam(p) /\ InUse(p) /\ InUse(f[p])
  BY DEF StateOK, MapsOK, MapOver, InUse
<1>2. \A q \in goal \cup facts : InUse(q[1]) /\ InUse(q[2])
  BY DEF StateOK, PairsOK, InUse
<1>3. pc \in {"typed", "done"} => InUse(typ)
  BY DEF StateOK, ScalarsOK, InUse
<1>4. pc \in {"assigned", "done"} => todo = <<>>
  BY DEF StateOK, TasksOK
<1>5. QED BY <1>1, <1>2, <1>3, <1>4 DEF TypeOK, StateOK, ScalarsOK

-----------------------------------------------------------------------------
\* What is over k variables is over more.
LEMMA FrameMore ==
  ASSUME NEW k \in Nat, NEW j \in Nat, k <= j, NEW f
  PROVE  /\ Waiting(f, k) => Waiting(f, j)
         /\ Trying(f, k) => Trying(f, j)
<1>1. \A t : Typed(t, k) => Typed(t, j)
  BY OverMore DEF Typed
<1>2. CallOK(f, k) => CallOK(f, j)
  BY <1>1, OverMore DEF CallOK, SeqOver
<1>3. ListOK(f, k) => ListOK(f, j)
  BY <1>1 DEF ListOK
<1>4. CompOK(f, k) => CompOK(f, j)
  BY OverMore DEF CompOK
<1>5. Candidates(f, k) => Candidates(f, j)
  BY OverMore DEF Candidates
<1>6. QED BY <1>2, <1>3, <1>4, <1>5 DEF Waiting, Trying

LEMMA StackMore ==
  ASSUME NEW k \in Nat, NEW j \in Nat, k <= j, NEW s, Stacked(s, k)
  PROVE  Stacked(s, j)
  BY FrameMore DEF Stacked

LEMMA StackPush ==
  ASSUME NEW k, NEW s, Stacked(s, k), NEW f
  PROVE  /\ Waiting(f, k) => Stacked(s \o <<f>>, k) /\ Stacked(Append(s, f), k)
         /\ Append(s, f) = s \o <<f>> /\ s \o <<f>> # <<>>
         /\ (s \o <<f>>)[Len(s \o <<f>>)] = f
         /\ SubSeq(s \o <<f>>, 1, Len(s \o <<f>>) - 1) = s
<1>1. /\ Append(s, f) = s \o <<f>>
      /\ IsSeq(s \o <<f>>) /\ Len(s \o <<f>>) = Len(s) + 1 /\ s \o <<f>> # <<>>
      /\ (s \o <<f>>)[Len(s \o <<f>>)] = f
      /\ SubSeq(s \o <<f>>, 1, Len(s \o <<f>>) - 1) = s
      /\ DOMAIN (s \o <<f>>) = 1..(Len(s) + 1)
      /\ \A i \in DOMAIN s : (s \o <<f>>)[i] = s[i]
  BY SeqPush DEF Stacked
<1>2. Len(s) \in Nat /\ DOMAIN s = 1..Len(s)
  BY SeqLen DEF Stacked
<1>3. \A i \in DOMAIN (s \o <<f>>) : i \in DOMAIN s \/ i = Len(s \o <<f>>)
  BY <1>1, <1>2
<1>4. ASSUME Waiting(f, k) PROVE Stacked(s \o <<f>>, k)
  <2>1. ASSUME NEW i \in DOMAIN (s \o <<f>>) PROVE Waiting((s \o <<f>>)[i], k)
    BY <1>1, <1>3, <1>4 DEF Stacked
  <2>2. QED BY <1>1, <2>1 DEF Stacked
<1>5. QED BY <1>1, <1>4

LEMMA StackPop ==
  ASSUME NEW k, NEW s, Stacked(s, k), s # <<>>
  PROVE  Waiting(s[Len(s)], k) /\ Stacked(SubSeq(s, 1, Len(s) - 1), k)
  BY SeqFront DEF Stacked

\* The frames of an open node that is waiting, and of one that is assigned for.
LEMMA TopWaiting ==
  ASSUME StateOK, pc \in {"node", "typed"}, NEW kind, InNode(kind)
  PROVE  Stacked(Pop, n) /\ Stacked(open, n) /\ Waiting(Top, n) /\ Top.node = kind /\ open # <<>>
  BY StackPop DEF StateOK, FramesOK, InNode, Top, Pop

LEMMA TopTrying ==
  ASSUME StateOK, pc \in {"assign", "assigned"}
  PROVE  Stacked(Pop, n) /\ Trying(Top, n) /\ open # <<>> /\ (Top.node = "list" => Over(typ, n))
  BY DEF StateOK, FramesOK

-----------------------------------------------------------------------------
\* Nothing is assigned.
LEMMA IdleOK ==
  ASSUME StateOK, pc # "assign", pc' # "assign", n' \in Nat, n <= n', m' = m, Idle
  PROVE  MapsOK' /\ PairsOK' /\ TasksOK'
<1>1. n \in Nat /\ todo' = todo /\ saved' = saved /\ goal' = goal /\ facts' = facts /\ ok' = ok
  BY DEF StateOK, ScalarsOK, Idle
<1>2. MapOver(m', n') /\ MapOver(saved', n')
  BY <1>1, MapMore DEF StateOK, MapsOK
<1>3. \A q \in goal' \cup facts' : Over(q[1], n') /\ Over(q[2], n')
  BY <1>1, OverMore DEF StateOK, PairsOK
<1>4. todo' = <<>> /\ IsSeq(todo') /\ DOMAIN todo' = {}
  BY <1>1 DEF StateOK, TasksOK
<1>5. QED BY <1>2, <1>3, <1>4 DEF MapsOK, PairsOK, TasksOK

\* An assignment begins.
LEMMA StartOK ==
  ASSUME StateOK, n' \in Nat, n <= n', m' = m, facts' = facts,
         NEW l1, NEW l2, SeqOver(l1, n'), SeqOver(l2, n'), Len(l1) = Len(l2),
         Start(l1, l2)
  PROVE  MapsOK' /\ PairsOK' /\ TasksOK' /\ pc' = "assign"
<1>1. n \in Nat
  BY DEF StateOK, ScalarsOK
<1>2. MapOver(m', n') /\ MapOver(saved', n') /\ pc' = "assign"
  BY <1>1, MapMore DEF StateOK, MapsOK, Start
<1>3. Len(l1) \in Nat /\ DOMAIN l1 = 1..Len(l1) /\ DOMAIN l2 = DOMAIN l1
  BY SeqLen DEF SeqOver
<1>4. ASSUME NEW i \in DOMAIN l1 PROVE Over(l1[i], n') /\ Over(l2[i], n')
  BY <1>3 DEF SeqOver
<1>5. ASSUME NEW q \in goal' \cup facts' PROVE Over(q[1], n') /\ Over(q[2], n')
  <2>1. CASE q \in facts
    BY <1>1, <2>1, OverMore DEF StateOK, PairsOK
  <2>2. CASE q \in goal'
    <3>1. PICK i \in DOMAIN l1 : q = <<l1[i], l2[i]>>
      BY <2>2 DEF Start
    <3>2. QED BY <1>4, <3>1
  <2>3. QED BY <1>5, <2>1, <2>2
<1>6. todo' = [i \in 1..Len(l1) |-> Assign(l1[i], l2[i])]
  BY <1>3 DEF Start
<1>7. IsSeq(todo') /\ DOMAIN todo' = DOMAIN l1
  <2>1. todo' = [i \in 1..Len(l1) |-> todo'[i]]
    BY <1>6
  <2>2. QED BY <1>3, <1>6, <2>1, SeqMade
<1>8. ASSUME NEW i \in DOMAIN todo' PROVE TaskOK(todo'[i], m', n')
  <2>1. todo'[i] = Assign(l1[i], l2[i]) /\ i \in DOMAIN l1
    BY <1>3, <1>6, <1>7
  <2>2. QED BY <1>4, <2>1 DEF TaskOK, Assign
<1>9. QED BY <1>2, <1>5, <1>7, <1>8 DEF MapsOK, PairsOK, TasksOK

\* A variable becomes dyn.
LEMMA DynOK ==
  ASSUME StateOK, pc # "assign", pc' # "assign", n' \in Nat, n <= n',
         UNCHANGED <<todo, saved, goal>>, NEW t, Over(t, n), BindsDyn(t)
  PROVE  MapsOK' /\ PairsOK' /\ TasksOK'
<1>1. n \in Nat /\ Over(t, n')
  BY OverMore DEF StateOK, ScalarsOK
<1>2. MapOver(m, n') /\ MapOver(saved', n')
  BY <1>1, MapMore DEF StateOK, MapsOK
<1>3. Over(DynType, n')
  BY PlainTypes
<1>4. MapOver(m', n')
  <2>1. CASE m' = m
    BY <1>2, <2>1
  <2>2. CASE IsParam(t) /\ m' = Bind(t, DynType)
    <3>1. DOMAIN m' = DOMAIN m \cup {t} /\ \A q \in DOMAIN m' : m'[q] = IF q \in DOMAIN m THEN m[q] ELSE DynType
      BY <2>2 DEF Bind
    <3>2. ASSUME NEW q \in DOMAIN m' PROVE IsParam(q) /\ Over(q, n') /\ Over(m'[q], n')
      <4>1. CASE q \in DOMAIN m
        BY <1>2, <3>1, <4>1 DEF MapOver
      <4>2. CASE q \notin DOMAIN m
        BY <1>1, <1>3, <2>2, <3>1, <4>2
      <4>3. QED BY <4>1, <4>2
    <3>3. QED BY <3>2 DEF MapOver
  <2>3. QED BY <2>1, <2>2 DEF BindsDyn
<1>5. ASSUME NEW q \in goal' \cup facts' PROVE Over(q[1], n') /\ Over(q[2], n')
  <2>1. q \in goal \cup facts \/ q = <<DynType, t>>
    BY <1>5 DEF BindsDyn
  <2>2. CASE q \in goal \cup facts
    BY <1>1, <2>2, OverMore DEF StateOK, PairsOK
  <2>3. CASE q = <<DynType, t>>
    BY <1>1, <1>3, <2>3
  <2>4. QED BY <2>1, <2>2, <2>3
<1>6. todo' = <<>> /\ IsSeq(todo') /\ DOMAIN todo' = {}
  BY DEF StateOK, TasksOK
<1>7. QED BY <1>2, <1>4, <1>5, <1>6 DEF MapsOK, PairsOK, TasksOK

\* The assignment goes on with tasks in place of its first one.
LEMMA ContinueOK ==
  ASSUME StateOK, pc = "assign", todo # <<>>, NEW tasks, IsSeq(tasks), Continue(tasks),
         DOMAIN m \subseteq DOMAIN m', MapOver(m', n),
         \A i \in DOMAIN tasks : TaskOK(tasks[i], m', n)
  PROVE  StateOK'
<1>1. UNCHANGED <<pc, open, typ, n, saved, ok, left, goal, facts>> /\ todo' = tasks \o Tail(todo)
  BY DEF Continue
<1>2. ScalarsOK' /\ MapsOK' /\ PairsOK' /\ FramesOK'
  BY <1>1 DEF StateOK, ScalarsOK, MapsOK, PairsOK, FramesOK, Top, Pop
<1>3. /\ IsSeq(Tail(todo))
      /\ \A i \in DOMAIN Tail(todo) : i + 1 \in DOMAIN todo /\ Tail(todo)[i] = todo[i + 1]
  BY SeqTail DEF StateOK, TasksOK
<1>4. \A i \in DOMAIN Tail(todo) : TaskOK(Tail(todo)[i], m', n)
  BY <1>3 DEF StateOK, TasksOK, TaskOK
<1>5. IsSeq(todo')
  BY <1>1, <1>3, SeqJoin
<1>6. ASSUME NEW i \in DOMAIN todo' PROVE TaskOK(todo'[i], m', n')
  <2>1. \/ i \in DOMAIN tasks /\ todo'[i] = tasks[i]
        \/ i - Len(tasks) \in DOMAIN Tail(todo) /\ todo'[i] = Tail(todo)[i - Len(tasks)]
    BY <1>1, <1>3, <1>6, SeqJoin
  <2>2. QED BY <1>1, <1>4, <2>1
<1>7. QED BY <1>1, <1>2, <1>5, <1>6 DEF StateOK, TasksOK

LEMMA NoTasks == IsSeq(<<>>) /\ DOMAIN <<>> = {}
<1>1. <<>> \in Seq({})
  OBVIOUS
<1>2. DOMAIN <<>> = {}
  OBVIOUS
<1>3. QED BY <1>1, <1>2, SeqIs

\* The substitution and what it makes of types.
LEMMA ValueNow ==
  ASSUME StateOK, Cycles, NEW t, Over(t, n)
  PROVE  Over(Subst(m, t, FALSE), n) /\ Over(Subst(m, t, TRUE), n) /\ Occurring(Subst(m, t, TRUE)) = {}
<1>1. n \in Nat /\ MapOver(m, n) /\ NoCycle(m)
  BY DEF StateOK, ScalarsOK, MapsOK, Cycles
<1>2. Over(Value(m, t), n) /\ Over(Subst(m, t, TRUE), n) /\ Occurring(Subst(m, t, TRUE)) = {}
  BY <1>1, SubstOver
<1>3. QED BY <1>2 DEF Value

-----------------------------------------------------------------------------
\* Entering a node.
LEMMA EnterOK ==
  ASSUME StateOK, NEW frame, Waiting(frame, n), Enter(frame)
  PROVE  StateOK'
<1>1. /\ pc = "node" /\ left > 0 /\ open' = Append(open, frame) /\ left' = left - 1
      /\ pc' = pc /\ typ' = typ /\ m' = m /\ n' = n /\ Idle
  BY DEF Enter, Room
<1>2. n' \in Nat /\ n <= n' /\ left' \in 0..Nodes
  BY <1>1, CheckerAssumption DEF StateOK, ScalarsOK
<1>3. MapsOK' /\ PairsOK' /\ TasksOK'
  BY <1>1, <1>2, IdleOK
<1>4. ScalarsOK'
  BY <1>1, <1>2 DEF StateOK, ScalarsOK, Idle
<1>5. Stacked(open', n')
  BY <1>1, StackPush DEF StateOK, FramesOK
<1>6. FramesOK'
  BY <1>1, <1>5 DEF FramesOK
<1>7. QED BY <1>3, <1>4, <1>6 DEF StateOK

LEMMA ArityNatural ==
  ASSUME NEW f \in Functions
  PROVE  Arity(f) \in Nat
<1>1. CASE f = "_&&_"
  BY <1>1 DEF Arity
<1>2. CASE f # "_&&_"
  <2>1. IsSeq(Overloads[f]) /\ Overloads[f] # <<>> /\ \A j \in DOMAIN Overloads[f] : SignatureOK(Overloads[f][j], f)
    BY <1>2, CheckerAssumption
  <2>2. 1 \in DOMAIN Overloads[f]
    BY <2>1, SeqTail
  <2>3. IsSeq(Overloads[f][1].args)
    BY <2>1, <2>2 DEF SignatureOK
  <2>4. QED BY <1>2, <2>3, SeqLen DEF Arity
<1>3. QED BY <1>1, <1>2

LEMMA EnterCallOK ==
  ASSUME StateOK, EnterCall
  PROVE  StateOK'
<1>1. PICK f \in Functions : Arity(f) > 0 /\ Enter(CallFrame(f, <<>>))
  BY DEF EnterCall
<1>2. CallOK(CallFrame(f, <<>>), n) /\ Len(CallFrame(f, <<>>).args) = 0 /\ CallFrame(f, <<>>).cand = 0
      /\ CallFrame(f, <<>>).fn = f
  BY NoTasks DEF CallOK, CallFrame, SeqOver, Typed
<1>3. Waiting(CallFrame(f, <<>>), n)
  BY <1>1, <1>2 DEF Waiting
<1>4. QED BY <1>1, <1>3, EnterOK

LEMMA EnterOthersOK ==
  ASSUME StateOK, EnterList \/ EnterSelect \/ EnterComp
  PROVE  StateOK'
<1>1. CASE EnterList
  <2>1. Waiting([node |-> "list", type |-> NoType], n)
    BY DEF Waiting, ListOK, Typed
  <2>2. QED BY <1>1, <2>1, EnterOK DEF EnterList
<1>2. CASE EnterSelect
  <2>1. Waiting([node |-> "select"], n)
    BY DEF Waiting
  <2>2. QED BY <1>2, <2>1, EnterOK DEF EnterSelect
<1>3. CASE EnterComp
  <2>1. ASSUME NEW c
        PROVE  Waiting([node |-> "comp", collects |-> c, at |-> "range", var |-> NoType, accu |-> NoType], n)
    BY DEF Waiting, CompOK
  <2>2. QED BY <1>3, <2>1, EnterOK DEF EnterComp
<1>4. QED BY <1>1, <1>2, <1>3

LEMMA LeafOK ==
  ASSUME StateOK, Leaf
  PROVE  StateOK'
<1>1. /\ pc = "node" /\ left > 0 /\ pc' = "typed" /\ left' = left - 1
      /\ open' = open /\ m' = m /\ n' = n /\ Idle
  BY DEF Leaf, Room, Returns
<1>2. n' \in Nat /\ n <= n' /\ left' \in 0..Nodes
  BY <1>1, CheckerAssumption DEF StateOK, ScalarsOK
<1>3. MapsOK' /\ PairsOK' /\ TasksOK'
  BY <1>1, <1>2, IdleOK
<1>4. Stacked(open, n)
  BY <1>1 DEF StateOK, FramesOK
<1>5. Over(typ', n)
  <2>1. PICK t \in Leaves \cup Locals : typ' = t
    BY DEF Leaf, Returns
  <2>2. CASE t \in Leaves
    BY <2>1, <2>2, CheckerAssumption, GroundOver
  <2>3. CASE t \in Locals
    <3>1. PICK i \in DOMAIN open : open[i].node = "comp" /\ open[i].at = "step" /\ t = open[i].var
      BY <2>3 DEF Locals
    <3>2. Waiting(open[i], n)
      BY <1>4 DEF Stacked
    <3>3. CompOK(open[i], n)
      BY <3>1, <3>2 DEF Waiting, CallOK, ListOK
    <3>4. QED BY <2>1, <3>1, <3>3 DEF CompOK
  <2>4. QED BY <2>2, <2>3
<1>6. ScalarsOK'
  BY <1>1, <1>2, <1>5 DEF StateOK, ScalarsOK, Idle
<1>7. FramesOK'
  BY <1>1, <1>4 DEF FramesOK
<1>8. QED BY <1>3, <1>6, <1>7 DEF StateOK

-----------------------------------------------------------------------------
\* A candidate is tried.
LEMMA TryOK ==
  ASSUME StateOK, NEW below, Stacked(below, n), NEW frame,
         CallOK(frame, n), frame.fn # "_&&_", Len(frame.args) = Arity(frame.fn),
         frame.cand \in Nat, frame.cand < Len(Overloads[frame.fn]),
         Try(below, frame), m' = m, facts' = facts, typ' = typ, left' \in 0..Nodes, ok' = ok
  PROVE  StateOK'
<1> DEFINE sig == Overloads[frame.fn][frame.cand + 1]
           new == [frame EXCEPT !.cand = @ + 1, !.result = Instance(sig, n).result]
<1>1. /\ open' = below \o <<new>> /\ n' = n + Count(sig)
      /\ Start(frame.args, Instance(sig, n).args)
  BY DEF Try, Count
<1>2. SignatureOK(sig, frame.fn) /\ Len(Overloads[frame.fn]) \in Nat
  <2>1. frame.fn \in Functions \ {"_&&_"}
    BY DEF CallOK
  <2>2. IsSeq(Overloads[frame.fn]) /\ \A j \in DOMAIN Overloads[frame.fn] : SignatureOK(Overloads[frame.fn][j], frame.fn)
    BY <2>1, CheckerAssumption
  <2>3. frame.cand + 1 \in DOMAIN Overloads[frame.fn] /\ Len(Overloads[frame.fn]) \in Nat
    BY <2>2, SeqLen
  <2>4. QED BY <2>2, <2>3
<1>3. n \in Nat /\ Count(sig) \in Nat
  BY <1>2, SignatureFinite DEF StateOK, ScalarsOK
<1>4. n' \in Nat /\ n <= n'
  BY <1>1, <1>3
<1>5. SeqOver(Instance(sig, n).args, n') /\ Len(Instance(sig, n).args) = Len(frame.args) /\ Over(Instance(sig, n).result, n')
  <2>1. /\ IsSeq(Instance(sig, n).args) /\ Len(Instance(sig, n).args) = Len(sig.args)
        /\ \A i \in DOMAIN Instance(sig, n).args : Over(Instance(sig, n).args[i], n + Count(sig))
        /\ Over(Instance(sig, n).result, n + Count(sig))
    BY <1>2, <1>3, InstanceOver
  <2>2. Len(sig.args) = Arity(frame.fn)
    BY <1>2 DEF SignatureOK
  <2>3. QED BY <1>1, <2>1, <2>2 DEF SeqOver
<1>6. CallOK(frame, n')
  <2>1. SeqOver(frame.args, n')
    BY <1>3, <1>4, OverMore DEF CallOK, SeqOver
  <2>2. Typed(frame.type, n')
    BY <1>3, <1>4, OverMore DEF CallOK, Typed
  <2>3. QED BY <2>1, <2>2 DEF CallOK
<1>7. /\ CallOK(new, n') /\ new.fn = frame.fn /\ new.args = frame.args
      /\ new.cand = frame.cand + 1 /\ new.result = Instance(sig, n).result
  <2> HIDE DEF sig
  <2>1. /\ DOMAIN new = DOMAIN frame
        /\ DOMAIN frame = {"node", "fn", "args", "cand", "result", "type"}
    BY <1>6 DEF CallOK
  <2>2. /\ new.node = frame.node /\ new.fn = frame.fn /\ new.args = frame.args /\ new.type = frame.type
        /\ new.cand = frame.cand + 1 /\ new.result = Instance(sig, n).result
    BY <2>1
  <2> HIDE DEF new
  <2>3. QED BY <1>6, <2>1, <2>2 DEF CallOK
<1> HIDE DEF new, sig
<1>8. Candidates(new, n')
  BY <1>2, <1>5, <1>7 DEF Candidates
<1>9. Trying(new, n') /\ new.node = "call"
  BY <1>7, <1>8 DEF Trying, CallOK
<1>10. Stacked(below, n')
  BY <1>3, <1>4, StackMore
<1>11. SeqOver(frame.args, n')
  BY <1>6 DEF CallOK
<1>12. MapsOK' /\ PairsOK' /\ TasksOK' /\ pc' = "assign"
  BY <1>1, <1>4, <1>5, <1>11, StartOK
<1>13. open' # <<>> /\ Top' = new /\ Pop' = below
  BY <1>1, <1>10, StackPush DEF Top, Pop
<1>14. FramesOK'
  BY <1>9, <1>10, <1>12, <1>13 DEF FramesOK
<1>15. ScalarsOK'
  BY <1>4, <1>12 DEF StateOK, ScalarsOK
<1>16. QED BY <1>12, <1>14, <1>15 DEF StateOK

\* There are no arguments.
LEMMA NullaryCallOK ==
  ASSUME StateOK, NullaryCall
  PROVE  StateOK'
<1> DEFINE frame(f) == CallFrame(f, <<>>)
<1>1. PICK f \in Functions : Arity(f) = 0 /\ Try(open, frame(f))
  BY DEF NullaryCall
<1>2. /\ pc = "node" /\ left > 0 /\ left' = left - 1
      /\ m' = m /\ facts' = facts /\ typ' = typ /\ ok' = ok
  BY DEF NullaryCall, Room
<1>3. left' \in 0..Nodes
  BY <1>2, CheckerAssumption DEF StateOK, ScalarsOK
<1>4. f # "_&&_"
  BY <1>1 DEF Arity
<1>5. IsSeq(Overloads[f]) /\ Overloads[f] # <<>>
  BY <1>4, CheckerAssumption
<1>6. 0 < Len(Overloads[f])
  BY <1>5, SeqLen
<1>7. Stacked(open, n)
  BY <1>2 DEF StateOK, FramesOK
<1>8. CallOK(frame(f), n) /\ Len(frame(f).args) = 0 /\ frame(f).cand = 0 /\ frame(f).fn = f
  BY NoTasks DEF CallOK, CallFrame, SeqOver, Typed
<1> HIDE DEF frame
<1>9. QED BY <1>1, <1>2, <1>3, <1>4, <1>6, <1>7, <1>8, TryOK

\* The arguments are typed.
LEMMA ResolveOK ==
  ASSUME StateOK, NEW below, Stacked(below, n), NEW frame,
         CallOK(frame, n), Len(frame.args) = Arity(frame.fn), frame.cand = 0,
         Resolve(below, frame), m' = m, facts' = facts, typ' = typ, left' = left, ok' = ok
  PROVE  StateOK'
<1>1. CASE frame.fn = "_&&_"
  <2> DEFINE bools == [i \in DOMAIN frame.args |-> BoolType]
  <2>1. open' = below \o <<frame>> /\ n' = n /\ Start(frame.args, bools)
    BY <1>1 DEF Resolve
  <2>2. n' \in Nat /\ n <= n'
    BY <2>1 DEF StateOK, ScalarsOK
  <2>3. SeqOver(frame.args, n')
    BY <2>1 DEF CallOK
  <2>4. Len(frame.args) \in Nat /\ DOMAIN frame.args = 1..Len(frame.args)
    BY <2>3, SeqLen DEF SeqOver
  <2>5. IsSeq(bools) /\ Len(bools) = Len(frame.args)
    <3>1. bools = [i \in 1..Len(frame.args) |-> bools[i]]
      BY <2>4
    <3> HIDE DEF bools
    <3>2. QED BY <2>4, <3>1, SeqMade
  <2>6. SeqOver(bools, n')
    <3>1. \A i \in DOMAIN bools : bools[i] = BoolType
      OBVIOUS
    <3> HIDE DEF bools
    <3>2. QED BY <2>5, <3>1, PlainTypes DEF SeqOver
  <2> HIDE DEF bools
  <2>7. MapsOK' /\ PairsOK' /\ TasksOK' /\ pc' = "assign"
    BY <2>1, <2>2, <2>3, <2>5, <2>6, StartOK
  <2>8. open' # <<>> /\ Top' = frame /\ Pop' = below
    BY <2>1, StackPush DEF Top, Pop
  <2>9. Trying(frame, n) /\ frame.node = "call"
    BY <1>1 DEF Trying, Candidates, CallOK
  <2>10. FramesOK'
    BY <2>1, <2>7, <2>8, <2>9 DEF FramesOK
  <2>11. ScalarsOK'
    BY <2>2, <2>7 DEF StateOK, ScalarsOK
  <2>12. QED BY <2>7, <2>10, <2>11 DEF StateOK
<1>2. CASE frame.fn # "_&&_"
  <2>1. frame.fn \in Functions \ {"_&&_"}
    BY <1>2 DEF CallOK
  <2>2. IsSeq(Overloads[frame.fn]) /\ Overloads[frame.fn] # <<>>
    BY <2>1, CheckerAssumption
  <2>3. frame.cand \in Nat /\ frame.cand < Len(Overloads[frame.fn])
    BY <2>2, SeqLen
  <2>4. Try(below, frame)
    BY <1>2 DEF Resolve
  <2>5. left' \in 0..Nodes
    BY DEF StateOK, ScalarsOK
  <2>6. QED BY <1>2, <2>3, <2>4, <2>5, TryOK
<1>3. QED BY <1>1, <1>2

LEMMA ArgumentOK ==
  ASSUME StateOK, Argument
  PROVE  StateOK'
<1> DEFINE frame == [Top EXCEPT !.args = Append(@, typ)]
<1>1. /\ pc = "typed" /\ InNode("call")
      /\ typ' = typ /\ m' = m /\ ok' = ok /\ left' = left /\ facts' = facts
  BY DEF Argument
<1>2. Stacked(Pop, n) /\ Waiting(Top, n) /\ Top.node = "call"
  BY <1>1, TopWaiting
<1>3. CallOK(Top, n) /\ Len(Top.args) < Arity(Top.fn) /\ Top.cand = 0
  BY <1>2 DEF Waiting, ListOK, CompOK
<1>4. Over(typ, n) /\ n \in Nat
  BY <1>1 DEF StateOK, ScalarsOK
<1>5. /\ SeqOver(Append(Top.args, typ), n) /\ Len(Append(Top.args, typ)) = Len(Top.args) + 1
      /\ Len(Top.args) \in Nat
  <2>1. IsSeq(Top.args) /\ \A i \in DOMAIN Top.args : Over(Top.args[i], n)
    BY <1>3 DEF CallOK, SeqOver
  <2> DEFINE s == Top.args
             r == s \o <<typ>>
  <2>2. /\ Append(s, typ) = r /\ IsSeq(r) /\ Len(r) = Len(s) + 1 /\ r[Len(r)] = typ
        /\ DOMAIN r = 1..(Len(s) + 1) /\ \A i \in DOMAIN s : r[i] = s[i]
    BY <2>1, SeqPush
  <2>3. Len(s) \in Nat /\ DOMAIN s = 1..Len(s)
    BY <2>1, SeqLen
  <2>4. ASSUME NEW i \in DOMAIN r PROVE Over(r[i], n)
    <3> HIDE DEF s, r
    <3>1. i \in DOMAIN s \/ i = Len(r)
      BY <2>2, <2>3, <2>4
    <3>2. \A l \in DOMAIN s : Over(s[l], n)
      BY <2>1 DEF s
    <3>3. QED BY <1>4, <2>2, <3>1, <3>2
  <2>5. QED BY <2>2, <2>3, <2>4 DEF SeqOver
<1>6. /\ DOMAIN frame = DOMAIN Top /\ frame.args = Append(Top.args, typ) /\ frame.fn = Top.fn
      /\ frame.cand = 0 /\ frame.type = Top.type /\ frame.node = "call"
  BY <1>2, <1>3 DEF CallOK
<1>7. CallOK(frame, n) /\ Len(frame.args) = Len(Top.args) + 1
  <2> HIDE DEF frame
  <2> QED BY <1>3, <1>5, <1>6 DEF CallOK
<1>8. CASE Len(Top.args) + 1 < Arity(Top.fn)
  <2>1. Become(frame) /\ pc' = "node" /\ n' = n /\ UNCHANGED <<todo, saved, goal>>
    <3>1. Len(frame.args) < Arity(frame.fn)
      BY <1>6, <1>7, <1>8
    <3>2. QED BY <3>1 DEF Argument
  <2> HIDE DEF frame
  <2>2. Waiting(frame, n)
    BY <1>6, <1>7, <1>8 DEF Waiting
  <2>3. Stacked(open', n')
    BY <1>2, <2>1, <2>2, StackPush DEF Become
  <2>4. Idle
    BY <1>1, <2>1 DEF Idle
  <2>5. MapsOK' /\ PairsOK' /\ TasksOK'
    BY <1>1, <1>4, <2>1, <2>4, IdleOK
  <2>6. ScalarsOK' /\ FramesOK'
    BY <1>1, <2>1, <2>3 DEF StateOK, ScalarsOK, FramesOK
  <2>7. QED BY <2>5, <2>6 DEF StateOK
<1>9. CASE ~ (Len(Top.args) + 1 < Arity(Top.fn))
  <2>1. Arity(Top.fn) \in Nat
    BY <1>3, ArityNatural DEF CallOK
  <2>2. Len(frame.args) = Arity(frame.fn)
    <3> HIDE DEF frame
    <3> QED BY <1>3, <1>5, <1>6, <1>7, <1>9, <2>1
  <2>3. Resolve(Pop, frame)
    BY <1>1, <1>9 DEF Argument
  <2> HIDE DEF frame
  <2>4. QED BY <1>1, <1>2, <1>6, <1>7, <2>2, <2>3, ResolveOK
<1>10. QED BY <1>8, <1>9

\* A candidate fits or does not; the next one is tried, or it was the last.
LEMMA MatchedOK ==
  ASSUME StateOK, Cycles, NEW f, CallOK(f, n), Candidates(f, n), f.fn # "_&&_"
  PROVE  Typed(Matched(f), n)
<1>1. Over(f.result, n) /\ Typed(f.type, n)
  BY DEF Candidates, CallOK
<1>2. Over(Subst(m, f.result, FALSE), n) /\ Over(DynType, n)
  BY <1>1, ValueNow, PlainTypes
<1> DEFINE t == Subst(m, f.result, FALSE)
<1>3. Matched(f) \in {f.type, t, DynType}
  BY DEF Matched
<1> HIDE DEF t
<1>4. QED BY <1>1, <1>2, <1>3 DEF Typed, t

LEMMA PopOK ==
  ASSUME StateOK, pc \in {"assigned", "typed", "node"}, n' \in Nat, n <= n', left' = left, ok' = ok,
         Stacked(Pop, n), open' = Pop, NEW t, Over(t, n'), Returns(t),
         MapsOK' /\ PairsOK' /\ TasksOK'
  PROVE  StateOK'
<1>1. n \in Nat /\ Stacked(open', n')
  BY StackMore DEF StateOK, ScalarsOK
<1>2. ScalarsOK' /\ FramesOK'
  BY <1>1 DEF StateOK, ScalarsOK, FramesOK, Returns
<1>3. QED BY <1>2 DEF StateOK

LEMMA FailOK ==
  ASSUME StateOK, pc' = "failed", n' \in Nat, left' = left, ok' = ok,
         MapsOK' /\ PairsOK' /\ TasksOK'
  PROVE  StateOK'
<1>1. ScalarsOK' /\ FramesOK'
  BY DEF StateOK, ScalarsOK, FramesOK
<1>2. QED BY <1>1 DEF StateOK

LEMMA CandidateOK ==
  ASSUME StateOK, Cycles, Candidate
  PROVE  StateOK'
<1> DEFINE frame == [Top EXCEPT !.type = Matched(Top)]
<1>1. pc = "assigned" /\ Top.node = "call" /\ Top.fn # "_&&_" /\ m' = m /\ left' = left
  BY DEF Candidate, InNode
<1>2. Stacked(Pop, n) /\ Trying(Top, n) /\ n \in Nat
  BY <1>1, TopTrying DEF StateOK, ScalarsOK
<1>3. CallOK(Top, n) /\ Len(Top.args) = Arity(Top.fn) /\ Candidates(Top, n)
  BY <1>1, <1>2 DEF Trying, ListOK, CompOK
<1>4. Typed(Matched(Top), n)
  BY <1>1, <1>3, MatchedOK
<1>5. /\ DOMAIN frame = DOMAIN Top /\ frame.args = Top.args /\ frame.fn = Top.fn
      /\ frame.cand = Top.cand /\ frame.type = Matched(Top) /\ frame.node = "call"
      /\ frame.result = Top.result
  BY <1>1, <1>3 DEF CallOK
<1>6. /\ \/ frame.cand < Len(Overloads[frame.fn]) /\ Try(Pop, frame) /\ UNCHANGED <<typ, ok, facts>>
         \/ pc' = "failed" /\ UNCHANGED <<open, typ, n>> /\ Idle
         \/ frame.type # NoType /\ open' = Pop /\ Returns(frame.type) /\ n' = n /\ Idle
  BY DEF Candidate
<1> HIDE DEF frame
<1>7. CallOK(frame, n)
  BY <1>3, <1>4, <1>5 DEF CallOK
<1>8. CASE frame.cand < Len(Overloads[frame.fn]) /\ Try(Pop, frame) /\ UNCHANGED <<typ, ok, facts>>
  <2>1. frame.cand \in Nat
    BY <1>1, <1>3, <1>5 DEF Candidates
  <2>2. left' \in 0..Nodes
    BY <1>1 DEF StateOK, ScalarsOK
  <2>3. QED BY <1>1, <1>2, <1>3, <1>5, <1>7, <1>8, <2>1, <2>2, TryOK
<1>9. CASE pc' = "failed" /\ UNCHANGED <<open, typ, n>> /\ Idle
  <2>1. n' \in Nat /\ n <= n' /\ ok' = ok
    BY <1>2, <1>9 DEF Idle
  <2>2. MapsOK' /\ PairsOK' /\ TasksOK'
    BY <1>1, <1>9, <2>1, IdleOK
  <2>3. QED BY <1>1, <1>9, <2>1, <2>2, FailOK
<1>10. CASE frame.type # NoType /\ open' = Pop /\ Returns(frame.type) /\ n' = n /\ Idle
  <2>1. n' \in Nat /\ n <= n' /\ ok' = ok /\ pc' # "assign"
    BY <1>2, <1>10 DEF Idle, Returns
  <2>2. MapsOK' /\ PairsOK' /\ TasksOK'
    BY <1>1, <1>10, <2>1, IdleOK
  <2>3. Over(frame.type, n')
    BY <1>7, <1>10 DEF CallOK, Typed
  <2>4. QED BY <1>1, <1>2, <1>10, <2>1, <2>2, <2>3, PopOK
<1>11. QED BY <1>6, <1>8, <1>9, <1>10

LEMMA LogicalOK ==
  ASSUME StateOK, Logical
  PROVE  StateOK'
<1>1. pc = "assigned" /\ m' = m /\ n' = n /\ left' = left /\ Idle /\ ok' = ok
  BY DEF Logical, Idle
<1>2. Stacked(Pop, n) /\ n' \in Nat /\ n <= n'
  BY <1>1, TopTrying DEF StateOK, ScalarsOK
<1>3. CASE open' = Pop /\ Returns(BoolType)
  <2>1. MapsOK' /\ PairsOK' /\ TasksOK'
    BY <1>1, <1>2, <1>3, IdleOK DEF Returns
  <2>2. QED BY <1>1, <1>2, <1>3, <2>1, PlainTypes, PopOK
<1>4. CASE pc' = "failed"
  <2>1. MapsOK' /\ PairsOK' /\ TasksOK'
    BY <1>1, <1>2, <1>4, IdleOK
  <2>2. QED BY <1>1, <1>2, <1>4, <2>1, FailOK
<1>5. QED BY <1>3, <1>4 DEF Logical

-----------------------------------------------------------------------------
LEMMA ElementOK ==
  ASSUME StateOK, Element
  PROVE  StateOK'
<1>1. /\ pc = "typed" /\ InNode("list")
      /\ typ' = typ /\ m' = m /\ n' = n /\ ok' = ok /\ left' = left /\ facts' = facts
  BY DEF Element
<1>2. Stacked(Pop, n) /\ Waiting(Top, n) /\ Top.node = "list" /\ open # <<>>
  BY <1>1, TopWaiting
<1>3. ListOK(Top, n)
  BY <1>2 DEF Waiting, CallOK, CompOK
<1>4. Over(typ, n) /\ n' \in Nat /\ n <= n'
  BY <1>1 DEF StateOK, ScalarsOK
<1>5. CASE Top.type = NoType
  <2> DEFINE frame == [Top EXCEPT !.type = typ]
  <2>1. open' = Pop \o <<frame>> /\ pc' = "node" /\ UNCHANGED <<todo, saved, goal>>
    BY <1>5 DEF Element, Become
  <2>2. DOMAIN frame = DOMAIN Top /\ frame.node = "list" /\ frame.type = typ
    BY <1>2, <1>3 DEF ListOK
  <2> HIDE DEF frame
  <2>3. Waiting(frame, n)
    BY <1>3, <1>4, <2>2 DEF Waiting, ListOK, Typed
  <2>4. Stacked(open', n')
    BY <1>1, <1>2, <2>1, <2>3, StackPush
  <2>5. MapsOK' /\ PairsOK' /\ TasksOK'
    BY <1>1, <1>4, <2>1, IdleOK DEF Idle
  <2>6. ScalarsOK' /\ FramesOK'
    BY <1>1, <2>1, <2>4 DEF StateOK, ScalarsOK, FramesOK
  <2>7. QED BY <2>5, <2>6 DEF StateOK
<1>6. CASE Top.type # NoType
  <2>1. open' = open /\ Start(<<Top.type>>, <<typ>>)
    BY <1>6 DEF Element
  <2>2. Over(Top.type, n)
    BY <1>3, <1>6 DEF ListOK, Typed
  <2>3. SeqOver(<<Top.type>>, n') /\ SeqOver(<<typ>>, n') /\ Len(<<Top.type>>) = Len(<<typ>>)
    BY <1>1, <1>4, <2>2, SeqOne DEF SeqOver
  <2>4. MapsOK' /\ PairsOK' /\ TasksOK' /\ pc' = "assign"
    BY <1>1, <1>4, <2>1, <2>3, StartOK
  <2>5. Trying(Top, n)
    BY <1>3, <1>6 DEF Trying
  <2>6. FramesOK'
    BY <1>1, <1>2, <1>4, <2>1, <2>4, <2>5 DEF FramesOK, Top, Pop
  <2>7. ScalarsOK'
    BY <1>1, <2>4 DEF StateOK, ScalarsOK
  <2>8. QED BY <2>4, <2>6, <2>7 DEF StateOK
<1>7. QED BY <1>5, <1>6

LEMMA JoinOK ==
  ASSUME StateOK, Join
  PROVE  StateOK'
<1>1. /\ pc = "assigned" /\ Top.node = "list" /\ pc' = "node" /\ Idle
      /\ typ' = typ /\ m' = m /\ n' = n /\ left' = left /\ ok' = ok
      /\ open' = Pop \o << [Top EXCEPT !.type = JoinedType(Top.type, typ)] >>
  BY DEF Join, InNode, Idle, Become
<1>2. Stacked(Pop, n) /\ Trying(Top, n) /\ Over(typ, n) /\ n' \in Nat /\ n <= n'
  BY <1>1, TopTrying DEF StateOK, ScalarsOK
<1>3. ListOK(Top, n) /\ Top.type # NoType
  BY <1>1, <1>2 DEF Trying, CallOK, CompOK
<1>4. JoinedType(Top.type, typ) \in {DynType, typ, Top.type}
  BY DEF JoinedType, MostGeneral
<1>5. Over(JoinedType(Top.type, typ), n)
  BY <1>2, <1>3, <1>4, PlainTypes DEF ListOK, Typed
<1> DEFINE frame == [Top EXCEPT !.type = JoinedType(Top.type, typ)]
<1>6. DOMAIN frame = DOMAIN Top /\ frame.node = "list" /\ frame.type = JoinedType(Top.type, typ)
  BY <1>1, <1>3 DEF ListOK
<1>7. open' = Pop \o <<frame>>
  BY <1>1
<1> HIDE DEF frame
<1>8. Waiting(frame, n)
  BY <1>3, <1>5, <1>6 DEF Waiting, ListOK, Typed
<1>9. Stacked(open', n')
  BY <1>1, <1>2, <1>7, <1>8, StackPush
<1>10. MapsOK' /\ PairsOK' /\ TasksOK'
  BY <1>1, <1>2, IdleOK
<1>11. ScalarsOK' /\ FramesOK'
  BY <1>1, <1>9 DEF StateOK, ScalarsOK, FramesOK
<1>12. QED BY <1>10, <1>11 DEF StateOK

LEMMA EndListOK ==
  ASSUME StateOK, EndList
  PROVE  StateOK'
<1>1. pc = "node" /\ InNode("list") /\ open' = Pop /\ m' = m /\ left' = left /\ Idle /\ ok' = ok
  BY DEF EndList, Idle
<1>2. Stacked(Pop, n) /\ Waiting(Top, n) /\ Top.node = "list" /\ n \in Nat
  BY <1>1, TopWaiting DEF StateOK, ScalarsOK
<1>3. ListOK(Top, n)
  BY <1>2 DEF Waiting, CallOK, CompOK
<1>4. PICK t : Over(t, n') /\ Returns(List(t)) /\ n' \in Nat /\ n <= n'
  <2>1. CASE Top.type = NoType
    <3>1. Returns(List(Param(n))) /\ n' = n + 1
      BY <2>1 DEF EndList
    <3>2. n' \in Nat /\ n <= n' /\ n \in 0..(n' - 1)
      BY <1>2, <3>1
    <3>3. QED BY <3>1, <3>2, OverParam
  <2>2. CASE Top.type # NoType
    <3>1. Returns(List(Top.type)) /\ n' = n
      BY <2>2 DEF EndList
    <3>2. Over(Top.type, n)
      BY <1>3, <2>2 DEF ListOK, Typed
    <3>3. QED BY <1>2, <3>1, <3>2
  <2>3. QED BY <2>1, <2>2
<1>5. Over(List(t), n')
  BY <1>4, OverTerm DEF List
<1>6. MapsOK' /\ PairsOK' /\ TasksOK'
  BY <1>1, <1>4, IdleOK DEF Returns
<1>7. QED BY <1>1, <1>2, <1>4, <1>5, <1>6, PopOK

LEMMA SelectOK ==
  ASSUME StateOK, Cycles, Select
  PROVE  StateOK'
<1> DEFINE t == Subst(m, typ, FALSE)
           opt == t.k = "optional"
           of == IF opt THEN t.ps[1] ELSE t
           value == IF of.k = "map" THEN of.ps[2] ELSE DynType
<1>1. /\ pc = "typed" /\ InNode("select") /\ n' = n /\ ok' = ok /\ left' = left
      /\ UNCHANGED <<todo, saved, goal>>
  BY DEF Select
<1>2. Stacked(Pop, n) /\ n' \in Nat /\ n <= n' /\ Over(typ, n)
  BY <1>1, TopWaiting DEF StateOK, ScalarsOK
<1>3. Over(t, n)
  BY <1>2, ValueNow
<1>4. \/ BindsDyn(of) /\ open' = Pop /\ Returns(IF opt THEN Term("optional", <<value>>) ELSE value)
      \/ pc' = "failed" /\ UNCHANGED <<open, typ, m, facts>>
  BY DEF Select
<1> HIDE DEF t
<1>5. WellMade(t) /\ IsType(t)
  BY <1>3, ChildType DEF Over
<1>6. Over(of, n)
  <2>1. CASE opt
    <3>1. ~ IsParam(t) /\ Len(t.ps) = 1
      BY <1>5, <2>1, Children DEF IsParam, ParamsOf
    <3>2. 1 \in DOMAIN t.ps
      BY <1>5, <3>1, Children
    <3>3. QED BY <1>3, <2>1, <3>2, OverChild
  <2>2. CASE ~ opt
    BY <1>3, <2>2
  <2>3. QED BY <2>1, <2>2
<1>7. Over(value, n)
  <2> HIDE DEF of
  <2>1. CASE of.k = "map"
    <3>1. IsType(of) /\ WellMade(of)
      BY <1>6, ChildType DEF Over
    <3>2. ~ IsParam(of) /\ ParamsOf(of)
      BY <2>1, <3>1, Children DEF IsParam
    <3>3. Len(of.ps) = 2
      BY <2>1, <3>2 DEF ParamsOf
    <3>4. 2 \in DOMAIN of.ps
      BY <3>1, <3>2, <3>3, Children
    <3>5. QED BY <1>6, <2>1, <3>4, OverChild
  <2>2. CASE of.k # "map"
    BY <2>2, PlainTypes
  <2>3. QED BY <2>1, <2>2
<1>8. Over(IF opt THEN Term("optional", <<value>>) ELSE value, n)
  <2> HIDE DEF value, opt, of
  <2>1. Over(Term("optional", <<value>>), n)
    BY <1>7, OverTerm
  <2>2. QED BY <1>7, <2>1
<1> DEFINE result == IF opt THEN Term("optional", <<value>>) ELSE value
<1>9. Over(result, n')
  BY <1>1, <1>8
<1>10. CASE BindsDyn(of) /\ open' = Pop /\ Returns(result)
  <2> HIDE DEF of, result
  <2>1. MapsOK' /\ PairsOK' /\ TasksOK'
    BY <1>1, <1>2, <1>6, <1>10, DynOK DEF Returns
  <2>2. QED BY <1>1, <1>2, <1>9, <1>10, <2>1, PopOK
<1>11. CASE pc' = "failed" /\ UNCHANGED <<open, typ, m, facts>>
  <2>1. MapsOK' /\ PairsOK' /\ TasksOK'
    BY <1>1, <1>2, <1>11, IdleOK DEF Idle
  <2>2. QED BY <1>1, <1>2, <1>11, <2>1, FailOK
<1>12. QED BY <1>4, <1>10, <1>11

LEMMA RangeTypedOK ==
  ASSUME StateOK, Cycles, RangeTyped
  PROVE  StateOK'
<1> DEFINE t == Subst(m, typ, FALSE)
           var == IF t.k \in {"list", "map"} THEN t.ps[1] ELSE DynType
           accu == IF Top.collects THEN List(Param(n)) ELSE BoolType
           frame == [Top EXCEPT !.at = "step", !.var = var, !.accu = accu]
<1>1. /\ pc = "typed" /\ InNode("comp") /\ typ' = typ /\ ok' = ok /\ left' = left
      /\ UNCHANGED <<todo, saved, goal>>
  BY DEF RangeTyped
<1>2. Stacked(Pop, n) /\ Waiting(Top, n) /\ Top.node = "comp" /\ n \in Nat /\ Over(typ, n)
  BY <1>1, TopWaiting DEF StateOK, ScalarsOK
<1>3. CompOK(Top, n)
  BY <1>2 DEF Waiting, CallOK, ListOK
<1>4. Over(t, n)
  BY <1>2, ValueNow
<1>5. \/ BindsDyn(t) /\ Become(frame) /\ pc' = "node" /\ n' = (IF Top.collects THEN n + 1 ELSE n)
      \/ pc' = "failed" /\ UNCHANGED <<open, n, m, facts>>
  BY DEF RangeTyped
<1> HIDE DEF t
<1>6. Over(var, n)
  <2>1. CASE t.k \in {"list", "map"}
    <3>1. IsType(t) /\ WellMade(t)
      BY <1>4, ChildType DEF Over
    <3>2. ~ IsParam(t) /\ ParamsOf(t)
      BY <2>1, <3>1, Children DEF IsParam
    <3>3. Len(t.ps) \in {1, 2}
      BY <2>1, <3>2 DEF ParamsOf
    <3>4. 1 \in DOMAIN t.ps
      BY <3>1, <3>2, <3>3, Children
    <3>5. QED BY <1>4, <2>1, <3>4, OverChild
  <2>2. CASE t.k \notin {"list", "map"}
    BY <2>2, PlainTypes
  <2>3. QED BY <2>1, <2>2
<1>7. DOMAIN frame = DOMAIN Top /\ frame.at = "step" /\ frame.var = var /\ frame.accu = accu /\ frame.node = "comp"
  <2> HIDE DEF var, accu
  <2> QED BY <1>2, <1>3 DEF CompOK
<1> HIDE DEF var
<1>8. CASE BindsDyn(t) /\ Become(frame) /\ pc' = "node" /\ n' = (IF Top.collects THEN n + 1 ELSE n)
  <2>1. n' \in Nat /\ n <= n' /\ (Top.collects => n \in 0..(n' - 1))
    BY <1>2, <1>8
  <2>2. Over(accu, n')
    <3>1. Top.collects => Over(Param(n), n')
      BY <2>1, OverParam
    <3>2. Top.collects => Over(List(Param(n)), n')
      BY <3>1, OverTerm DEF List
    <3>3. QED BY <3>2, PlainTypes
  <2> HIDE DEF accu, frame
  <2>3. Over(var, n')
    BY <1>2, <1>6, <2>1, OverMore
  <2>4. Waiting(frame, n')
    BY <1>3, <1>7, <2>2, <2>3 DEF Waiting, CompOK
  <2>5. Stacked(open', n')
    BY <1>2, <1>8, <2>1, <2>4, StackMore, StackPush DEF Become
  <2>6. MapsOK' /\ PairsOK' /\ TasksOK'
    BY <1>1, <1>4, <1>8, <2>1, DynOK
  <2>7. ScalarsOK' /\ FramesOK'
    BY <1>1, <1>8, <2>1, <2>5 DEF StateOK, ScalarsOK, FramesOK
  <2>8. QED BY <2>6, <2>7 DEF StateOK
<1>9. CASE pc' = "failed" /\ UNCHANGED <<open, n, m, facts>>
  <2>1. n' \in Nat /\ n <= n'
    BY <1>2, <1>9
  <2>2. MapsOK' /\ PairsOK' /\ TasksOK'
    BY <1>1, <1>9, <2>1, IdleOK DEF Idle
  <2>3. QED BY <1>1, <1>9, <2>1, <2>2, FailOK
<1>10. QED BY <1>5, <1>8, <1>9

LEMMA BodyOK ==
  ASSUME StateOK, Body
  PROVE  StateOK'
<1> DEFINE outer == [Top EXCEPT !.at = "result"]
           inner == IF Top.collects THEN CallFrame("_+_", <<Top.accu, List(typ)>>)
                    ELSE CallFrame("_&&_", <<Top.accu, typ>>)
<1>1. /\ pc = "typed" /\ InNode("comp") /\ Top.at = "step"
      /\ Resolve(Pop \o <<outer>>, inner)
      /\ typ' = typ /\ m' = m /\ ok' = ok /\ left' = left /\ facts' = facts
  BY DEF Body
<1>2. Stacked(Pop, n) /\ Waiting(Top, n) /\ Top.node = "comp" /\ n \in Nat /\ Over(typ, n)
  BY <1>1, TopWaiting DEF StateOK, ScalarsOK
<1>3. CompOK(Top, n)
  BY <1>2 DEF Waiting, CallOK, ListOK
<1>4. Over(Top.accu, n) /\ Over(List(typ), n)
  BY <1>1, <1>2, <1>3, OverTerm DEF CompOK, List
<1>5. /\ DOMAIN outer = DOMAIN Top /\ outer.at = "result" /\ outer.node = "comp"
      /\ outer.var = Top.var /\ outer.accu = Top.accu
  BY <1>2, <1>3 DEF CompOK
<1> HIDE DEF outer
<1>6. Waiting(outer, n)
  BY <1>1, <1>3, <1>5 DEF Waiting, CompOK
<1>7. Stacked(Pop \o <<outer>>, n)
  BY <1>2, <1>6, StackPush
<1>8. ASSUME NEW f \in {"_+_", "_&&_"}, NEW t, Over(t, n)
      PROVE  LET c == CallFrame(f, <<Top.accu, t>>)
             IN CallOK(c, n) /\ Len(c.args) = Arity(c.fn) /\ c.cand = 0
  <2> DEFINE l == <<Top.accu, t>>
             c == CallFrame(f, l)
  <2>1. l \in Seq({Top.accu, t}) /\ Len(l) = 2 /\ l[1] = Top.accu /\ l[2] = t
    OBVIOUS
  <2>2. IsSeq(l) /\ DOMAIN l = 1..2
    BY <2>1, SeqIs
  <2>3. \A i \in DOMAIN l : l[i] = Top.accu \/ l[i] = t
    BY <2>1, <2>2
  <2> HIDE DEF l
  <2>4. SeqOver(l, n)
    BY <1>4, <1>8, <2>2, <2>3 DEF SeqOver
  <2>5. f \in Functions /\ Arity(f) = 2
    BY CheckerAssumption DEF Arity
  <2>6. /\ c.node = "call" /\ c.fn = f /\ c.args = l /\ c.cand = 0 /\ c.type = NoType
        /\ DOMAIN c = {"node", "fn", "args", "cand", "result", "type"}
    BY DEF CallFrame
  <2> HIDE DEF c
  <2>7. CallOK(c, n) /\ Len(c.args) = Arity(c.fn) /\ c.cand = 0
    BY <2>1, <2>4, <2>5, <2>6 DEF CallOK, Typed
  <2>8. QED BY <2>7 DEF c, l
<1>9. CallOK(inner, n) /\ Len(inner.args) = Arity(inner.fn) /\ inner.cand = 0
  <2>1. CASE Top.collects
    <3>1. inner = CallFrame("_+_", <<Top.accu, List(typ)>>)
      BY <2>1
    <3>2. QED BY <1>4, <1>8, <3>1
  <2>2. CASE ~ Top.collects
    <3>1. inner = CallFrame("_&&_", <<Top.accu, typ>>)
      BY <2>2
    <3>2. QED BY <1>2, <1>8, <3>1
  <2>3. QED BY <2>1, <2>2
<1> HIDE DEF inner
<1>10. QED BY <1>1, <1>7, <1>9, ResolveOK

LEMMA StepTypedOK ==
  ASSUME StateOK, StepTyped
  PROVE  StateOK'
<1>1. /\ pc = "typed" /\ InNode("comp") /\ Top.at = "result" /\ Start(<<Top.accu>>, <<typ>>)
      /\ UNCHANGED <<open, typ, m, n, ok, left, facts>>
  BY DEF StepTyped
<1>2. Stacked(Pop, n) /\ Waiting(Top, n) /\ Top.node = "comp" /\ n \in Nat /\ Over(typ, n) /\ open # <<>>
  BY <1>1, TopWaiting DEF StateOK, ScalarsOK
<1>3. CompOK(Top, n)
  BY <1>2 DEF Waiting, CallOK, ListOK
<1>4. Over(Top.accu, n)
  BY <1>1, <1>3 DEF CompOK
<1>5. SeqOver(<<Top.accu>>, n') /\ SeqOver(<<typ>>, n') /\ Len(<<Top.accu>>) = Len(<<typ>>)
  BY <1>1, <1>2, <1>4, SeqOne DEF SeqOver
<1>6. n' \in Nat /\ n <= n'
  BY <1>1, <1>2
<1>7. MapsOK' /\ PairsOK' /\ TasksOK' /\ pc' = "assign"
  BY <1>1, <1>5, <1>6, StartOK
<1>8. Trying(Top, n)
  BY <1>1, <1>3 DEF Trying
<1>9. FramesOK'
  BY <1>1, <1>2, <1>7, <1>8 DEF FramesOK, Top, Pop
<1>10. ScalarsOK'
  BY <1>1, <1>7 DEF StateOK, ScalarsOK
<1>11. QED BY <1>7, <1>9, <1>10 DEF StateOK

LEMMA ResultOK ==
  ASSUME StateOK, Cycles, Result
  PROVE  StateOK'
<1>1. pc = "assigned" /\ Top.node = "comp" /\ m' = m /\ n' = n /\ left' = left /\ Idle /\ ok' = ok
  BY DEF Result, InNode, Idle
<1>2. Stacked(Pop, n) /\ Trying(Top, n) /\ n' \in Nat /\ n <= n'
  BY <1>1, TopTrying DEF StateOK, ScalarsOK
<1>3. CompOK(Top, n) /\ Top.at = "result"
  BY <1>1, <1>2 DEF Trying, CallOK, ListOK
<1>4. Over(Subst(m, Top.accu, FALSE), n')
  BY <1>1, <1>3, ValueNow DEF CompOK
<1>5. CASE open' = Pop /\ Returns(Subst(m, Top.accu, FALSE))
  <2>1. MapsOK' /\ PairsOK' /\ TasksOK'
    BY <1>1, <1>2, <1>5, IdleOK DEF Returns
  <2>2. QED BY <1>1, <1>2, <1>4, <1>5, <2>1, PopOK
<1>6. CASE pc' = "failed"
  <2>1. MapsOK' /\ PairsOK' /\ TasksOK'
    BY <1>1, <1>2, <1>6, IdleOK
  <2>2. QED BY <1>1, <1>2, <1>6, <2>1, FailOK
<1>7. QED BY <1>5, <1>6 DEF Result

LEMMA FinishOK ==
  ASSUME StateOK, Cycles, Finish
  PROVE  StateOK'
<1>1. /\ pc = "typed" /\ open = <<>> /\ pc' = "done" /\ typ' = Subst(m, typ, TRUE)
      /\ UNCHANGED <<open, m, n, left>> /\ Idle
  BY DEF Finish
<1>2. n' \in Nat /\ n <= n' /\ Over(typ, n)
  BY <1>1 DEF StateOK, ScalarsOK
<1>3. Over(typ', n') /\ Occurring(typ') = {}
  BY <1>1, <1>2, ValueNow
<1>4. MapsOK' /\ PairsOK' /\ TasksOK'
  BY <1>1, <1>2, IdleOK
<1>5. ScalarsOK' /\ FramesOK'
  BY <1>1, <1>3 DEF StateOK, ScalarsOK, FramesOK, Idle
<1>6. QED BY <1>4, <1>5 DEF StateOK

-----------------------------------------------------------------------------
LEMMA TaskNow ==
  ASSUME StateOK, todo # <<>>
  PROVE  /\ TaskOK(Task, m, n) /\ Over(Task.t1, n) /\ Over(Task.t2, n)
         /\ n \in Nat /\ MapOver(m, n) /\ pc = "assign"
  BY SeqTail DEF StateOK, TasksOK, TaskOK, Task, ScalarsOK, MapsOK

LEMMA TwoTasks ==
  ASSUME NEW x, NEW y
  PROVE  IsSeq(<<x, y>>) /\ DOMAIN <<x, y>> = {1, 2} /\ <<x, y>>[1] = x /\ <<x, y>>[2] = y
<1>1. <<x, y>> \in Seq({x, y}) /\ Len(<<x, y>>) = 2 /\ <<x, y>>[1] = x /\ <<x, y>>[2] = y
  OBVIOUS
<1>2. IsSeq(<<x, y>>) /\ DOMAIN <<x, y>> = 1..2
  BY <1>1, SeqIs
<1>3. 1..2 = {1, 2}
  OBVIOUS
<1>4. QED BY <1>1, <1>2, <1>3

LEMMA SubstituteOK ==
  ASSUME StateOK, Assigning, NEW t, NEW p, Over(t, n), Over(p, n), IsParam(p), Substitute(t, p)
  PROVE  StateOK'
<1>1. pc = "assign" /\ todo # <<>> /\ MapOver(m, n)
  BY TaskNow DEF Assigning
<1>2. CASE t = p \/ (p \in DOMAIN m /\ m[p] = t)
  <2>1. m' = m /\ Continue(<<>>)
    BY <1>2 DEF Substitute
  <2>2. QED BY <1>1, <2>1, NoTasks, ContinueOK
<1>3. CASE ~ (t = p \/ (p \in DOMAIN m /\ m[p] = t)) /\ p \in DOMAIN m
  <2> DEFINE a == Assign(t, m[p])
             w == Widen(t, p, m[p])
             l == <<a, w>>
  <2>1. m' = m /\ Continue(l)
    BY <1>3 DEF Substitute
  <2>2. Over(m[p], n)
    BY <1>1, <1>3 DEF MapOver
  <2>3. TaskOK(a, m, n) /\ TaskOK(w, m, n)
    BY <1>3, <2>2 DEF TaskOK, Assign, Widen
  <2> HIDE DEF a, w
  <2>4. IsSeq(l) /\ \A i \in DOMAIN l : TaskOK(l[i], m, n)
    BY <2>3, TwoTasks
  <2> HIDE DEF l
  <2>5. QED BY <1>1, <2>1, <2>4, ContinueOK
<1>4. CASE ~ (t = p \/ (p \in DOMAIN m /\ m[p] = t)) /\ p \notin DOMAIN m
  <2>1. m' = Bind(p, t) /\ Continue(<<>>)
    BY <1>4 DEF Substitute
  <2>2. DOMAIN m' = DOMAIN m \cup {p} /\ \A q \in DOMAIN m' : m'[q] = IF q \in DOMAIN m THEN m[q] ELSE t
    BY <2>1 DEF Bind
  <2>3. MapOver(m', n)
    <3>1. ASSUME NEW q \in DOMAIN m' PROVE IsParam(q) /\ Over(q, n) /\ Over(m'[q], n)
      <4>1. CASE q \in DOMAIN m
        BY <1>1, <2>2, <4>1 DEF MapOver
      <4>2. CASE q \notin DOMAIN m
        BY <2>2, <4>2
      <4>3. QED BY <4>1, <4>2
    <3>2. QED BY <3>1 DEF MapOver
  <2>4. DOMAIN m \subseteq DOMAIN m'
    BY <2>2
  <2>5. QED BY <1>1, <2>1, <2>3, <2>4, NoTasks, ContinueOK
<1>5. QED BY <1>2, <1>3, <1>4

LEMMA WidenBindingOK ==
  ASSUME StateOK, WidenBinding
  PROVE  StateOK'
<1>1. pc = "assign" /\ todo # <<>> /\ Task.do = "widen" /\ Continue(<<>>)
  BY DEF WidenBinding
<1>2. /\ MapOver(m, n) /\ Over(Task.t1, n) /\ Over(Task.old, n)
      /\ Task.t2 \in DOMAIN m
  BY <1>1, TaskNow DEF TaskOK
<1>3. PICK t : /\ t \in {Task.t1, Task.old}
               /\ m' = IF NotRefIn(m, Task.t2, t) THEN [m EXCEPT ![Task.t2] = t] ELSE m
  BY DEF WidenBinding, MostGeneral
<1>4. /\ DOMAIN m' = DOMAIN m
      /\ \A q \in DOMAIN m : m'[q] = m[q] \/ m'[q] = t
  BY <1>3
<1>5. MapOver(m', n)
  BY <1>2, <1>3, <1>4 DEF MapOver
<1>6. QED BY <1>1, <1>4, <1>5, NoTasks, ContinueOK

LEMMA DescendOK ==
  ASSUME StateOK, Accept \/ Descend
  PROVE  StateOK'
<1>1. pc = "assign" /\ todo # <<>> /\ m' = m
  BY DEF Accept, Descend, Assigning
<1>2. MapOver(m, n) /\ Over(Task.t1, n) /\ Over(Task.t2, n)
  BY <1>1, TaskNow
<1>3. CASE Accept
  BY <1>1, <1>2, <1>3, NoTasks, ContinueOK DEF Accept
<1>4. CASE Descend
  <2> DEFINE l == [i \in DOMAIN Task.t1.ps |-> Assign(Task.t1.ps[i], Task.t2.ps[i])]
  <2>1. Continue(l) /\ ~ IsParam(Task.t1) /\ ~ IsParam(Task.t2) /\ Len(Task.t1.ps) = Len(Task.t2.ps)
    BY <1>4 DEF Descend, NoVariables, Alike
  <2>2. WellMade(Task.t1) /\ WellMade(Task.t2)
    BY <1>2, ChildType DEF Over
  <2>3. /\ DOMAIN Task.t1.ps = 1..Len(Task.t1.ps) /\ Len(Task.t1.ps) \in Nat
        /\ DOMAIN Task.t2.ps = DOMAIN Task.t1.ps
    BY <2>1, <2>2, Children
  <2>4. IsSeq(l) /\ DOMAIN l = DOMAIN Task.t1.ps
    <3>1. l = [i \in 1..Len(Task.t1.ps) |-> l[i]]
      BY <2>3
    <3>2. DOMAIN l = DOMAIN Task.t1.ps
      OBVIOUS
    <3> HIDE DEF l
    <3>3. QED BY <2>3, <3>1, <3>2, SeqMade
  <2>5. ASSUME NEW i \in DOMAIN Task.t1.ps PROVE TaskOK(l[i], m, n)
    <3>1. l[i] = Assign(Task.t1.ps[i], Task.t2.ps[i])
      OBVIOUS
    <3>2. Over(Task.t1.ps[i], n) /\ Over(Task.t2.ps[i], n)
      BY <1>2, <2>3, OverChild
    <3> HIDE DEF l
    <3>3. QED BY <3>1, <3>2 DEF TaskOK, Assign
  <2> HIDE DEF l
  <2>6. QED BY <1>1, <1>2, <2>1, <2>4, <2>5, ContinueOK
<1>5. QED BY <1>3, <1>4

LEMMA GiveUpOK ==
  ASSUME StateOK, GiveUp \/ Succeed
  PROVE  StateOK'
<1>1. /\ pc = "assign" /\ pc' = "assigned" /\ todo' = <<>> /\ m' \in {m, saved} /\ ok' \in BOOLEAN
      /\ goal' \cup facts' = goal \cup facts
      /\ UNCHANGED <<open, typ, n, saved, left>>
  BY DEF GiveUp, Succeed, Assigning
<1>2. MapsOK' /\ PairsOK'
  BY <1>1 DEF StateOK, MapsOK, PairsOK
<1>3. TasksOK'
  BY <1>1, NoTasks DEF TasksOK
<1>4. ScalarsOK' /\ FramesOK'
  BY <1>1 DEF StateOK, ScalarsOK, FramesOK, Top, Pop
<1>5. QED BY <1>2, <1>3, <1>4 DEF StateOK

LEMMA StateStep == StateOK /\ Cycles /\ [Next]_vars => StateOK'
<1> SUFFICES ASSUME StateOK, Cycles, [Next]_vars PROVE StateOK'
  OBVIOUS
<1>1. CASE SubstituteRight
  BY <1>1, TaskNow, SubstituteOK DEF SubstituteRight, Assigning
<1>2. CASE SubstituteLeft
  BY <1>2, TaskNow, SubstituteOK DEF SubstituteLeft, Assigning
<1>3. CASE UNCHANGED vars
  BY <1>3 DEF vars, StateOK, ScalarsOK, MapsOK, PairsOK, TasksOK, FramesOK, Top, Pop
<1>4. QED
  BY <1>1, <1>2, <1>3, LeafOK, EnterCallOK, NullaryCallOK, EnterOthersOK, ArgumentOK, CandidateOK, LogicalOK,
     ElementOK, JoinOK, EndListOK, SelectOK, RangeTypedOK, BodyOK, StepTypedOK, ResultOK, FinishOK,
     WidenBindingOK, DescendOK, GiveUpOK DEF Next

LEMMA StateInit == Init => StateOK
<1> SUFFICES ASSUME Init PROVE StateOK
  OBVIOUS
<1>1. /\ pc = "node" /\ open = <<>> /\ m = <<>> /\ n = 0 /\ todo = <<>> /\ saved = <<>>
      /\ ok = TRUE /\ left = Nodes /\ goal = {} /\ facts = {}
  BY DEF Init
<1>2. ScalarsOK
  BY <1>1, CheckerAssumption DEF ScalarsOK
<1>3. MapsOK /\ PairsOK /\ TasksOK
  BY <1>1, NoTasks DEF MapsOK, MapOver, PairsOK, TasksOK
<1>4. FramesOK
  BY <1>1, NoTasks DEF FramesOK, Stacked
<1>5. QED BY <1>2, <1>3, <1>4 DEF StateOK

\* Every step of cel._ck, cel._ck_resolve and cel._ck_assign1 finds what it
\* works on in order: frames, tasks and bindings over the variables in use.
THEOREM SpecState == Spec => []StateOK
<1>1. Init => StateOK
  BY StateInit
<1>2. StateOK /\ Cycles /\ [Next]_vars => StateOK'
  BY StateStep
<1>3. QED BY <1>1, <1>2, SpecCycles, PTL DEF Spec

\* No type in the check mentions a variable that has not been handed out, and
\* the type cel.check answers with has no variable left in it.
THEOREM SpecTypeOK == Spec => []TypeOK
  BY SpecState, StateTyped, PTL

-----------------------------------------------------------------------------
(***************************************************************************)
(* What is left of an assignment, as equations.                            *)
(***************************************************************************)
Makes(s, pairs) == \A q \in pairs : Value(s, q[1]) = Value(s, q[2])

TaskHolds(s, x) ==
  /\ Value(s, x.t1) = Value(s, x.t2)
  /\ x.do = "widen" => Value(s, x.old) = Value(s, x.t2)

LEMMA MakesPair ==
  ASSUME NEW s, NEW pairs, Makes(s, pairs), NEW t, NEW u, <<t, u>> \in pairs
  PROVE  Value(s, t) = Value(s, u)
<1> DEFINE q == <<t, u>>
<1>1. q[1] = t /\ q[2] = u
  OBVIOUS
<1>2. Value(s, q[1]) = Value(s, q[2])
  <2> HIDE DEF q
  <2>1. q \in pairs
    BY DEF q
  <2>2. QED BY <2>1 DEF Makes
<1> HIDE DEF q
<1>3. QED BY <1>1, <1>2

LEMMA AssignHolds ==
  ASSUME NEW s, NEW t, NEW u
  PROVE  TaskHolds(s, Assign(t, u)) <=> Value(s, t) = Value(s, u)
BY DEF TaskHolds, Assign

TodoHolds(s) == \A i \in DOMAIN todo : TaskHolds(s, todo[i])

(***************************************************************************)
(* The steps outside assignments are of three shapes.                      *)
(***************************************************************************)
Rests == pc' \notin {"assign", "assigned"} /\ m' = m /\ facts' = facts
Binds ==
  /\ pc' \notin {"assign", "assigned"}
  /\ \E t : IsParam(t) /\ m' = Bind(t, DynType) /\ facts' = facts \cup {<<DynType, t>>}
Begins == \E l1, l2 : Start(l1, l2) /\ m' = m /\ facts' = facts

Walking ==
  \/ Leaf \/ EnterCall \/ NullaryCall \/ EnterList \/ EnterSelect \/ EnterComp
  \/ Argument \/ Candidate \/ Logical
  \/ Element \/ Join \/ EndList \/ Select
  \/ RangeTyped \/ Body \/ StepTyped \/ Result \/ Finish

LEMMA WalkingShapes ==
  ASSUME Walking
  PROVE  pc # "assign" /\ (Rests \/ Binds \/ Begins)
<1>1. CASE Leaf
  BY <1>1 DEF Leaf, Room, Returns, Idle, Rests
<1>2. CASE EnterCall \/ EnterList \/ EnterSelect \/ EnterComp
  BY <1>2 DEF EnterCall, EnterList, EnterSelect, EnterComp, Enter, Room, Idle, Rests
<1>3. CASE Argument
  <2>1. /\ pc = "typed" /\ m' = m /\ facts' = facts
        /\ \/ pc' = "node"
           \/ Resolve(Pop, [Top EXCEPT !.args = Append(@, typ)])
    BY <1>3 DEF Argument
  <2>2. pc' = "node" \/ \E l1, l2 : Start(l1, l2)
    BY <2>1 DEF Resolve, Try
  <2>3. QED BY <2>1, <2>2 DEF Rests, Begins
<1>4. CASE Candidate
  <2>1. pc = "assigned" /\ m' = m
    BY <1>4 DEF Candidate
  <2>2. facts' = facts /\ (pc' \in {"failed", "typed"} \/ \E l1, l2 : Start(l1, l2))
    BY <1>4 DEF Candidate, Try, Idle, Returns
  <2>3. QED BY <2>1, <2>2 DEF Rests, Begins
<1>5. CASE Logical \/ Join \/ Result
  BY <1>5 DEF Logical, Join, Result, Idle, Returns, Rests
<1>6. CASE Element
  <2>1. pc = "typed" /\ m' = m /\ facts' = facts /\ (pc' = "node" \/ \E l1, l2 : Start(l1, l2))
    BY <1>6 DEF Element
  <2>2. QED BY <2>1 DEF Rests, Begins
<1>7. CASE EndList \/ Finish
  BY <1>7 DEF EndList, Finish, Idle, Returns, Rests
<1>8. CASE Select
  <2>1. /\ pc = "typed" /\ pc' \in {"typed", "failed"}
        /\ (m' = m /\ facts' = facts) \/ \E t : BindsDyn(t)
    BY <1>8 DEF Select, Returns
  <2>2. QED BY <2>1 DEF Rests, Binds, BindsDyn
<1>9. CASE RangeTyped
  <2>1. /\ pc = "typed" /\ pc' \in {"node", "failed"}
        /\ (m' = m /\ facts' = facts) \/ \E t : BindsDyn(t)
    BY <1>9 DEF RangeTyped
  <2>2. QED BY <2>1 DEF Rests, Binds, BindsDyn
<1>10. CASE Body
  <2>1. pc = "typed" /\ m' = m /\ facts' = facts /\ \E l1, l2 : Start(l1, l2)
    BY <1>10 DEF Body, Resolve, Try
  <2>2. QED BY <2>1 DEF Begins
<1>11. CASE StepTyped
  BY <1>11 DEF StepTyped, Begins
<1>12. CASE NullaryCall
  <2>1. pc = "node" /\ m' = m /\ facts' = facts /\ \E l1, l2 : Start(l1, l2)
    BY <1>12 DEF NullaryCall, Room, Try
  <2>2. QED BY <2>1 DEF Begins
<1>13. QED
  BY <1>1, <1>2, <1>3, <1>4, <1>5, <1>6, <1>7, <1>8, <1>9, <1>10, <1>11, <1>12 DEF Walking

LEMMA BindObeys ==
  ASSUME NEW t, NEW p, m' = Bind(p, t), NEW s
  PROVE  /\ Obeys(s, m) /\ Value(s, t) = Value(s, p) => Obeys(s, m')
         /\ Obeys(s, m') => Obeys(s, m) /\ (p \notin DOMAIN m => Value(s, p) = Value(s, t))
<1>1. DOMAIN m' = DOMAIN m \cup {p} /\ \A q \in DOMAIN m' : m'[q] = IF q \in DOMAIN m THEN m[q] ELSE t
  BY DEF Bind
<1>2. QED BY <1>1 DEF Obeys

LEMMA Known ==
  ASSUME StateOK, Cycles
  PROVE  /\ Bound(m) /\ Bound(saved)
         /\ \A q \in goal \cup facts : OverUnknowns(q[1]) /\ OverUnknowns(q[2])
         /\ \A t : Over(t, n) => OverUnknowns(t)
         /\ n \in Nat
<1>1. n \in Nat
  BY DEF StateOK, ScalarsOK
<1>2. Bound(m) /\ Bound(saved)
  BY <1>1, MapBound DEF StateOK, MapsOK, Cycles
<1>3. \A q \in goal \cup facts : OverUnknowns(q[1]) /\ OverUnknowns(q[2])
  BY <1>1, OverIs DEF StateOK, PairsOK
<1>4. QED BY <1>1, <1>2, <1>3, OverIs

-----------------------------------------------------------------------------
(***************************************************************************)
(* Forwards: whatever types make the pairs equal obey the bindings made    *)
(* for them, and when a pair does not fit there are none.                  *)
(***************************************************************************)
Forwards(s) ==
  /\ pc # "assign" => (Makes(s, facts) => Obeys(s, m))
  /\ pc = "assign" => (Makes(s, facts) => Obeys(s, saved))
  /\ pc = "assign" => (Makes(s, goal) /\ Obeys(s, saved) => Obeys(s, m) /\ TodoHolds(s))
  /\ pc = "assigned" /\ ~ ok => ~ (Makes(s, goal) /\ Obeys(s, m))

ForwardsOK == \A s : Valuation(s) => Forwards(s)

LEMMA ForwardsWalking ==
  ASSUME NEW s, Forwards(s), Walking
  PROVE  Forwards(s)'
<1>1. pc # "assign" /\ (Makes(s, facts) => Obeys(s, m))
  BY WalkingShapes DEF Forwards
<1>2. CASE Rests
  BY <1>1, <1>2 DEF Rests, Forwards
<1>3. CASE Binds
  <2>1. PICK t : IsParam(t) /\ m' = Bind(t, DynType) /\ facts' = facts \cup {<<DynType, t>>}
    BY <1>3 DEF Binds
  <2>2. ASSUME Makes(s, facts') PROVE Obeys(s, m')
    <3>1. Makes(s, facts) /\ Value(s, DynType) = Value(s, t)
      <4>1. Makes(s, facts)
        BY <2>1, <2>2 DEF Makes
      <4>2. <<DynType, t>> \in facts'
        BY <2>1
      <4>3. QED BY <2>2, <4>1, <4>2, MakesPair
    <3>2. QED BY <1>1, <2>1, <3>1, BindObeys
  <2>3. QED BY <1>3, <2>2 DEF Binds, Forwards
<1>4. CASE Begins
  <2>1. PICK l1, l2 : Start(l1, l2) /\ m' = m /\ facts' = facts
    BY <1>4 DEF Begins
  <2>2. pc' = "assign" /\ saved' = m
    BY <2>1 DEF Start
  <2>3. ASSUME Makes(s, goal') PROVE TodoHolds(s)'
    <3>1. ASSUME NEW i \in DOMAIN l1 PROVE Value(s, l1[i]) = Value(s, l2[i])
      <4>1. <<l1[i], l2[i]>> \in goal'
        BY <2>1 DEF Start
      <4>2. QED BY <2>3, <4>1, MakesPair
    <3>2. DOMAIN todo' = DOMAIN l1 /\ \A i \in DOMAIN todo' : todo'[i] = Assign(l1[i], l2[i])
      BY <2>1 DEF Start
    <3>3. ASSUME NEW i \in DOMAIN todo' PROVE TaskHolds(s, todo'[i])
      BY <3>1, <3>2 DEF TaskHolds, Assign
    <3>4. QED BY <3>3 DEF TodoHolds
  <2>4. QED BY <1>1, <2>1, <2>2, <2>3 DEF Forwards
<1>5. QED BY <1>2, <1>3, <1>4, WalkingShapes

\* A task that holds leaves tasks that hold, and bindings that are obeyed.
LEMMA ForwardsContinue ==
  ASSUME NEW s, Forwards(s), pc = "assign", StateOK, todo # <<>>, NEW tasks, IsSeq(tasks), Continue(tasks),
         Obeys(s, m) /\ TaskHolds(s, Task) => Obeys(s, m') /\ \A i \in DOMAIN tasks : TaskHolds(s, tasks[i])
  PROVE  Forwards(s)'
<1>1. UNCHANGED <<pc, saved, ok, goal, facts>> /\ todo' = tasks \o Tail(todo)
  BY DEF Continue
<1>2. /\ 1 \in DOMAIN todo /\ IsSeq(Tail(todo))
      /\ \A i \in DOMAIN Tail(todo) : i + 1 \in DOMAIN todo /\ Tail(todo)[i] = todo[i + 1]
  BY SeqTail DEF StateOK, TasksOK
<1>3. ASSUME Obeys(s, m), TodoHolds(s) PROVE Obeys(s, m') /\ TodoHolds(s)'
  <2>1. TaskHolds(s, Task)
    BY <1>2, <1>3 DEF TodoHolds, Task
  <2>2. Obeys(s, m') /\ \A i \in DOMAIN tasks : TaskHolds(s, tasks[i])
    BY <1>3, <2>1
  <2>3. \A i \in DOMAIN Tail(todo) : TaskHolds(s, Tail(todo)[i])
    BY <1>2, <1>3 DEF TodoHolds
  <2>4. ASSUME NEW i \in DOMAIN todo' PROVE TaskHolds(s, todo'[i])
    <3>1. \/ i \in DOMAIN tasks /\ todo'[i] = tasks[i]
          \/ i - Len(tasks) \in DOMAIN Tail(todo) /\ todo'[i] = Tail(todo)[i - Len(tasks)]
      BY <1>1, <1>2, <2>4, SeqJoin
    <3>2. QED BY <2>2, <2>3, <3>1
  <2>5. QED BY <2>2, <2>4 DEF TodoHolds
<1>4. QED BY <1>1, <1>3 DEF Forwards

LEMMA ForwardsSubstitute ==
  ASSUME NEW s, Forwards(s), StateOK, Assigning, NEW t, NEW p,
         TaskHolds(s, Task) => Value(s, t) = Value(s, p), Substitute(t, p)
  PROVE  Forwards(s)'
<1>1. pc = "assign" /\ todo # <<>>
  BY DEF Assigning
<1>2. CASE m' = m /\ Continue(<<>>)
  <2>1. Obeys(s, m) /\ TaskHolds(s, Task) => Obeys(s, m') /\ \A i \in DOMAIN <<>> : TaskHolds(s, <<>>[i])
    BY <1>2, NoTasks
  <2>2. QED BY <1>1, <1>2, <2>1, NoTasks, ForwardsContinue
<1>3. CASE p \in DOMAIN m /\ m' = m /\ Continue(<<Assign(t, m[p]), Widen(t, p, m[p])>>)
  <2> DEFINE a == Assign(t, m[p])
             w == Widen(t, p, m[p])
             l == <<a, w>>
  <2>1. ASSUME Obeys(s, m), TaskHolds(s, Task) PROVE TaskHolds(s, a) /\ TaskHolds(s, w)
    <3>1. Value(s, t) = Value(s, p) /\ Value(s, p) = Value(s, m[p])
      BY <1>3, <2>1 DEF Obeys
    <3>2. QED BY <3>1 DEF TaskHolds, Assign, Widen
  <2> HIDE DEF a, w
  <2>2. IsSeq(l) /\ DOMAIN l = {1, 2} /\ l[1] = a /\ l[2] = w
    BY TwoTasks
  <2>3. Continue(l)
    BY <1>3 DEF a, w
  <2> HIDE DEF l
  <2>4. Obeys(s, m) /\ TaskHolds(s, Task) => Obeys(s, m') /\ \A i \in DOMAIN l : TaskHolds(s, l[i])
    BY <1>3, <2>1, <2>2
  <2>5. QED BY <1>1, <2>2, <2>3, <2>4, ForwardsContinue
<1>4. CASE m' = Bind(p, t) /\ Continue(<<>>)
  <2>1. Obeys(s, m) /\ TaskHolds(s, Task) => Obeys(s, m')
    BY <1>4, BindObeys
  <2>2. Obeys(s, m) /\ TaskHolds(s, Task) => Obeys(s, m') /\ \A i \in DOMAIN <<>> : TaskHolds(s, <<>>[i])
    BY <2>1, NoTasks
  <2>3. QED BY <1>1, <1>4, <2>2, NoTasks, ForwardsContinue
<1>5. QED BY <1>2, <1>3, <1>4 DEF Substitute

LEMMA ForwardsWiden ==
  ASSUME NEW s, Forwards(s), StateOK, WidenBinding
  PROVE  Forwards(s)'
<1>1. pc = "assign" /\ todo # <<>> /\ Task.do = "widen" /\ Continue(<<>>)
  BY DEF WidenBinding
<1>2. PICK t : /\ t \in {Task.t1, Task.old}
               /\ m' = IF NotRefIn(m, Task.t2, t) THEN [m EXCEPT ![Task.t2] = t] ELSE m
  BY DEF WidenBinding, MostGeneral
<1>3. DOMAIN m' = DOMAIN m /\ \A q \in DOMAIN m : m'[q] = m[q] \/ (q = Task.t2 /\ m'[q] = t)
  BY <1>2
<1>4. Obeys(s, m) /\ TaskHolds(s, Task) => Obeys(s, m')
  BY <1>1, <1>2, <1>3 DEF Obeys, TaskHolds
<1>5. Obeys(s, m) /\ TaskHolds(s, Task) => Obeys(s, m') /\ \A i \in DOMAIN <<>> : TaskHolds(s, <<>>[i])
  BY <1>4, NoTasks
<1>6. QED BY <1>1, <1>5, NoTasks, ForwardsContinue

\* Types that no valuation makes equal, or that are assigned part by part.
LEMMA SameKind ==
  ASSUME NEW s, Valuation(s), NEW t1, NEW t2, OverUnknowns(t1), OverUnknowns(t2),
         ~ IsParam(t1), ~ IsParam(t2), Value(s, t1) = Value(s, t2)
  PROVE  /\ t1.k = t2.k /\ DOMAIN t1.ps = DOMAIN t2.ps
         /\ \A i \in DOMAIN t1.ps : Value(s, t1.ps[i]) = Value(s, t2.ps[i])
<1>1. Sound(s) /\ IsType(t1) /\ IsType(t2)
  BY ValuationSound DEF OverUnknowns
<1>2. QED BY <1>1, ValueChildren

LEMMA NoMisfit ==
  ASSUME NEW s, Valuation(s), StateOK, Cycles, Obeys(s, m), Assigning, TaskHolds(s, Task)
  PROVE  ~ Misfits
<1> DEFINE t1 == Task.t1
           t2 == Task.t2
<1>1. OverUnknowns(t1) /\ OverUnknowns(t2) /\ Bound(m) /\ Value(s, t1) = Value(s, t2)
  BY TaskNow, Known DEF Assigning, TaskHolds
<1>2. IsType(t1) /\ IsType(t2) /\ WellMade(t1) /\ WellMade(t2)
  BY <1>1, ChildType DEF OverUnknowns
<1>3. \A p, t : /\ OverUnknowns(p) /\ IsParam(p) /\ OverUnknowns(t) /\ ~ IsParam(t) /\ Value(s, p) = Value(s, t)
                => CanSubstitute(t, p)
  <2>1. ASSUME NEW p, NEW t, OverUnknowns(p), IsParam(p), OverUnknowns(t), ~ IsParam(t), Value(s, p) = Value(s, t)
        PROVE  CanSubstitute(t, p)
    <3>1. p \in Unknowns
      BY <2>1 DEF OverUnknowns, Occurring, Parts
    <3>2. NotRefIn(m, p, t)
      BY <1>1, <2>1, <3>1, CheckPasses
    <3>3. QED BY <3>2 DEF CanSubstitute
  <2>2. QED BY <2>1
<1>4. CASE IsParam(t1) /\ ~ IsParam(t2)
  <2>1. CanSubstitute(t2, t1)
    BY <1>1, <1>3, <1>4
  <2>2. QED BY <1>4, <2>1 DEF Misfits, NoVariables
<1>5. CASE IsParam(t2) /\ ~ IsParam(t1)
  <2>1. CanSubstitute(t1, t2)
    BY <1>1, <1>3, <1>5
  <2>2. QED BY <1>5, <2>1 DEF Misfits, NoVariables
<1>6. CASE IsParam(t1) /\ IsParam(t2)
  <2>1. CanSubstitute(t1, t2) \/ CanSubstitute(t2, t1)
    BY <1>2, <1>6, CheckPassesParam DEF CanSubstitute
  <2>2. QED BY <1>6, <2>1 DEF Misfits, NoVariables
<1>7. CASE ~ IsParam(t1) /\ ~ IsParam(t2)
  <2>1. t1.k = t2.k /\ DOMAIN t1.ps = DOMAIN t2.ps
    BY <1>1, <1>7, SameKind
  <2>2. Len(t1.ps) = Len(t2.ps)
    BY <1>2, <1>7, <2>1, Children
  <2>3. CASE t1.k \in {"list", "map", "optional"}
    BY <1>7, <2>1, <2>2, <2>3 DEF Misfits, NoVariables, Alike, Composite
  <2>4. CASE t1.k = "wrapper"
    <3>1. ASSUME NEW t, IsType(t), t.k = "wrapper", ~ IsParam(t) PROVE Value(s, t) = t
      <4>1. t.ps[1] = Plain(t.ps[1].k) /\ ~ IsParam(t.ps[1]) /\ Len(t.ps) = 1 /\ WellMade(t)
        BY <3>1, ChildType, Children DEF ParamsOf
      <4>2. DOMAIN t.ps = {1}
        BY <3>1, <4>1, Children
      <4>3. Occurring(t.ps[1]) = {}
        BY <4>1, PlainIs DEF Occurring
      <4>4. Occurring(t) = {}
        BY <3>1, <4>2, <4>3, OccursBelow
      <4>5. QED BY <3>1, <4>4, ValuationSound, ValueAlone
    <3>2. t1 = t2
      BY <1>1, <1>2, <1>7, <2>1, <2>4, <3>1
    <3>3. Accepts(t1, t2)
      BY <2>1, <2>4, <3>2 DEF Accepts
    <3>4. QED BY <1>7, <3>3 DEF Misfits, NoVariables
  <2>5. CASE t1.k \notin {"list", "map", "optional", "wrapper"}
    <3>1. Accepts(t1, t2)
      BY <2>1, <2>5 DEF Accepts, Composite
    <3>2. QED BY <1>7, <3>1 DEF Misfits, NoVariables
  <2>6. QED BY <2>3, <2>4, <2>5
<1>8. QED BY <1>4, <1>5, <1>6, <1>7

LEMMA ForwardsGiveUp ==
  ASSUME NEW s, Valuation(s), Forwards(s), StateOK, Cycles, GiveUp
  PROVE  Forwards(s)'
<1>1. /\ Assigning /\ Misfits /\ pc = "assign" /\ todo # <<>>
      /\ pc' = "assigned" /\ m' = saved /\ goal' = goal /\ facts' = facts
  BY DEF GiveUp, Assigning
<1>2. ASSUME Makes(s, goal), Obeys(s, saved) PROVE FALSE
  <2>1. Obeys(s, m) /\ TodoHolds(s)
    BY <1>1, <1>2 DEF Forwards
  <2>2. 1 \in DOMAIN todo
    BY <1>1, SeqTail DEF StateOK, TasksOK
  <2>3. TaskHolds(s, Task)
    BY <2>1, <2>2 DEF TodoHolds, Task
  <2>4. QED BY <1>1, <2>1, <2>3, NoMisfit
<1>3. QED BY <1>1, <1>2 DEF Forwards

LEMMA ForwardsOthers ==
  ASSUME NEW s, Valuation(s), Forwards(s), StateOK, Cycles, Accept \/ Descend \/ Succeed
  PROVE  Forwards(s)'
<1>1. CASE Accept
  <2>1. pc = "assign" /\ todo # <<>> /\ m' = m /\ Continue(<<>>)
    BY <1>1 DEF Accept, Assigning
  <2>2. Obeys(s, m) /\ TaskHolds(s, Task) => Obeys(s, m') /\ \A i \in DOMAIN <<>> : TaskHolds(s, <<>>[i])
    BY <2>1, NoTasks
  <2>3. QED BY <2>1, <2>2, NoTasks, ForwardsContinue
<1>2. CASE Descend
  <2> DEFINE l == [i \in DOMAIN Task.t1.ps |-> Assign(Task.t1.ps[i], Task.t2.ps[i])]
  <2>1. /\ pc = "assign" /\ todo # <<>> /\ m' = m /\ Continue(l)
        /\ ~ IsParam(Task.t1) /\ ~ IsParam(Task.t2)
    BY <1>2 DEF Descend, Assigning, NoVariables
  <2>2. OverUnknowns(Task.t1) /\ OverUnknowns(Task.t2)
    BY <2>1, TaskNow, Known
  <2>3. WellMade(Task.t1)
    BY <2>2, ChildType DEF OverUnknowns
  <2>4. IsSeq(l)
    <3>1. DOMAIN Task.t1.ps = 1..Len(Task.t1.ps) /\ Len(Task.t1.ps) \in Nat
      BY <2>1, <2>3, Children
    <3>2. l = [i \in 1..Len(Task.t1.ps) |-> l[i]]
      BY <3>1
    <3> HIDE DEF l
    <3>3. QED BY <3>1, <3>2, SeqMade
  <2>5. ASSUME TaskHolds(s, Task) PROVE \A i \in DOMAIN l : TaskHolds(s, l[i])
    <3>1. \A i \in DOMAIN Task.t1.ps : Value(s, Task.t1.ps[i]) = Value(s, Task.t2.ps[i])
      BY <2>1, <2>2, <2>5, SameKind DEF TaskHolds
    <3>2. DOMAIN l = DOMAIN Task.t1.ps /\ \A i \in DOMAIN l : l[i] = Assign(Task.t1.ps[i], Task.t2.ps[i])
      OBVIOUS
    <3> HIDE DEF l
    <3>3. ASSUME NEW i \in DOMAIN l PROVE TaskHolds(s, l[i])
      <4>1. l[i] = Assign(Task.t1.ps[i], Task.t2.ps[i]) /\ Value(s, Task.t1.ps[i]) = Value(s, Task.t2.ps[i])
        BY <3>1, <3>2
      <4>2. QED BY <4>1, AssignHolds
    <3>4. QED BY <3>3
  <2> HIDE DEF l
  <2>6. Obeys(s, m) /\ TaskHolds(s, Task) => Obeys(s, m') /\ \A i \in DOMAIN l : TaskHolds(s, l[i])
    BY <2>1, <2>5
  <2>7. QED BY <2>1, <2>4, <2>6, ForwardsContinue
<1>3. CASE Succeed
  <2>1. pc = "assign" /\ pc' = "assigned" /\ ok' = TRUE /\ facts' = facts \cup goal /\ m' = m
    BY <1>3 DEF Succeed
  <2>2. Makes(s, facts') => Makes(s, facts) /\ Makes(s, goal)
    BY <2>1 DEF Makes
  <2>3. QED BY <2>1, <2>2 DEF Forwards
<1>4. QED BY <1>1, <1>2, <1>3

LEMMA ForwardsStep == ForwardsOK /\ StateOK /\ Cycles /\ [Next]_vars => ForwardsOK'
<1> SUFFICES ASSUME ForwardsOK, StateOK, Cycles, [Next]_vars, NEW s, Valuation(s) PROVE Forwards(s)'
  BY DEF ForwardsOK
<1>1. Forwards(s)
  BY DEF ForwardsOK
<1>2. CASE Walking
  BY <1>1, <1>2, ForwardsWalking
<1>3. CASE SubstituteRight
  <2>1. Assigning /\ Substitute(Task.t1, Task.t2)
    BY <1>3 DEF SubstituteRight
  <2>2. TaskHolds(s, Task) => Value(s, Task.t1) = Value(s, Task.t2)
    BY DEF TaskHolds
  <2>3. QED BY <1>1, <2>1, <2>2, ForwardsSubstitute
<1>4. CASE SubstituteLeft
  <2>1. Assigning /\ Substitute(Task.t2, Task.t1)
    BY <1>4 DEF SubstituteLeft
  <2>2. TaskHolds(s, Task) => Value(s, Task.t2) = Value(s, Task.t1)
    BY DEF TaskHolds
  <2>3. QED BY <1>1, <2>1, <2>2, ForwardsSubstitute
<1>5. CASE UNCHANGED vars
  BY <1>1, <1>5 DEF vars, Forwards, TodoHolds
<1>6. QED
  BY <1>1, <1>2, <1>3, <1>4, <1>5, ForwardsWiden, ForwardsGiveUp, ForwardsOthers DEF Next, Walking

LEMMA ForwardsInit == Init => ForwardsOK
<1> SUFFICES ASSUME Init, NEW s PROVE Forwards(s)
  BY DEF ForwardsOK
<1>1. pc = "node" /\ m = <<>>
  BY DEF Init
<1>2. DOMAIN m = {}
  BY <1>1, NoTasks
<1>3. QED BY <1>1, <1>2 DEF Forwards, Obeys

\* At each step of an assignment, types that make its pairs equal and obey the
\* bindings before it also solve what is left to do: nothing is bound rashly.
THEOREM SpecForwards == Spec => []ForwardsOK
<1>1. Init => ForwardsOK
  BY ForwardsInit
<1>2. ForwardsOK /\ StateOK /\ Cycles /\ [Next]_vars => ForwardsOK'
  BY ForwardsStep
<1>3. QED BY <1>1, <1>2, SpecState, SpecCycles, PTL DEF Spec

-----------------------------------------------------------------------------
(***************************************************************************)
(* Types for some variables, extended to all.                              *)
(***************************************************************************)
LEMMA Extended ==
  ASSUME NEW D, D \subseteq Unknowns, NEW s \in [D -> Grounds]
  PROVE  \E z : Valuation(z) /\ \A t : OverUnknowns(t) /\ Occurring(t) \subseteq D => Value(z, t) = Value(s, t)
<1> DEFINE z == [p \in Unknowns |-> IF p \in D THEN s[p] ELSE IntType]
<1>1. \A p \in D : IsType(s[p]) /\ Occurring(s[p]) = {}
  BY CheckerAssumption DEF Ground
<1>2. IsType(IntType) /\ Occurring(IntType) = {}
  BY PlainType DEF IntType
<1>3. DOMAIN z = Unknowns /\ \A p \in Unknowns : z[p] = IF p \in D THEN s[p] ELSE IntType
  OBVIOUS
<1> HIDE DEF z
<1>4. Valuation(z)
  BY <1>1, <1>2, <1>3 DEF Valuation
<1>5. Sound(s) /\ DOMAIN s = D
  <2>1. TypeMap(s)
    BY <1>1, UnknownType DEF TypeMap
  <2>2. QED BY <1>1, <2>1, ApartSound
<1>6. ASSUME NEW t, OverUnknowns(t), Occurring(t) \subseteq D PROVE Value(z, t) = Value(s, t)
  <2>1. ASSUME NEW p \in Occurring(t) PROVE Value(z, p) = Value(s, p)
    <3>1. p \in D /\ p \in Unknowns
      BY <1>6
    <3>2. Value(z, p) = s[p]
      BY <1>3, <1>4, <3>1, ValuationAt
    <3>3. IsType(p) /\ IsParam(p)
      BY <3>1, UnknownType
    <3>4. Value(s, p) = Value(s, s[p])
      BY <1>5, <3>1, <3>3, ValueParam
    <3>5. Value(s, s[p]) = s[p]
      BY <1>1, <1>5, <3>1, ValueAlone
    <3>6. QED BY <3>2, <3>4, <3>5
  <2>2. QED BY <1>4, <1>5, <1>6, <2>1, ValuationSound, ValueAgree DEF OverUnknowns
<1>7. QED BY <1>4, <1>6

LEMMA UnifiesMakes ==
  ASSUME NEW s, NEW pairs
  PROVE  Unifies(s, pairs) <=> Makes(s, pairs)
BY Zenon DEF Unifies, Makes, Value

LEMMA VariablesOf ==
  ASSUME NEW pairs, NEW q \in pairs
  PROVE  Occurring(q[1]) \subseteq Variables(pairs) /\ Occurring(q[2]) \subseteq Variables(pairs)
BY DEF Variables

LEMMA MakesMore ==
  ASSUME NEW s, NEW pairs
  PROVE  Makes(s, pairs) <=> \A q \in pairs : Value(s, q[1]) = Value(s, q[2])
BY DEF Makes

LEMMA VariablesUnknown ==
  ASSUME NEW pairs, \A q \in pairs : OverUnknowns(q[1]) /\ OverUnknowns(q[2])
  PROVE  Variables(pairs) \subseteq Unknowns
BY DEF Variables, OverUnknowns

LEMMA BindingPairs ==
  ASSUME StateOK, Cycles
  PROVE  \A q \in Bindings : /\ OverUnknowns(q[1]) /\ OverUnknowns(q[2])
                             /\ q[1] \in DOMAIN m /\ q[2] = m[q[1]]
<1>1. SUFFICES ASSUME NEW p \in DOMAIN m
               PROVE  OverUnknowns(p) /\ OverUnknowns(m[p])
  BY DEF Bindings, BindingsOf
<1>2. p \in Unknowns /\ OverUnknowns(m[p])
  BY Known DEF Bound
<1>3. QED BY <1>2, UnknownType

LEMMA ForwardsMore == ForwardsOK /\ StateOK /\ Cycles => NothingMore
<1> SUFFICES ASSUME ForwardsOK, StateOK, Cycles, pc = "assigned",
                    NEW s \in [Variables(facts \cup Bindings) -> Grounds], Unifies(s, facts)
             PROVE  Unifies(s, Bindings)
  BY DEF NothingMore
<1> DEFINE pairs == facts \cup Bindings
           D == Variables(pairs)
<1>1. \A q \in pairs : OverUnknowns(q[1]) /\ OverUnknowns(q[2])
  BY Known, BindingPairs
<1>2. D \subseteq Unknowns
  BY <1>1, VariablesUnknown
<1>3. \A q \in pairs : Occurring(q[1]) \subseteq D /\ Occurring(q[2]) \subseteq D
  BY VariablesOf
<1> HIDE DEF D
<1>4. s \in [D -> Grounds]
  BY DEF D
<1>5. PICK z : Valuation(z) /\ \A t : OverUnknowns(t) /\ Occurring(t) \subseteq D => Value(z, t) = Value(s, t)
  BY <1>2, <1>4, Extended
<1>6. \A q \in pairs : Value(z, q[1]) = Value(s, q[1]) /\ Value(z, q[2]) = Value(s, q[2])
  BY <1>1, <1>3, <1>5
<1>7. Makes(z, facts)
  <2>1. Makes(s, facts)
    BY UnifiesMakes
  <2>2. QED BY <1>6, <2>1, MakesMore
<1>8. Obeys(z, m)
  BY <1>5, <1>7 DEF ForwardsOK, Forwards
<1>9. Makes(s, Bindings)
  <2>1. ASSUME NEW q \in Bindings PROVE Value(s, q[1]) = Value(s, q[2])
    <3>1. q[1] \in DOMAIN m /\ q[2] = m[q[1]]
      BY BindingPairs
    <3>2. Value(z, q[1]) = Value(z, q[2])
      BY <1>8, <3>1 DEF Obeys
    <3>3. QED BY <1>6, <3>2
  <2>2. QED BY <2>1, MakesMore
<1>10. QED BY <1>9, UnifiesMakes

\* In NothingMore's words: whatever types unify all that was assigned unify
\* every variable and what it is bound to.
THEOREM SpecNothingMore == Spec => []NothingMore
<1>1. ForwardsOK /\ StateOK /\ Cycles => NothingMore
  BY ForwardsMore
<1>2. QED BY <1>1, SpecForwards, SpecState, SpecCycles, PTL

LEMMA ForwardsRejects == ForwardsOK /\ StateOK /\ Cycles => RejectsOnlyMisfits
<1> DEFINE pairs == {<<Subst(m, q[1], FALSE), Subst(m, q[2], FALSE)>> : q \in goal}
           D == Variables(pairs)
<1> SUFFICES ASSUME ForwardsOK, StateOK, Cycles, pc = "assigned", ~ ok,
                    NEW s \in [D -> Grounds], Unifies(s, pairs)
             PROVE  FALSE
  BY DEF RejectsOnlyMisfits
<1>1. pairs = {<<Value(m, q[1]), Value(m, q[2])>> : q \in goal}
  BY Zenon DEF Value
<1> HIDE DEF pairs
<1>2. \A q \in goal : OverUnknowns(q[1]) /\ OverUnknowns(q[2])
  BY Known
<1>3. ASSUME NEW q \in goal
      PROVE  /\ OverUnknowns(Value(m, q[1])) /\ OverUnknowns(Value(m, q[2]))
             /\ <<Value(m, q[1]), Value(m, q[2])>> \in pairs
             /\ Occurring(Value(m, q[1])) \subseteq D /\ Occurring(Value(m, q[2])) \subseteq D
  <2>1. OverUnknowns(Value(m, q[1])) /\ OverUnknowns(Value(m, q[2]))
    BY <1>2, Known, BoundValue
  <2> DEFINE r == <<Value(m, q[1]), Value(m, q[2])>>
  <2>2. r \in pairs
    BY <1>1
  <2>3. r[1] = Value(m, q[1]) /\ r[2] = Value(m, q[2])
    OBVIOUS
  <2>4. Occurring(r[1]) \subseteq D /\ Occurring(r[2]) \subseteq D
    <3> HIDE DEF r
    <3> QED BY <2>2, VariablesOf
  <2>5. QED BY <2>1, <2>2, <2>3, <2>4
<1>4. D \subseteq Unknowns
  <2>1. ASSUME NEW r \in pairs PROVE OverUnknowns(r[1]) /\ OverUnknowns(r[2])
    <3>1. PICK q \in goal : r = <<Value(m, q[1]), Value(m, q[2])>>
      BY <1>1
    <3>2. r[1] = Value(m, q[1]) /\ r[2] = Value(m, q[2])
      BY <3>1
    <3>3. QED BY <1>3, <3>2
  <2>2. QED BY <2>1, VariablesUnknown
<1> HIDE DEF D
<1>5. PICK z : Valuation(z) /\ \A t : OverUnknowns(t) /\ Occurring(t) \subseteq D => Value(z, t) = Value(s, t)
  BY <1>4, Extended
<1> DEFINE w == Composed(z, m)
<1>6. Valuation(w) /\ Obeys(w, m) /\ \A t : OverUnknowns(t) => Value(w, t) = Value(z, Value(m, t))
  BY <1>5, Known, Through
<1> HIDE DEF w
<1>7. Makes(s, pairs)
  BY UnifiesMakes
<1>8. ASSUME NEW q \in goal PROVE Value(w, q[1]) = Value(w, q[2])
  <2>1. Value(s, Value(m, q[1])) = Value(s, Value(m, q[2]))
    <3>1. <<Value(m, q[1]), Value(m, q[2])>> \in pairs
      BY <1>3
    <3>2. QED BY <1>7, <3>1, MakesPair
  <2>2. /\ Value(z, Value(m, q[1])) = Value(s, Value(m, q[1]))
        /\ Value(z, Value(m, q[2])) = Value(s, Value(m, q[2]))
    BY <1>3, <1>5
  <2>3. Value(w, q[1]) = Value(z, Value(m, q[1])) /\ Value(w, q[2]) = Value(z, Value(m, q[2]))
    BY <1>2, <1>6
  <2>4. QED BY <2>1, <2>2, <2>3
<1>9. Makes(w, goal)
  BY <1>8, MakesMore
<1>10. QED BY <1>6, <1>9 DEF ForwardsOK, Forwards

\* In RejectsOnlyMisfits' words: cel._ck_assign_list answers no only where no
\* types for the variables would make the argument types those asked for.
THEOREM SpecRejectsOnlyMisfits == Spec => []RejectsOnlyMisfits
<1>1. ForwardsOK /\ StateOK /\ Cycles => RejectsOnlyMisfits
  BY ForwardsRejects
<1>2. QED BY <1>1, SpecForwards, SpecState, SpecCycles, PTL

-----------------------------------------------------------------------------
(***************************************************************************)
(* Backwards: whatever types obey the bindings make all strict pairs equal *)
(* that were assigned. While an assignment is under way, those that also   *)
(* make equal what is left of it do; and a binding is widened to a type    *)
(* that the bindings and the assignments before it make equal to it.       *)
(***************************************************************************)
StrictMap(f) == \A p \in DOMAIN f : Strict(f[p])
StrictTask(x) == Strict(x.t1) /\ Strict(x.t2) /\ (x.do = "widen" => Strict(x.old))

AssignsHold(s, l) == \A j \in DOMAIN l : l[j].do = "assign" => TaskHolds(s, l[j])
AssignsUpTo(s, l, i) == \A j \in DOMAIN l : j < i /\ l[j].do = "assign" => TaskHolds(s, l[j])

Entailed(f, l) ==
  \A i \in DOMAIN l : l[i].do = "widen" =>
    \A s : Valuation(s) /\ Obeys(s, f) /\ AssignsUpTo(s, l, i) => TaskHolds(s, l[i])

Kept(f, pairs) ==
  StrictPairs(pairs) => StrictMap(f) /\ \A s : Valuation(s) /\ Obeys(s, f) => Makes(s, pairs)

Underway ==
  StrictPairs(facts \cup goal) =>
    /\ StrictMap(m) /\ \A i \in DOMAIN todo : StrictTask(todo[i])
    /\ Entailed(m, todo)
    /\ \A s : Valuation(s) /\ Obeys(s, m) /\ AssignsHold(s, todo) => Makes(s, facts \cup goal)

BackwardsOK ==
  /\ pc # "assign" => Kept(m, facts)
  /\ pc = "assign" => Kept(saved, facts) /\ Underway

LEMMA BackwardsWalking ==
  ASSUME BackwardsOK, Walking
  PROVE  BackwardsOK'
<1>1. Kept(m, facts)
  BY WalkingShapes DEF BackwardsOK
<1>2. CASE Rests
  BY <1>1, <1>2 DEF Rests, BackwardsOK
<1>3. CASE Binds
  <2>1. PICK t : facts' = facts \cup {<<DynType, t>>}
    BY <1>3 DEF Binds
  <2> DEFINE q == <<DynType, t>>
  <2>2. q \in facts' /\ q[1] = DynType
    BY <2>1
  <2> HIDE DEF q
  <2>3. ~ Strict(DynType)
    <3>1. DynType \in Parts(DynType) /\ DynType.k = "dyn"
      BY PlainIs DEF DynType, Parts
    <3>2. QED BY <3>1 DEF Strict, DynOrErr, IsDyn
  <2>4. ~ StrictPairs(facts')
    BY <2>2, <2>3 DEF StrictPairs
  <2>5. Kept(m', facts')
    BY <2>4 DEF Kept
  <2>6. QED BY <1>3, <2>5 DEF Binds, BackwardsOK
<1>4. CASE Begins
  <2>1. PICK l1, l2 : Start(l1, l2) /\ m' = m /\ facts' = facts
    BY <1>4 DEF Begins
  <2>2. /\ pc' = "assign" /\ saved' = m
        /\ DOMAIN todo' = DOMAIN l1 /\ \A i \in DOMAIN todo' : todo'[i] = Assign(l1[i], l2[i])
        /\ goal' = {<<l1[i], l2[i]>> : i \in DOMAIN l1}
    BY <2>1 DEF Start
  <2>3. Kept(saved', facts')
    BY <1>1, <2>1, <2>2
  <2>4. ASSUME StrictPairs(facts' \cup goal')
        PROVE  /\ StrictMap(m') /\ \A i \in DOMAIN todo' : StrictTask(todo'[i])
               /\ Entailed(m', todo')
               /\ \A s : Valuation(s) /\ Obeys(s, m') /\ AssignsHold(s, todo') => Makes(s, facts' \cup goal')
    <3>1. StrictPairs(facts)
      BY <2>1, <2>4 DEF StrictPairs
    <3>2. StrictMap(m')
      BY <1>1, <2>1, <3>1 DEF Kept
    <3>3. ASSUME NEW i \in DOMAIN todo' PROVE StrictTask(todo'[i]) /\ todo'[i].do = "assign"
      <4> DEFINE q == <<l1[i], l2[i]>>
      <4>1. q \in goal' /\ q[1] = l1[i] /\ q[2] = l2[i]
        BY <2>2, <3>3
      <4> HIDE DEF q
      <4>2. Strict(l1[i]) /\ Strict(l2[i])
        BY <2>4, <4>1 DEF StrictPairs
      <4>3. QED BY <2>2, <4>2 DEF StrictTask, Assign
    <3>4. Entailed(m', todo')
      BY <3>3 DEF Entailed
    <3>5. ASSUME NEW s, Valuation(s), Obeys(s, m'), AssignsHold(s, todo')
          PROVE  Makes(s, facts' \cup goal')
      <4>1. Makes(s, facts)
        BY <1>1, <2>1, <3>1, <3>5 DEF Kept
      <4>2. ASSUME NEW q \in goal' PROVE Value(s, q[1]) = Value(s, q[2])
        <5>1. PICK i \in DOMAIN l1 : q = <<l1[i], l2[i]>>
          BY <2>2
        <5>2. TaskHolds(s, Assign(l1[i], l2[i]))
          BY <2>2, <3>3, <3>5 DEF AssignsHold
        <5>3. Value(s, l1[i]) = Value(s, l2[i])
          BY <5>2, AssignHolds
        <5>4. q[1] = l1[i] /\ q[2] = l2[i]
          BY <5>1
        <5>5. QED BY <5>3, <5>4
      <4>3. QED BY <2>1, <4>1, <4>2 DEF Makes
    <3>6. QED BY <3>2, <3>3, <3>4, <3>5
  <2>5. Underway'
    BY <2>4 DEF Underway
  <2>6. QED BY <2>2, <2>3, <2>5 DEF BackwardsOK
<1>5. QED BY <1>2, <1>3, <1>4, WalkingShapes

\* The tasks in place of the first one entail it.
LEMMA BackwardsContinue ==
  ASSUME BackwardsOK, pc = "assign", StateOK, todo # <<>>, NEW tasks, IsSeq(tasks), Continue(tasks),
         StrictMap(m) /\ StrictTask(Task) => StrictMap(m') /\ \A i \in DOMAIN tasks : StrictTask(tasks[i]),
         StrictMap(m) /\ StrictTask(Task) /\ Entailed(m, todo) =>
           /\ Entailed(m', tasks)
           /\ \A s : Valuation(s) /\ Obeys(s, m') /\ AssignsHold(s, tasks) =>
                Obeys(s, m) /\ (Task.do = "assign" => TaskHolds(s, Task))
  PROVE  BackwardsOK'
<1>1. UNCHANGED <<pc, saved, ok, goal, facts>> /\ todo' = tasks \o Tail(todo)
  BY DEF Continue
<1>2. /\ 1 \in DOMAIN todo /\ IsSeq(Tail(todo)) /\ IsSeq(todo) /\ Task = todo[1]
      /\ \A i \in DOMAIN Tail(todo) : i + 1 \in DOMAIN todo /\ Tail(todo)[i] = todo[i + 1]
      /\ DOMAIN todo = 1..Len(todo) /\ Len(todo) \in Nat /\ Len(Tail(todo)) = Len(todo) - 1
      /\ DOMAIN Tail(todo) = 1..Len(Tail(todo))
  BY SeqTail, SeqLen DEF StateOK, TasksOK, Task
<1>3. /\ Len(tasks) \in Nat /\ DOMAIN tasks = 1..Len(tasks)
      /\ DOMAIN todo' = 1..Len(todo') /\ Len(todo') = Len(tasks) + Len(todo) - 1
      /\ \A i \in DOMAIN tasks : todo'[i] = tasks[i]
      /\ \A i \in DOMAIN Tail(todo) : todo'[Len(tasks) + i] = todo[i + 1]
  BY <1>1, <1>2, SeqJoin, SeqLen
<1>4. ASSUME NEW i \in DOMAIN todo'
      PROVE  \/ i \in DOMAIN tasks /\ todo'[i] = tasks[i]
             \/ i > Len(tasks) /\ \E j \in DOMAIN todo : j > 1 /\ i = Len(tasks) + (j - 1) /\ todo'[i] = todo[j]
  <2>1. CASE i <= Len(tasks)
    BY <1>3, <2>1
  <2>2. CASE i > Len(tasks)
    <3> DEFINE j == i - Len(tasks) + 1
    <3>1. j \in DOMAIN todo /\ j > 1 /\ i = Len(tasks) + (j - 1) /\ j - 1 \in DOMAIN Tail(todo)
      BY <1>2, <1>3, <2>2
    <3>2. todo'[i] = todo[j]
      <4> HIDE DEF j
      <4>1. todo'[Len(tasks) + (j - 1)] = todo[(j - 1) + 1] /\ (j - 1) + 1 = j
        BY <1>2, <1>3, <3>1
      <4>2. QED BY <3>1, <4>1
    <3> HIDE DEF j
    <3>3. QED BY <2>2, <3>1, <3>2
  <2>3. QED BY <1>3, <2>1, <2>2
<1>5. SUFFICES ASSUME StrictPairs(facts \cup goal)
               PROVE  /\ StrictMap(m') /\ \A i \in DOMAIN todo' : StrictTask(todo'[i])
                      /\ Entailed(m', todo')
                      /\ \A s : Valuation(s) /\ Obeys(s, m') /\ AssignsHold(s, todo') => Makes(s, facts \cup goal)
  <2>1. Kept(saved', facts') /\ pc' = "assign"
    BY <1>1 DEF BackwardsOK
  <2>2. QED BY <1>1, <2>1 DEF BackwardsOK, Underway
<1>6. /\ StrictMap(m) /\ \A i \in DOMAIN todo : StrictTask(todo[i])
      /\ Entailed(m, todo)
      /\ \A s : Valuation(s) /\ Obeys(s, m) /\ AssignsHold(s, todo) => Makes(s, facts \cup goal)
  BY <1>5 DEF BackwardsOK, Underway
<1>7. /\ StrictMap(m') /\ \A i \in DOMAIN tasks : StrictTask(tasks[i])
      /\ Entailed(m', tasks)
      /\ \A s : Valuation(s) /\ Obeys(s, m') /\ AssignsHold(s, tasks) =>
           Obeys(s, m) /\ (Task.do = "assign" => TaskHolds(s, Task))
  BY <1>2, <1>6
<1>8. \A i \in DOMAIN todo' : StrictTask(todo'[i])
  BY <1>4, <1>6, <1>7
\* Assignments of the new list up to some task hold: so do those of the old one.
<1>9. ASSUME NEW s, Valuation(s), Obeys(s, m'), NEW k \in Nat, k > 1, k <= Len(todo) + 1,
             AssignsUpTo(s, todo', Len(tasks) + (k - 1))
      PROVE  Obeys(s, m) /\ AssignsUpTo(s, todo, k)
  <2>1. ASSUME NEW j \in DOMAIN tasks, tasks[j].do = "assign" PROVE TaskHolds(s, tasks[j])
    <3>1. j \in DOMAIN todo' /\ todo'[j] = tasks[j] /\ j < Len(tasks) + (k - 1)
      BY <1>2, <1>3, <1>9
    <3>2. QED BY <1>9, <2>1, <3>1 DEF AssignsUpTo
  <2>2. Obeys(s, m) /\ (Task.do = "assign" => TaskHolds(s, Task))
    BY <1>7, <1>9, <2>1 DEF AssignsHold
  <2>3. ASSUME NEW j \in DOMAIN todo, j < k, todo[j].do = "assign" PROVE TaskHolds(s, todo[j])
    <3>1. CASE j = 1
      BY <1>2, <2>2, <2>3, <3>1
    <3>2. CASE j > 1
      <4>1. j - 1 \in DOMAIN Tail(todo) /\ (j - 1) + 1 = j
        BY <1>2, <3>2
      <4>2. todo'[Len(tasks) + (j - 1)] = todo[j]
        BY <1>3, <4>1
      <4>3. Len(tasks) + (j - 1) \in DOMAIN todo' /\ Len(tasks) + (j - 1) < Len(tasks) + (k - 1)
        BY <1>2, <1>3, <2>3, <3>2
      <4>4. QED BY <1>9, <2>3, <4>2, <4>3 DEF AssignsUpTo
    <3>3. QED BY <1>2, <3>1, <3>2
  <2>4. QED BY <2>2, <2>3 DEF AssignsUpTo
<1>10. Entailed(m', todo')
  <2>1. SUFFICES ASSUME NEW i \in DOMAIN todo', todo'[i].do = "widen", NEW s, Valuation(s), Obeys(s, m'),
                        AssignsUpTo(s, todo', i)
                 PROVE  TaskHolds(s, todo'[i])
    BY DEF Entailed
  <2>2. CASE i \in DOMAIN tasks
    <3>1. AssignsUpTo(s, tasks, i)
      <4>1. SUFFICES ASSUME NEW j \in DOMAIN tasks, j < i, tasks[j].do = "assign" PROVE TaskHolds(s, tasks[j])
        BY DEF AssignsUpTo
      <4>2. j \in DOMAIN todo' /\ todo'[j] = tasks[j]
        BY <1>2, <1>3
      <4>3. QED BY <2>1, <4>1, <4>2 DEF AssignsUpTo
    <3>2. tasks[i].do = "widen" /\ todo'[i] = tasks[i]
      BY <1>3, <2>1, <2>2
    <3>3. QED BY <1>7, <2>1, <2>2, <3>1, <3>2 DEF Entailed
  <2>3. CASE i \notin DOMAIN tasks
    <3>1. PICK j \in DOMAIN todo : j > 1 /\ i = Len(tasks) + (j - 1) /\ todo'[i] = todo[j]
      BY <1>4, <2>3
    <3>2. j \in Nat /\ j <= Len(todo) + 1
      BY <1>2
    <3>3. Obeys(s, m) /\ AssignsUpTo(s, todo, j)
      BY <1>9, <2>1, <3>1, <3>2
    <3>4. QED BY <1>6, <2>1, <3>1, <3>3 DEF Entailed
  <2>4. QED BY <2>2, <2>3
<1>11. ASSUME NEW s, Valuation(s), Obeys(s, m'), AssignsHold(s, todo')
       PROVE  Makes(s, facts \cup goal)
  <2> DEFINE k == Len(todo) + 1
  <2>1. k \in Nat /\ k > 1 /\ k <= Len(todo) + 1 /\ \A j \in DOMAIN todo : j < k
    BY <1>2
  <2> HIDE DEF k
  <2>2. AssignsUpTo(s, todo', Len(tasks) + (k - 1))
    BY <1>11 DEF AssignsHold, AssignsUpTo
  <2>3. Obeys(s, m) /\ AssignsUpTo(s, todo, k)
    BY <1>9, <1>11, <2>1, <2>2
  <2>4. AssignsHold(s, todo)
    BY <2>1, <2>3 DEF AssignsHold, AssignsUpTo
  <2>5. QED BY <1>6, <1>11, <2>3, <2>4
<1>12. QED BY <1>7, <1>8, <1>10, <1>11

LEMMA NothingEntailed ==
  ASSUME NEW f
  PROVE  Entailed(f, <<>>) /\ \A s : AssignsHold(s, <<>>)
  BY NoTasks DEF Entailed, AssignsHold

LEMMA BackwardsSubstitute ==
  ASSUME BackwardsOK, StateOK, Assigning, NEW t, NEW p,
         StrictTask(Task) => Strict(t) /\ Strict(p),
         \A s : Value(s, t) = Value(s, p) => TaskHolds(s, Task),
         Substitute(t, p)
  PROVE  BackwardsOK'
<1>1. pc = "assign" /\ todo # <<>>
  BY DEF Assigning
<1>2. CASE (t = p \/ (p \in DOMAIN m /\ m[p] = t)) /\ m' = m /\ Continue(<<>>)
  <2>1. \A s : Obeys(s, m) => Value(s, t) = Value(s, p)
    BY <1>2 DEF Obeys
  <2>2. \A s : Obeys(s, m') => Obeys(s, m) /\ TaskHolds(s, Task)
    BY <1>2, <2>1
  <2>3. QED BY <1>1, <1>2, <2>2, NothingEntailed, NoTasks, BackwardsContinue
<1>3. CASE p \in DOMAIN m /\ m' = m /\ Continue(<<Assign(t, m[p]), Widen(t, p, m[p])>>)
  <2> DEFINE a == Assign(t, m[p])
             w == Widen(t, p, m[p])
             l == <<a, w>>
  <2>1. a.do = "assign" /\ w.do = "widen" /\ a.t1 = t /\ w.t1 = t /\ w.t2 = p /\ w.old = m[p] /\ a.t2 = m[p]
    BY DEF Assign, Widen
  <2>2. ASSUME NEW s, Obeys(s, m), TaskHolds(s, a) PROVE TaskHolds(s, Task) /\ TaskHolds(s, w)
    <3>1. Value(s, t) = Value(s, m[p]) /\ Value(s, p) = Value(s, m[p])
      BY <1>3, <2>1, <2>2 DEF Obeys, TaskHolds
    <3>2. Value(s, t) = Value(s, p)
      BY <3>1
    <3>3. QED BY <2>1, <3>1, <3>2 DEF TaskHolds
  <2> HIDE DEF a, w
  <2>3. IsSeq(l) /\ DOMAIN l = {1, 2} /\ l[1] = a /\ l[2] = w
    BY TwoTasks
  <2>4. Continue(l)
    BY <1>3 DEF a, w
  <2> HIDE DEF l
  <2>5. StrictMap(m) /\ StrictTask(Task) => StrictMap(m') /\ \A i \in DOMAIN l : StrictTask(l[i])
    <3>1. ASSUME StrictMap(m), StrictTask(Task) PROVE StrictTask(a) /\ StrictTask(w)
      <4>1. Strict(t) /\ Strict(p) /\ Strict(m[p])
        BY <1>3, <3>1 DEF StrictMap
      <4>2. QED BY <2>1, <4>1 DEF StrictTask
    <3>2. QED BY <1>3, <2>3, <3>1
  <2>6. Entailed(m', l)
    <3>1. SUFFICES ASSUME NEW i \in DOMAIN l, l[i].do = "widen", NEW s, Obeys(s, m'), AssignsUpTo(s, l, i)
                   PROVE  TaskHolds(s, l[i])
      BY DEF Entailed
    <3>2. i = 2
      BY <2>1, <2>3, <3>1
    <3>3. TaskHolds(s, a)
      BY <2>1, <2>3, <3>1, <3>2 DEF AssignsUpTo
    <3>4. QED BY <1>3, <2>2, <2>3, <3>1, <3>2, <3>3
  <2>7. \A s : Obeys(s, m') /\ AssignsHold(s, l) => Obeys(s, m) /\ TaskHolds(s, Task)
    BY <1>3, <2>1, <2>2, <2>3 DEF AssignsHold
  <2>8. QED BY <1>1, <2>3, <2>4, <2>5, <2>6, <2>7, BackwardsContinue
<1>4. CASE p \notin DOMAIN m /\ m' = Bind(p, t) /\ Continue(<<>>)
  <2>1. ASSUME NEW s, Obeys(s, m') PROVE Obeys(s, m) /\ TaskHolds(s, Task)
    <3>1. Obeys(s, m) /\ Value(s, p) = Value(s, t)
      BY <1>4, <2>1, BindObeys
    <3>2. QED BY <3>1
  <2>2. DOMAIN m' = DOMAIN m \cup {p} /\ \A q \in DOMAIN m' : m'[q] = IF q \in DOMAIN m THEN m[q] ELSE t
    BY <1>4 DEF Bind
  <2>3. StrictMap(m) /\ StrictTask(Task) => StrictMap(m')
    BY <2>2 DEF StrictMap
  <2>4. QED BY <1>1, <1>4, <2>1, <2>3, NothingEntailed, NoTasks, BackwardsContinue
<1>5. QED BY <1>2, <1>3, <1>4 DEF Substitute

LEMMA BackwardsWiden ==
  ASSUME BackwardsOK, StateOK, Cycles, WidenBinding
  PROVE  BackwardsOK'
<1>1. pc = "assign" /\ todo # <<>> /\ Task.do = "widen" /\ Continue(<<>>)
  BY DEF WidenBinding
<1>2. PICK t : /\ t \in {Task.t1, Task.old}
               /\ m' = IF NotRefIn(m, Task.t2, t) THEN [m EXCEPT ![Task.t2] = t] ELSE m
  BY DEF WidenBinding, MostGeneral
<1>3. /\ Task.t2 \in DOMAIN m /\ Over(t, n) /\ Bound(m) /\ OverUnknowns(t)
      /\ 1 \in DOMAIN todo /\ Task = todo[1]
  <2>1. TaskOK(Task, m, n)
    BY <1>1, TaskNow
  <2>2. Task.t2 \in DOMAIN m /\ Over(t, n)
    BY <1>1, <1>2, <2>1 DEF TaskOK
  <2>3. 1 \in DOMAIN todo /\ Task = todo[1]
    BY <1>1, SeqTail DEF StateOK, TasksOK, Task
  <2>4. QED BY <2>2, <2>3, Known
<1>4. DOMAIN m' = DOMAIN m /\ \A q \in DOMAIN m : m'[q] = m[q] \/ (q = Task.t2 /\ m'[q] = t)
  BY <1>2
<1>5. StrictMap(m) /\ StrictTask(Task) => StrictMap(m')
  BY <1>1, <1>2, <1>4 DEF StrictMap, StrictTask
<1>6. ASSUME Entailed(m, todo), NEW s, Valuation(s), Obeys(s, m') PROVE Obeys(s, m)
  <2>1. CASE m' = m
    BY <1>6, <2>1
  <2>2. CASE NotRefIn(m, Task.t2, t) /\ m' = [m EXCEPT ![Task.t2] = t]
    <3>1. ASSUME NEW z, Valuation(z), Obeys(z, m) PROVE Value(z, t) = Value(z, Task.t2)
      <4>1. AssignsUpTo(z, todo, 1)
        <5>1. \A j \in DOMAIN todo : ~ (j < 1)
          BY SeqLen DEF StateOK, TasksOK
        <5>2. QED BY <5>1 DEF AssignsUpTo
      <4>2. TaskHolds(z, Task)
        BY <1>1, <1>3, <1>6, <3>1, <4>1 DEF Entailed
      <4>3. QED BY <1>1, <1>2, <4>2 DEF TaskHolds
    <3>2. m'[Task.t2] = t /\ \A q \in DOMAIN m : q # Task.t2 => m'[q] = m[q]
      BY <1>3, <2>2
    <3>3. Value(s, Task.t2) = Value(s, t) /\ \A q \in DOMAIN m : q # Task.t2 => Value(s, q) = Value(s, m[q])
      BY <1>3, <1>4, <1>6, <3>2 DEF Obeys
    <3> DEFINE p == Task.t2
    <3>4. p \in DOMAIN m /\ NotRefIn(m, p, t) /\ Value(s, p) = Value(s, t)
      BY <1>3, <2>2, <3>3
    <3>5. \A z : Valuation(z) /\ Obeys(z, m) => Value(z, t) = Value(z, p)
      BY <3>1
    <3>6. \A q \in DOMAIN m : q # p => Value(s, q) = Value(s, m[q])
      BY <3>3
    <3> HIDE DEF p
    <3>7. QED BY <1>3, <1>6, <3>4, <3>5, <3>6, Widened
  <2>3. QED BY <1>2, <2>1, <2>2
<1>7. Task.do # "assign"
  BY <1>1
<1>8. QED BY <1>1, <1>5, <1>6, <1>7, NothingEntailed, NoTasks, BackwardsContinue

\* Strict types that are accepted at once are the same.
LEMMA AcceptedSame ==
  ASSUME NEW t, NEW u, IsType(t), IsType(u), ~ IsParam(t), ~ IsParam(u), Strict(t), Strict(u), Accepts(t, u)
  PROVE  t = u
<1>1. /\ t.k \notin {"null", "wrapper", "type"} /\ u.k \notin {"null", "wrapper", "type"}
      /\ ~ DynOrErr(t) /\ ~ DynOrErr(u)
  BY DEF Strict, Parts
<1>2. t.k = u.k /\ t.k \notin {"list", "map", "optional"}
  BY <1>1 DEF Accepts, Composite
<1>3. ParamsOf(t) /\ ParamsOf(u) /\ t = Term(t.k, t.ps) /\ u = Term(u.k, u.ps)
  BY ChildType DEF WellMade
<1>4. t.ps = <<>> /\ u.ps = <<>>
  BY <1>1, <1>2, <1>3 DEF ParamsOf
<1>5. QED BY <1>2, <1>3, <1>4

LEMMA BackwardsAccept ==
  ASSUME BackwardsOK, StateOK, Accept
  PROVE  BackwardsOK'
<1>1. /\ pc = "assign" /\ todo # <<>> /\ m' = m /\ Continue(<<>>)
      /\ ~ IsParam(Task.t1) /\ ~ IsParam(Task.t2) /\ Accepts(Task.t1, Task.t2) /\ Task.do = "assign"
  BY DEF Accept, Assigning, NoVariables
<1>2. IsType(Task.t1) /\ IsType(Task.t2)
  BY <1>1, TaskNow DEF Over
<1>3. ASSUME StrictTask(Task) PROVE \A s : TaskHolds(s, Task)
  <2>1. Task.t1 = Task.t2
    BY <1>1, <1>2, <1>3, AcceptedSame DEF StrictTask
  <2>2. QED BY <1>1, <2>1 DEF TaskHolds
<1>4. QED BY <1>1, <1>3, NothingEntailed, NoTasks, BackwardsContinue

LEMMA StrictChild ==
  ASSUME NEW t, IsType(t), ~ IsParam(t), Strict(t), NEW i \in DOMAIN t.ps
  PROVE  Strict(t.ps[i])
<1>1. Parts(t.ps[i]) \subseteq Parts(t)
  BY ChildType, Children DEF Parts
<1>2. QED BY <1>1 DEF Strict

LEMMA AssignIs ==
  ASSUME NEW t, NEW u
  PROVE  /\ Assign(t, u).do = "assign" /\ Assign(t, u).do # "widen"
         /\ Assign(t, u).t1 = t /\ Assign(t, u).t2 = u
  BY DEF Assign

LEMMA BackwardsDescend ==
  ASSUME BackwardsOK, StateOK, Cycles, Descend
  PROVE  BackwardsOK'
<1> DEFINE l == [i \in DOMAIN Task.t1.ps |-> Assign(Task.t1.ps[i], Task.t2.ps[i])]
<1>1. /\ pc = "assign" /\ todo # <<>> /\ m' = m /\ Continue(l) /\ Task.do = "assign"
      /\ ~ IsParam(Task.t1) /\ ~ IsParam(Task.t2)
      /\ Task.t1.k = Task.t2.k /\ Len(Task.t1.ps) = Len(Task.t2.ps)
  BY DEF Descend, Assigning, NoVariables, Alike
<1>2. IsType(Task.t1) /\ IsType(Task.t2) /\ WellMade(Task.t1) /\ WellMade(Task.t2)
  BY <1>1, TaskNow, ChildType DEF Over
<1>3. /\ DOMAIN Task.t1.ps = 1..Len(Task.t1.ps) /\ Len(Task.t1.ps) \in Nat
      /\ DOMAIN Task.t2.ps = DOMAIN Task.t1.ps
  BY <1>1, <1>2, Children
<1>4. DOMAIN l = DOMAIN Task.t1.ps /\ \A i \in DOMAIN l : l[i] = Assign(Task.t1.ps[i], Task.t2.ps[i])
  OBVIOUS
<1>5. l = [i \in 1..Len(Task.t1.ps) |-> l[i]]
  BY <1>3
<1> HIDE DEF l
<1>6. IsSeq(l)
  BY <1>3, <1>5, SeqMade
<1>7. ASSUME StrictTask(Task), NEW i \in DOMAIN l PROVE StrictTask(l[i])
  <2>1. Strict(Task.t1.ps[i]) /\ Strict(Task.t2.ps[i])
    BY <1>1, <1>2, <1>3, <1>4, <1>7, StrictChild DEF StrictTask
  <2>2. l[i].t1 = Task.t1.ps[i] /\ l[i].t2 = Task.t2.ps[i] /\ l[i].do = "assign"
    BY <1>4, AssignIs
  <2>3. QED BY <2>1, <2>2 DEF StrictTask
<1>8. ASSUME NEW s, Valuation(s), AssignsHold(s, l) PROVE TaskHolds(s, Task)
  <2>1. ASSUME NEW i \in DOMAIN Task.t1.ps PROVE Value(s, Task.t1.ps[i]) = Value(s, Task.t2.ps[i])
    <3>1. l[i] = Assign(Task.t1.ps[i], Task.t2.ps[i]) /\ l[i].do = "assign" /\ i \in DOMAIN l
      BY <1>4 DEF Assign
    <3>2. TaskHolds(s, Assign(Task.t1.ps[i], Task.t2.ps[i]))
      BY <1>8, <3>1 DEF AssignsHold
    <3>3. QED BY <3>2, AssignHolds
  <2>2. Sound(s)
    BY <1>8, ValuationSound
  <2>3. Value(s, Task.t1) = Value(s, Task.t2)
    BY <1>1, <1>2, <1>3, <2>1, <2>2, ValueEqual
  <2>4. QED BY <1>1, <2>3 DEF TaskHolds
<1>9. Entailed(m', l)
  <2>1. \A i \in DOMAIN l : l[i].do # "widen"
    BY <1>4, AssignIs
  <2>2. QED BY <2>1 DEF Entailed
<1>10. QED BY <1>1, <1>6, <1>7, <1>8, <1>9, BackwardsContinue

LEMMA BackwardsEnd ==
  ASSUME BackwardsOK, GiveUp \/ Succeed
  PROVE  BackwardsOK'
<1>1. CASE GiveUp
  <2>1. pc = "assign" /\ pc' = "assigned" /\ m' = saved /\ facts' = facts
    BY <1>1 DEF GiveUp, Assigning
  <2>2. QED BY <2>1 DEF BackwardsOK
<1>2. CASE Succeed
  <2>1. pc = "assign" /\ todo = <<>> /\ pc' = "assigned" /\ m' = m /\ facts' = facts \cup goal
    BY <1>2 DEF Succeed
  <2>2. Kept(m', facts')
    BY <2>1, NothingEntailed DEF BackwardsOK, Underway, Kept
  <2>3. QED BY <2>1, <2>2 DEF BackwardsOK
<1>3. QED BY <1>1, <1>2

LEMMA BackwardsStep == BackwardsOK /\ StateOK /\ Cycles /\ [Next]_vars => BackwardsOK'
<1> SUFFICES ASSUME BackwardsOK, StateOK, Cycles, [Next]_vars PROVE BackwardsOK'
  OBVIOUS
<1>1. CASE SubstituteRight
  <2>1. Assigning /\ Substitute(Task.t1, Task.t2) /\ Task.do = "assign"
    BY <1>1 DEF SubstituteRight, Assigning
  <2>2. \A s : Value(s, Task.t1) = Value(s, Task.t2) => TaskHolds(s, Task)
    BY <2>1 DEF TaskHolds
  <2>3. StrictTask(Task) => Strict(Task.t1) /\ Strict(Task.t2)
    BY DEF StrictTask
  <2>4. QED BY <2>1, <2>2, <2>3, BackwardsSubstitute
<1>2. CASE SubstituteLeft
  <2>1. Assigning /\ Substitute(Task.t2, Task.t1) /\ Task.do = "assign"
    BY <1>2 DEF SubstituteLeft, Assigning
  <2>2. \A s : Value(s, Task.t2) = Value(s, Task.t1) => TaskHolds(s, Task)
    BY <2>1 DEF TaskHolds
  <2>3. StrictTask(Task) => Strict(Task.t2) /\ Strict(Task.t1)
    BY DEF StrictTask
  <2>4. QED BY <2>1, <2>2, <2>3, BackwardsSubstitute
<1>3. CASE UNCHANGED vars
  BY <1>3 DEF vars, BackwardsOK, Underway
<1>4. QED
  BY <1>1, <1>2, <1>3, BackwardsWalking, BackwardsWiden, BackwardsAccept, BackwardsDescend, BackwardsEnd
  DEF Next, Walking

LEMMA BackwardsInit == Init => BackwardsOK
<1> SUFFICES ASSUME Init PROVE BackwardsOK
  OBVIOUS
<1>1. pc = "node" /\ m = <<>> /\ facts = {}
  BY DEF Init
<1>2. DOMAIN m = {}
  BY <1>1, NoTasks
<1>3. Kept(m, facts)
  BY <1>1, <1>2 DEF Kept, StrictMap, Makes
<1>4. QED BY <1>1, <1>3 DEF BackwardsOK

\* At each step of an assignment, whatever obeys the bindings and solves what
\* is left to do makes the pairs equal: nothing assigned is forgotten.
THEOREM SpecBackwards == Spec => []BackwardsOK
<1>1. Init => BackwardsOK
  BY BackwardsInit
<1>2. BackwardsOK /\ StateOK /\ Cycles /\ [Next]_vars => BackwardsOK'
  BY BackwardsStep
<1>3. QED BY <1>1, <1>2, SpecState, SpecCycles, PTL DEF Spec

LEMMA BackwardsLess == BackwardsOK /\ StateOK /\ Cycles => NothingLess
<1> SUFFICES ASSUME BackwardsOK, StateOK, Cycles, pc # "assign", StrictPairs(facts), NEW q \in facts
             PROVE  Subst(m, q[1], FALSE) = Subst(m, q[2], FALSE)
  BY DEF NothingLess
<1>1. \A s : Valuation(s) /\ Obeys(s, m) => Value(s, q[1]) = Value(s, q[2])
  BY DEF BackwardsOK, Kept, Makes
<1>2. Bound(m) /\ OverUnknowns(q[1]) /\ OverUnknowns(q[2])
  BY Known
<1>3. Value(m, q[1]) = Value(m, q[2])
  BY <1>1, <1>2, MadeEqual
<1>4. QED BY Zenon, <1>3 DEF Value

\* In NothingLess' words: two strict types that cel._ck_assign_list once made
\* equal come to the same type to the end of the check.
THEOREM SpecNothingLess == Spec => []NothingLess
<1>1. BackwardsOK /\ StateOK /\ Cycles => NothingLess
  BY BackwardsLess
<1>2. QED BY <1>1, SpecBackwards, SpecState, SpecCycles, PTL
=============================================================================
