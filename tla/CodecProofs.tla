---------------------------- MODULE CodecProofs ----------------------------
(***************************************************************************)
(* Proofs about the codec.                                                 *)
(***************************************************************************)
EXTENDS Codec, FiniteSetTheorems, SequenceTheorems, TLAPS

-----------------------------------------------------------------------------
(***************************************************************************)
(* Induction over an interval of the natural numbers, as facts about sets: *)
(* the induction theorems of the library take an operator, these take the  *)
(* set of the numbers for which the claim holds.                           *)
(***************************************************************************)
\* A nonempty set of natural numbers has a least element.
LEMMA LeastOf ==
  ASSUME NEW T, T \subseteq Nat, T # {}
  PROVE  \E x \in T : \A y \in T : x <= y
<1>1. \A x, y \in Nat : <<y, x>> \in OpToRel(<, Nat) <=> y < x
  BY DEF OpToRel
<1>2. \E R : /\ IsWellFoundedOn(R, Nat)
             /\ \A x, y \in Nat : <<y, x>> \in R <=> y < x
  BY <1>1, NatLessThanWellFounded
<1>3. PICK R : /\ IsWellFoundedOn(R, Nat)
               /\ \A x, y \in Nat : <<y, x>> \in R <=> y < x
  BY <1>2
<1>4. \E x \in T : \A y \in T : ~ (<<y, x>> \in R)
  BY <1>3, WFMin
<1>5. PICK x \in T : \A y \in T : ~ (<<y, x>> \in R)
  BY <1>4
<1>6. ASSUME NEW y \in T PROVE x <= y
  <2>1. x \in Nat /\ y \in Nat /\ <<y, x>> \notin R
    BY <1>5
  <2>2. ~ (y < x)
    BY <1>3, <2>1
  <2>3. QED BY <2>1, <2>2
<1>7. QED BY <1>6

\* Induction from 0 to n; G is where the claim holds.
LEMMA UpTo ==
  ASSUME NEW n \in Nat, NEW G, 0 \in G,
         \A k \in 0..(n - 1) : k \in G => k + 1 \in G
  PROVE  \A k \in 0..n : k \in G
<1> DEFINE Bad == {k \in 0..n : k \notin G}
<1>1. Bad \subseteq Nat
  OBVIOUS
<1>2. SUFFICES ASSUME Bad # {} PROVE FALSE
  OBVIOUS
<1>3. PICK m \in Bad : \A y \in Bad : m <= y
  <2> HIDE DEF Bad
  <2> QED BY <1>1, <1>2, LeastOf
<1>4. m \in 0..n /\ m \notin G /\ m # 0
  OBVIOUS
<1>5. m - 1 \in 0..(n - 1) /\ m - 1 \in 0..n
  BY <1>4
<1>6. m - 1 \notin Bad
  <2>1. m - 1 < m
    BY <1>4
  <2>2. QED BY <1>3, <1>4, <1>5, <2>1
<1>7. m - 1 \in G
  BY <1>5, <1>6
<1>8. (m - 1) + 1 \in G
  BY <1>5, <1>7
<1>9. QED BY <1>4, <1>8

-----------------------------------------------------------------------------
(***************************************************************************)
(* Trees: parts, induction on parts, and what Node makes of trees.         *)
(***************************************************************************)
LEMMA NodeIs ==
  ASSUME NEW is, NEW of
  PROVE  /\ Node(is, of).is = is /\ Node(is, of).of = of
         /\ Node(is, of).parts = UNION {Parts(of[i]) : i \in DOMAIN of}
         /\ Kind(Node(is, of)) = is[1]
  BY DEF Node, Kind

WellMade(u) == u = Node(u.is, u.of) /\ u.of \in Seq(u.parts) /\ IsFiniteSet(u.parts) /\ u \notin u.parts

LEMMA TreeIs ==
  ASSUME NEW t
  PROVE  /\ IsTree(t) <=> \A u \in Parts(t) : WellMade(u)
         /\ t \in Parts(t) /\ t.parts \subseteq Parts(t)
         /\ Parts(t) = {t} \cup t.parts
  BY DEF IsTree, WellMade, Parts

\* What a node is made of.
LEMMA Children ==
  ASSUME NEW t, WellMade(t)
  PROVE  /\ Len(t.of) \in Nat /\ DOMAIN t.of = 1..Len(t.of) /\ t.of \in [1..Len(t.of) -> t.parts]
         /\ t.parts = UNION {Parts(t.of[i]) : i \in DOMAIN t.of}
         /\ \A i \in DOMAIN t.of : t.of[i] \in t.parts /\ Parts(t.of[i]) \subseteq t.parts
<1>1. t.of \in Seq(t.parts) /\ t.parts = UNION {Parts(t.of[i]) : i \in DOMAIN t.of}
  BY NodeIs DEF WellMade
<1>2. Len(t.of) \in Nat /\ DOMAIN t.of = 1..Len(t.of) /\ t.of \in [1..Len(t.of) -> t.parts]
  BY <1>1, LenProperties
<1>3. ASSUME NEW i \in DOMAIN t.of PROVE t.of[i] \in t.parts /\ Parts(t.of[i]) \subseteq t.parts
  <2>1. t.of[i] \in Parts(t.of[i])
    BY TreeIs
  <2>2. QED BY <1>1, <2>1
<1>4. QED BY <1>1, <1>2, <1>3

\* Cardinality strictly falls from a node to a child.
LEMMA Smaller ==
  ASSUME NEW X, IsFiniteSet(X), NEW Y, Y \subseteq X, NEW x \in X, x \notin Y
  PROVE  IsFiniteSet(Y) /\ Cardinality(Y) \in Nat /\ Cardinality(X) \in Nat /\ Cardinality(Y) < Cardinality(X)
<1>1. IsFiniteSet(Y) /\ Cardinality(Y) <= Cardinality(X) /\ (Cardinality(X) = Cardinality(Y) => X = Y)
  BY FS_Subset
<1>2. Cardinality(Y) \in Nat /\ Cardinality(X) \in Nat
  BY <1>1, FS_CardinalityType
<1>3. QED BY <1>1, <1>2

\* Of a nonempty set of nodes, one with the fewest parts.
LEMMA Fewest ==
  ASSUME NEW X, X # {}, \A t \in X : WellMade(t)
  PROVE  \E t \in X : \A u \in X : Cardinality(t.parts) <= Cardinality(u.parts)
<1> DEFINE sizes == {Cardinality(t.parts) : t \in X}
<1>1. \A t \in X : IsFiniteSet(t.parts)
  BY DEF WellMade
<1>2. sizes \subseteq Nat /\ sizes # {}
  BY <1>1, FS_CardinalityType
<1>3. PICK c \in sizes : \A d \in sizes : c <= d
  <2> HIDE DEF sizes
  <2> QED BY <1>2, LeastOf
<1>4. QED BY <1>3

\* The parts of a part are parts.
LEMMA PartsIn ==
  ASSUME NEW t, IsTree(t), NEW u \in Parts(t)
  PROVE  /\ IsTree(u) /\ WellMade(u)
         /\ Parts(u) \subseteq Parts(t)
         /\ u \in t.parts => Parts(u) \subseteq t.parts
<1> DEFINE D == {v \in Parts(t) : v.parts \subseteq t.parts}
           Bad == {v \in D : \E w \in v.parts : ~ (w.parts \subseteq v.parts)}
<1>1. \A v \in D : WellMade(v)
  BY TreeIs
<1>2. ASSUME NEW v \in D, NEW i \in DOMAIN v.of
      PROVE  v.of[i] \in D /\ v.of[i] \in v.parts /\ Parts(v.of[i]) \subseteq v.parts
  <2>1. v.of[i] \in v.parts /\ Parts(v.of[i]) \subseteq v.parts
    BY <1>1, Children
  <2>2. v.of[i].parts \subseteq Parts(v.of[i]) /\ t.parts \subseteq Parts(t)
    BY TreeIs
  <2>3. QED BY <2>1, <2>2
<1>3. Bad = {}
  <2>1. SUFFICES ASSUME Bad # {} PROVE FALSE
    OBVIOUS
  <2>2. \A v \in Bad : WellMade(v)
    BY <1>1
  <2>3. PICK v \in Bad : \A w \in Bad : Cardinality(v.parts) <= Cardinality(w.parts)
    <3> HIDE DEF Bad
    <3> QED BY <2>1, <2>2, Fewest
  <2>4. v \in D /\ WellMade(v) /\ IsFiniteSet(v.parts)
    BY <1>1 DEF WellMade
  <2>5. PICK w \in v.parts : ~ (w.parts \subseteq v.parts)
    OBVIOUS
  <2>6. PICK i \in DOMAIN v.of : w \in Parts(v.of[i])
    BY <2>4, <2>5, Children
  <2>7. v.of[i] \in D /\ v.of[i] \in v.parts /\ Parts(v.of[i]) \subseteq v.parts
    BY <1>2, <2>4
  <2>8. w \in v.of[i].parts /\ v.of[i].parts \subseteq v.parts
    BY <2>5, <2>6, <2>7 DEF Parts
  <2>9. v.of[i] \in Bad
    BY <2>5, <2>7, <2>8
  <2>10. v.of[i] \notin v.of[i].parts
    BY <1>1, <2>7 DEF WellMade
  <2>11. Cardinality(v.of[i].parts) \in Nat /\ Cardinality(v.parts) \in Nat
         /\ Cardinality(v.of[i].parts) < Cardinality(v.parts)
    <3> HIDE DEF Bad, D
    <3> QED BY <2>4, <2>7, <2>8, <2>10, Smaller
  <2>12. Cardinality(v.parts) <= Cardinality(v.of[i].parts)
    BY <2>3, <2>9
  <2>13. QED BY <2>11, <2>12
<1>4. t \in D
  BY TreeIs
<1>5. ASSUME u \in t.parts PROVE u.parts \subseteq t.parts
  BY <1>3, <1>4, <1>5
<1>6. Parts(u) \subseteq Parts(t) /\ (u \in t.parts => Parts(u) \subseteq t.parts)
  BY <1>5 DEF Parts
<1>7. QED BY <1>6, TreeIs

\* A nonempty set of trees has one none of whose parts is in it.
LEMMA Smallest ==
  ASSUME NEW X, X # {}, \A t \in X : IsTree(t)
  PROVE  \E t \in X : \A u \in X : u \notin t.parts
<1>1. \A t \in X : WellMade(t)
  BY TreeIs
<1>2. PICK t \in X : \A u \in X : Cardinality(t.parts) <= Cardinality(u.parts)
  BY <1>1, Fewest
<1>3. ASSUME NEW u \in X, u \in t.parts PROVE FALSE
  <2>1. Parts(u) \subseteq t.parts
    BY <1>3, PartsIn, TreeIs
  <2>2. u.parts \subseteq t.parts /\ u \notin u.parts /\ IsFiniteSet(t.parts)
    BY <1>1, <2>1, TreeIs DEF WellMade
  <2>3. Cardinality(u.parts) \in Nat /\ Cardinality(t.parts) \in Nat /\ Cardinality(u.parts) < Cardinality(t.parts)
    BY <1>3, <2>2, Smaller
  <2>4. QED BY <1>2, <2>3
<1>4. QED BY <1>3

\* What a tree is made of are trees.
LEMMA ChildTree ==
  ASSUME NEW t, IsTree(t)
  PROVE  /\ WellMade(t) /\ Len(t.of) \in Nat /\ DOMAIN t.of = 1..Len(t.of)
         /\ \A i \in DOMAIN t.of :
              /\ IsTree(t.of[i]) /\ t.of[i] \in t.parts /\ t.of[i] \in Parts(t)
              /\ Parts(t.of[i]) \subseteq Parts(t)
<1>1. WellMade(t)
  BY TreeIs
<1>2. ASSUME NEW i \in DOMAIN t.of
      PROVE  /\ IsTree(t.of[i]) /\ t.of[i] \in t.parts /\ t.of[i] \in Parts(t)
             /\ Parts(t.of[i]) \subseteq Parts(t)
  <2>1. t.of[i] \in t.parts /\ t.of[i] \in Parts(t)
    BY <1>1, Children, TreeIs
  <2>2. QED BY <2>1, PartsIn
<1>3. QED BY <1>1, <1>2, Children

\* Induction on the parts of a tree. G is where the claim holds.
LEMMA OnParts ==
  ASSUME NEW t, IsTree(t), NEW G,
         \A u \in Parts(t) : (\A i \in DOMAIN u.of : u.of[i] \in G) => u \in G
  PROVE  Parts(t) \subseteq G
<1> DEFINE Bad == Parts(t) \ G
<1>1. SUFFICES ASSUME Bad # {} PROVE FALSE
  OBVIOUS
<1>2. \A u \in Bad : IsTree(u)
  BY PartsIn
<1>3. PICK u \in Bad : \A v \in Bad : v \notin u.parts
  <2> HIDE DEF Bad
  <2> QED BY <1>1, <1>2, Smallest
<1>4. IsTree(u) /\ Parts(u) \subseteq Parts(t)
  BY PartsIn
<1>5. ASSUME NEW i \in DOMAIN u.of PROVE u.of[i] \in G
  <2>1. u.of[i] \in u.parts /\ u.of[i] \in Parts(t)
    BY <1>4, ChildTree
  <2>2. QED BY <1>3, <2>1
<1>6. QED BY <1>5

\* A node made of trees is a tree.
LEMMA NodeTree ==
  ASSUME NEW is, NEW n \in Nat, NEW C, \A c \in C : IsTree(c), NEW of \in [1..n -> C]
  PROVE  /\ IsTree(Node(is, of)) /\ Len(Node(is, of).of) = n
         /\ Labels(Node(is, of)) = {is} \cup UNION {Labels(of[i]) : i \in 1..n}
<1> DEFINE T == Node(is, of)
<1>1. T.is = is /\ T.of = of /\ T.parts = UNION {Parts(of[i]) : i \in 1..n}
  BY NodeIs
<1>2. T = Node(T.is, T.of)
  BY <1>1
<1> HIDE DEF T
<1>3. \A i \in 1..n : of[i] \in Parts(of[i]) /\ Parts(of[i]) \subseteq T.parts /\ of[i] \in T.parts
  <2>1. SUFFICES ASSUME NEW i \in 1..n
                 PROVE  of[i] \in Parts(of[i]) /\ Parts(of[i]) \subseteq T.parts /\ of[i] \in T.parts
    OBVIOUS
  <2>2. of[i] \in Parts(of[i])
    BY TreeIs
  <2>3. QED BY <1>1, <2>2
<1>4. of \in Seq(T.parts) /\ Len(of) = n
  <2>1. of \in [1..n -> T.parts]
    BY <1>3
  <2>2. QED BY <2>1, SeqDef
<1>5. IsFiniteSet(T.parts)
  <2> DEFINE S == {Parts(of[i]) : i \in 1..n}
  <2>1. IsFiniteSet(1..n)
    <3>1. 1 \in Int /\ n \in Int
      OBVIOUS
    <3>2. QED BY <3>1, FS_Interval
  <2>2. IsFiniteSet(S)
    <3> DEFINE f == [i \in 1..n |-> Parts(of[i])]
    <3>1. f \in Surjection(1..n, S)
      BY DEF Surjection
    <3> HIDE DEF f, S
    <3>2. QED BY <2>1, <3>1, FS_Surjection
  <2>3. ASSUME NEW i \in 1..n PROVE IsFiniteSet(Parts(of[i]))
    <3>1. IsFiniteSet(of[i].parts)
      BY ChildTree DEF WellMade
    <3>2. IsFiniteSet(of[i].parts \cup {of[i]})
      BY <3>1, FS_AddElement
    <3>3. Parts(of[i]) = of[i].parts \cup {of[i]}
      BY DEF Parts
    <3>4. QED BY <3>2, <3>3
  <2>4. \A P \in S : IsFiniteSet(P)
    BY <2>3
  <2>5. IsFiniteSet(UNION S)
    <3> HIDE DEF S
    <3> QED BY <2>2, <2>4, FS_UNION
  <2>6. QED BY <1>1, <2>5
<1>6. T \notin T.parts
  <2>1. SUFFICES ASSUME T \in T.parts PROVE FALSE
    OBVIOUS
  <2>2. PICK i \in 1..n : T \in Parts(of[i])
    BY <1>1, <2>1
  <2>3. IsTree(of[i]) /\ of[i] \in T.parts /\ of[i] \notin of[i].parts
    BY <1>3, ChildTree DEF WellMade
  <2>4. T \in of[i].parts
    BY <2>2, <2>3 DEF Parts
  <2>5. Parts(T) \subseteq of[i].parts
    BY <2>2, <2>3, <2>4, PartsIn
  <2>6. QED BY <2>3, <2>5 DEF Parts
<1>7. WellMade(T)
  BY <1>1, <1>2, <1>4, <1>5, <1>6 DEF WellMade
<1>8. \A u \in T.parts : WellMade(u)
  <2>1. SUFFICES ASSUME NEW i \in 1..n, NEW u \in Parts(of[i]) PROVE WellMade(u)
    BY <1>1
  <2>2. QED BY PartsIn
<1>9. IsTree(T)
  BY <1>7, <1>8, TreeIs
<1>10. Labels(T) = {is} \cup UNION {Labels(of[i]) : i \in 1..n}
  BY <1>1 DEF Labels, Parts
<1>11. QED BY <1>1, <1>4, <1>9, <1>10 DEF T

-----------------------------------------------------------------------------
(***************************************************************************)
(* Recursion on trees. Every recursive function of the codec gives a node  *)
(* something made of the node and of what it gives the nodes this is made  *)
(* of; rule says which function it is, x is what the function is about.    *)
(***************************************************************************)
Made(rule, x, u, below) ==
  CASE rule = "relabel" -> Node(x[u.is], below)
    [] rule = "canonical" -> CanonicalNode(x[u.is], below)
    [] rule = "equal" -> EqualTo(x, u, below)
    [] rule = "type" -> TypeNode(u, below)
    [] rule = "typed" -> TypedNodes(x, u, below)
    [] rule = "inhabitants" -> Inhabitants(x, u, below)

Under(f, u) == [i \in DOMAIN u.of |-> f[u.of[i]]]
Solves(rule, x, f, D) == f = [u \in D |-> Made(rule, x, u, Under(f, u))]
Closed(D) == \A u \in D : IsTree(u) /\ \A i \in DOMAIN u.of : u.of[i] \in D

LEMMA PartsClosed ==
  ASSUME NEW t, IsTree(t)
  PROVE  Closed(Parts(t))
<1>1. SUFFICES ASSUME NEW u \in Parts(t)
               PROVE  IsTree(u) /\ \A i \in DOMAIN u.of : u.of[i] \in Parts(t)
  BY DEF Closed
<1>2. IsTree(u) /\ Parts(u) \subseteq Parts(t)
  BY PartsIn
<1>3. QED BY <1>2, ChildTree

LEMMA SolvesAt ==
  ASSUME NEW rule, NEW x, NEW f, NEW D, Solves(rule, x, f, D)
  PROVE  DOMAIN f = D /\ \A u \in D : f[u] = Made(rule, x, u, Under(f, u))
<1> DEFINE h == [u \in D |-> Made(rule, x, u, Under(f, u))]
<1>1. f = h
  BY DEF Solves
<1>2. DOMAIN h = D /\ \A u \in D : h[u] = Made(rule, x, u, Under(f, u))
  OBVIOUS
<1>3. QED BY <1>1, <1>2

LEMMA UnderSame ==
  ASSUME NEW f, NEW g, NEW u, \A i \in DOMAIN u.of : f[u.of[i]] = g[u.of[i]]
  PROVE  Under(f, u) = Under(g, u)
  BY DEF Under

\* Solutions agree.
LEMMA OneSolution ==
  ASSUME NEW rule, NEW x, NEW D, NEW E, Closed(D), Closed(E),
         NEW f, NEW g, Solves(rule, x, f, D), Solves(rule, x, g, E)
  PROVE  \A u \in D \cap E : f[u] = g[u]
<1> DEFINE X == {u \in D \cap E : f[u] # g[u]}
<1>1. SUFFICES ASSUME X # {} PROVE FALSE
  OBVIOUS
<1>2. PICK u \in X : \A v \in X : v \notin u.parts
  <2>1. \A u \in X : IsTree(u)
    BY DEF Closed
  <2> HIDE DEF X
  <2>2. QED BY <1>1, <2>1, Smallest
<1>3. IsTree(u) /\ \A i \in DOMAIN u.of : u.of[i] \in D \cap E
  BY DEF Closed
<1>4. \A i \in DOMAIN u.of : f[u.of[i]] = g[u.of[i]]
  BY <1>2, <1>3, ChildTree
<1>5. Under(f, u) = Under(g, u)
  BY <1>4, UnderSame
<1>6. f[u] = Made(rule, x, u, Under(f, u)) /\ g[u] = Made(rule, x, u, Under(g, u))
  BY SolvesAt
<1>7. QED BY <1>2, <1>5, <1>6

\* There is one.
LEMMA SomeSolution ==
  ASSUME NEW rule, NEW x, NEW D, Closed(D)
  PROVE  \E f : Solves(rule, x, f, D)
<1> DEFINE Part(E, f) == E \subseteq D /\ Closed(E) /\ Solves(rule, x, f, E)
           V == {w \in D : \E E, f : Part(E, f) /\ w \in E}
           F == [w \in V |-> CHOOSE y : \E E, f : Part(E, f) /\ w \in E /\ y = f[w]]
<1>1. ASSUME NEW E, NEW f, Part(E, f), NEW w \in E PROVE w \in V /\ F[w] = f[w]
  <2>1. w \in V
    BY <1>1
  <2>2. PICK E2, f2 : Part(E2, f2) /\ w \in E2 /\ F[w] = f2[w]
    <3>1. \E y : \E E2, f2 : Part(E2, f2) /\ w \in E2 /\ y = f2[w]
      BY <1>1
    <3>2. F[w] = CHOOSE y : \E E2, f2 : Part(E2, f2) /\ w \in E2 /\ y = f2[w]
      BY <2>1
    <3>3. QED BY <3>1, <3>2
  <2>3. f2[w] = f[w]
    BY <1>1, <2>2, OneSolution
  <2>4. QED BY <2>1, <2>2, <2>3
<1>2. ASSUME NEW w \in V
      PROVE  /\ \A i \in DOMAIN w.of : w.of[i] \in V
             /\ F[w] = Made(rule, x, w, Under(F, w))
  <2>1. PICK E, f : Part(E, f) /\ w \in E
    OBVIOUS
  <2>2. \A i \in DOMAIN w.of : w.of[i] \in E
    BY <2>1 DEF Closed
  <2>3. Part(E, f)
    BY <2>1
  <2>4. f[w] = Made(rule, x, w, Under(f, w))
    BY <2>1, SolvesAt
  <2> HIDE DEF F, V, Part
  <2>5. \A v \in E : v \in V /\ F[v] = f[v]
    BY <1>1, <2>3
  <2>6. Under(F, w) = Under(f, w)
    <3>1. \A i \in DOMAIN w.of : F[w.of[i]] = f[w.of[i]]
      BY <2>2, <2>5
    <3>2. QED BY <3>1, UnderSame
  <2>7. QED BY <2>1, <2>2, <2>4, <2>5, <2>6
<1>3. Closed(V)
  <2>1. \A w \in V : IsTree(w)
    BY DEF Closed
  <2> HIDE DEF V, F
  <2>2. QED BY <1>2, <2>1 DEF Closed
<1>4. Solves(rule, x, F, V)
  <2> DEFINE H == [w \in V |-> Made(rule, x, w, Under(F, w))]
  <2>1. \A w \in V : F[w] = H[w]
    BY <1>2
  <2>2. F = H
    BY <2>1
  <2>3. QED BY <2>2 DEF Solves
<1>5. V = D
  <2> DEFINE X == D \ V
  <2>1. SUFFICES ASSUME X # {} PROVE FALSE
    OBVIOUS
  <2>2. \A u \in X : IsTree(u)
    BY DEF Closed
  <2>3. PICK u \in X : \A v \in X : v \notin u.parts
    <3> HIDE DEF X
    <3> QED BY <2>1, <2>2, Smallest
  <2>4. u \in D /\ u \notin V /\ IsTree(u) /\ \A i \in DOMAIN u.of : u.of[i] \in D
    BY <2>2 DEF Closed
  <2>5. \A i \in DOMAIN u.of : u.of[i] \in V
    BY <2>3, <2>4, ChildTree
  <2> DEFINE E == V \cup {u}
             f == [w \in E |-> IF w = u THEN Made(rule, x, u, Under(F, u)) ELSE F[w]]
             h == [w \in E |-> Made(rule, x, w, Under(f, w))]
  <2>6. E \subseteq D /\ Closed(E)
    BY <1>3, <2>4, <2>5 DEF Closed
  <2> HIDE DEF F, V
  <2>7. ASSUME NEW w \in E PROVE f[w] = h[w]
    <3>1. \A i \in DOMAIN w.of : w.of[i] \in V
      BY <1>2, <2>5
    <3>2. \A i \in DOMAIN w.of : F[w.of[i]] = f[w.of[i]]
      BY <2>4, <3>1
    <3>3. Under(F, w) = Under(f, w)
      <4> HIDE DEF f
      <4> QED BY <3>2, UnderSame
    <3>4. w # u => F[w] = Made(rule, x, w, Under(F, w))
      BY <1>2
    <3>5. f[w] = Made(rule, x, w, Under(F, w))
      BY <3>4
    <3>6. h[w] = Made(rule, x, w, Under(f, w))
      <4> HIDE DEF f
      <4> QED OBVIOUS
    <3>7. QED BY <3>3, <3>5, <3>6
  <2>8. f = h
    BY <2>7
  <2>9. Solves(rule, x, f, E)
    BY <2>8 DEF Solves
  <2>10. u \in V
    BY <2>4, <2>6, <2>9 DEF V
  <2>11. QED BY <2>4, <2>10
<1>6. QED BY <1>4, <1>5

\* What a rule makes of a tree.
Result(rule, x, t) == (CHOOSE f : Solves(rule, x, f, Parts(t)))[t]

LEMMA ResultOf ==
  ASSUME NEW rule, NEW x, NEW t, IsTree(t), NEW f, Solves(rule, x, f, Parts(t))
  PROVE  \A u \in Parts(t) : f[u] = Result(rule, x, u)
<1>1. SUFFICES ASSUME NEW u \in Parts(t) PROVE f[u] = Result(rule, x, u)
  OBVIOUS
<1>2. IsTree(u) /\ u \in Parts(u) /\ Closed(Parts(u)) /\ Closed(Parts(t))
  BY PartsIn, PartsClosed, TreeIs
<1>3. \E g : Solves(rule, x, g, Parts(u))
  BY <1>2, SomeSolution
<1>4. PICK g : Solves(rule, x, g, Parts(u)) /\ Result(rule, x, u) = g[u]
  BY <1>3 DEF Result
<1>5. QED BY <1>2, <1>4, OneSolution

LEMMA ResultStep ==
  ASSUME NEW rule, NEW x, NEW t, IsTree(t)
  PROVE  Result(rule, x, t) = Made(rule, x, t, [i \in DOMAIN t.of |-> Result(rule, x, t.of[i])])
<1>1. PICK f : Solves(rule, x, f, Parts(t))
  BY PartsClosed, SomeSolution
<1>2. \A u \in Parts(t) : f[u] = Result(rule, x, u)
  BY <1>1, ResultOf
<1>3. f[t] = Made(rule, x, t, Under(f, t))
  BY <1>1, SolvesAt, TreeIs
<1>4. \A i \in DOMAIN t.of : f[t.of[i]] = Result(rule, x, t.of[i])
  BY <1>2, ChildTree
<1>5. Under(f, t) = [i \in DOMAIN t.of |-> Result(rule, x, t.of[i])]
  BY <1>4 DEF Under
<1>6. QED BY <1>2, <1>3, <1>5, TreeIs

-----------------------------------------------------------------------------
(***************************************************************************)
(* The recursive functions of the codec, as results of their rules.        *)
(***************************************************************************)
LEMMA MadeIs ==
  ASSUME NEW x, NEW u, NEW below
  PROVE  /\ Made("relabel", x, u, below) = Node(x[u.is], below)
         /\ Made("canonical", x, u, below) = CanonicalNode(x[u.is], below)
         /\ Made("equal", x, u, below) = EqualTo(x, u, below)
         /\ Made("type", x, u, below) = TypeNode(u, below)
         /\ Made("typed", x, u, below) = TypedNodes(x, u, below)
         /\ Made("inhabitants", x, u, below) = Inhabitants(x, u, below)
  BY DEF Made

LEMMA RelabelIs ==
  ASSUME NEW t, IsTree(t), NEW into
  PROVE  Relabel(t, into) = Result("relabel", into, t)
<1> DEFINE S(f) == f = [u \in Parts(t) |-> Node(into[u.is], [i \in DOMAIN u.of |-> f[u.of[i]]])]
<1>1. ASSUME NEW f PROVE S(f) <=> Solves("relabel", into, f, Parts(t))
  BY MadeIs DEF Solves, Under
<1>2. \E f : S(f)
  <2>1. \E f : Solves("relabel", into, f, Parts(t))
    BY PartsClosed, SomeSolution
  <2>2. QED BY <1>1, <2>1
<1>3. S(CHOOSE f : S(f))
  <2> HIDE DEF S
  <2> QED BY <1>2
<1>4. (CHOOSE f : S(f))[t] = Result("relabel", into, t)
  <2>1. Solves("relabel", into, CHOOSE f : S(f), Parts(t))
    BY <1>1, <1>3
  <2> DEFINE F == CHOOSE f : S(f)
  <2>2. Solves("relabel", into, F, Parts(t)) /\ t \in Parts(t)
    BY <2>1, TreeIs
  <2> HIDE DEF F
  <2>3. F[t] = Result("relabel", into, t)
    BY <2>2, ResultOf
  <2>4. QED BY <2>3 DEF F
<1>5. QED BY <1>4 DEF Relabel

LEMMA CanonicalIs ==
  ASSUME NEW t, IsTree(t), NEW into
  PROVE  Canonical(t, into) = Result("canonical", into, t)
<1> DEFINE S(f) == f = [u \in Parts(t) |-> CanonicalNode(into[u.is], [i \in DOMAIN u.of |-> f[u.of[i]]])]
<1>1. ASSUME NEW f PROVE S(f) <=> Solves("canonical", into, f, Parts(t))
  BY MadeIs DEF Solves, Under
<1>2. \E f : S(f)
  <2>1. \E f : Solves("canonical", into, f, Parts(t))
    BY PartsClosed, SomeSolution
  <2>2. QED BY <1>1, <2>1
<1>3. S(CHOOSE f : S(f))
  <2> HIDE DEF S
  <2> QED BY <1>2
<1>4. (CHOOSE f : S(f))[t] = Result("canonical", into, t)
  <2>1. Solves("canonical", into, CHOOSE f : S(f), Parts(t))
    BY <1>1, <1>3
  <2> DEFINE F == CHOOSE f : S(f)
  <2>2. Solves("canonical", into, F, Parts(t)) /\ t \in Parts(t)
    BY <2>1, TreeIs
  <2> HIDE DEF F
  <2>3. F[t] = Result("canonical", into, t)
    BY <2>2, ResultOf
  <2>4. QED BY <2>3 DEF F
<1>5. QED BY <1>4 DEF Canonical

LEMMA EqualIs ==
  ASSUME NEW w, IsTree(w), NEW g
  PROVE  Equal(w, g) <=> g \in Result("equal", Parts(g), w)
<1> DEFINE S(f) == f = [u \in Parts(w) |-> EqualTo(Parts(g), u, [i \in DOMAIN u.of |-> f[u.of[i]]])]
<1>1. ASSUME NEW f PROVE S(f) <=> Solves("equal", Parts(g), f, Parts(w))
  BY MadeIs DEF Solves, Under
<1>2. \E f : S(f)
  <2>1. \E f : Solves("equal", Parts(g), f, Parts(w))
    BY PartsClosed, SomeSolution
  <2>2. QED BY <1>1, <2>1
<1>3. S(CHOOSE f : S(f))
  <2> HIDE DEF S
  <2> QED BY <1>2
<1>4. (CHOOSE f : S(f))[w] = Result("equal", Parts(g), w)
  <2>1. Solves("equal", Parts(g), CHOOSE f : S(f), Parts(w))
    BY <1>1, <1>3
  <2> DEFINE F == CHOOSE f : S(f)
  <2>2. Solves("equal", Parts(g), F, Parts(w)) /\ w \in Parts(w)
    BY <2>1, TreeIs
  <2> HIDE DEF F
  <2>3. F[w] = Result("equal", Parts(g), w)
    BY <2>2, ResultOf
  <2>4. QED BY <2>3 DEF F
<1>5. QED BY <1>4 DEF Equal

LEMMA FromTypeIs ==
  ASSUME NEW t, IsTree(t)
  PROVE  FromType(t) = IF Faulty(Result("type", {}, t)) THEN Fault ELSE Result("type", {}, t)
<1> DEFINE S(f) == f = [u \in Parts(t) |-> TypeNode(u, [i \in DOMAIN u.of |-> f[u.of[i]]])]
<1>1. ASSUME NEW f PROVE S(f) <=> Solves("type", {}, f, Parts(t))
  BY MadeIs DEF Solves, Under
<1>2. \E f : S(f)
  <2>1. \E f : Solves("type", {}, f, Parts(t))
    BY PartsClosed, SomeSolution
  <2>2. QED BY <1>1, <2>1
<1>3. S(CHOOSE f : S(f))
  <2> HIDE DEF S
  <2> QED BY <1>2
<1>4. (CHOOSE f : S(f))[t] = Result("type", {}, t)
  <2>1. Solves("type", {}, CHOOSE f : S(f), Parts(t))
    BY <1>1, <1>3
  <2> DEFINE F == CHOOSE f : S(f)
  <2>2. Solves("type", {}, F, Parts(t)) /\ t \in Parts(t)
    BY <2>1, TreeIs
  <2> HIDE DEF F
  <2>3. F[t] = Result("type", {}, t)
    BY <2>2, ResultOf
  <2>4. QED BY <2>3 DEF F
<1>5. QED BY <1>4 DEF FromType

LEMMA HasTypeIs ==
  ASSUME NEW v, NEW t, IsTree(t)
  PROVE  HasType(v, t) <=> v \in Result("typed", Parts(v), t)
<1> DEFINE S(f) == f = [u \in Parts(t) |-> TypedNodes(Parts(v), u, [i \in DOMAIN u.of |-> f[u.of[i]]])]
<1>1. ASSUME NEW f PROVE S(f) <=> Solves("typed", Parts(v), f, Parts(t))
  BY MadeIs DEF Solves, Under
<1>2. \E f : S(f)
  <2>1. \E f : Solves("typed", Parts(v), f, Parts(t))
    BY PartsClosed, SomeSolution
  <2>2. QED BY <1>1, <2>1
<1>3. S(CHOOSE f : S(f))
  <2> HIDE DEF S
  <2> QED BY <1>2
<1>4. (CHOOSE f : S(f))[t] = Result("typed", Parts(v), t)
  <2>1. Solves("typed", Parts(v), CHOOSE f : S(f), Parts(t))
    BY <1>1, <1>3
  <2> DEFINE F == CHOOSE f : S(f)
  <2>2. Solves("typed", Parts(v), F, Parts(t)) /\ t \in Parts(t)
    BY <2>1, TreeIs
  <2> HIDE DEF F
  <2>3. F[t] = Result("typed", Parts(v), t)
    BY <2>2, ResultOf
  <2>4. QED BY <2>3 DEF F
<1>5. QED BY <1>4 DEF HasType

LEMMA InhabitsIs ==
  ASSUME NEW g, NEW t, IsTree(t)
  PROVE  Inhabits(g, t) <=> g \in Result("inhabitants", Parts(g), t)
<1> DEFINE S(f) == f = [u \in Parts(t) |-> Inhabitants(Parts(g), u, [i \in DOMAIN u.of |-> f[u.of[i]]])]
<1>1. ASSUME NEW f PROVE S(f) <=> Solves("inhabitants", Parts(g), f, Parts(t))
  BY MadeIs DEF Solves, Under
<1>2. \E f : S(f)
  <2>1. \E f : Solves("inhabitants", Parts(g), f, Parts(t))
    BY PartsClosed, SomeSolution
  <2>2. QED BY <1>1, <2>1
<1>3. S(CHOOSE f : S(f))
  <2> HIDE DEF S
  <2> QED BY <1>2
<1>4. (CHOOSE f : S(f))[t] = Result("inhabitants", Parts(g), t)
  <2>1. Solves("inhabitants", Parts(g), CHOOSE f : S(f), Parts(t))
    BY <1>1, <1>3
  <2> DEFINE F == CHOOSE f : S(f)
  <2>2. Solves("inhabitants", Parts(g), F, Parts(t)) /\ t \in Parts(t)
    BY <2>1, TreeIs
  <2> HIDE DEF F
  <2>3. F[t] = Result("inhabitants", Parts(g), t)
    BY <2>2, ResultOf
  <2>4. QED BY <2>3 DEF F
<1>5. QED BY <1>4 DEF Inhabits

LEMMA RelabelStep ==
  ASSUME NEW t, IsTree(t), NEW into
  PROVE  Relabel(t, into) = Node(into[t.is], [i \in DOMAIN t.of |-> Relabel(t.of[i], into)])
<1>1. Result("relabel", into, t) = Node(into[t.is], [i \in DOMAIN t.of |-> Result("relabel", into, t.of[i])])
  BY ResultStep, MadeIs
<1>2. \A i \in DOMAIN t.of : Relabel(t.of[i], into) = Result("relabel", into, t.of[i])
  BY ChildTree, RelabelIs
<1>3. [i \in DOMAIN t.of |-> Relabel(t.of[i], into)] = [i \in DOMAIN t.of |-> Result("relabel", into, t.of[i])]
  BY <1>2
<1>4. QED BY <1>1, <1>3, RelabelIs

LEMMA CanonicalStep ==
  ASSUME NEW t, IsTree(t), NEW into
  PROVE  Canonical(t, into) = CanonicalNode(into[t.is], [i \in DOMAIN t.of |-> Canonical(t.of[i], into)])
<1>1. Result("canonical", into, t) = CanonicalNode(into[t.is], [i \in DOMAIN t.of |-> Result("canonical", into, t.of[i])])
  BY ResultStep, MadeIs
<1>2. \A i \in DOMAIN t.of : Canonical(t.of[i], into) = Result("canonical", into, t.of[i])
  BY ChildTree, CanonicalIs
<1>3. [i \in DOMAIN t.of |-> Canonical(t.of[i], into)] = [i \in DOMAIN t.of |-> Result("canonical", into, t.of[i])]
  BY <1>2
<1>4. QED BY <1>1, <1>3, CanonicalIs

-----------------------------------------------------------------------------
(***************************************************************************)
(* Relabelling.                                                            *)
(***************************************************************************)
LEMMA LabelsOf ==
  ASSUME NEW t, IsTree(t)
  PROVE  /\ t.is \in Labels(t)
         /\ \A u \in Parts(t) : u.is \in Labels(t) /\ Labels(u) \subseteq Labels(t)
         /\ \A i \in DOMAIN t.of : Labels(t.of[i]) \subseteq Labels(t)
         /\ Labels(t) = {t.is} \cup UNION {Labels(t.of[i]) : i \in DOMAIN t.of}
<1>1. \A u \in Parts(t) : Parts(u) \subseteq Parts(t)
  BY PartsIn
<1>2. t \in Parts(t) /\ \A i \in DOMAIN t.of : Parts(t.of[i]) \subseteq Parts(t)
  BY TreeIs, ChildTree
<1>3. t.parts = UNION {Parts(t.of[i]) : i \in DOMAIN t.of}
  BY ChildTree, Children
<1>4. Labels(t) = {t.is} \cup UNION {Labels(t.of[i]) : i \in DOMAIN t.of}
  BY <1>3 DEF Labels, Parts
<1>5. QED BY <1>1, <1>2, <1>4 DEF Labels

\* What comes of relabelling: a tree of the same shape.
LEMMA RelabelTree ==
  ASSUME NEW t, IsTree(t), NEW into
  PROVE  /\ IsTree(Relabel(t, into)) /\ Labels(Relabel(t, into)) = {into[is] : is \in Labels(t)}
         /\ Relabel(t, into).is = into[t.is] /\ Kind(Relabel(t, into)) = into[t.is][1]
         /\ DOMAIN Relabel(t, into).of = DOMAIN t.of /\ Len(Relabel(t, into).of) = Len(t.of)
         /\ \A i \in DOMAIN t.of : Relabel(t, into).of[i] = Relabel(t.of[i], into)
<1> DEFINE G == {u \in Parts(t) : /\ IsTree(Relabel(u, into)) /\ Len(Relabel(u, into).of) = Len(u.of)
                                  /\ Labels(Relabel(u, into)) = {into[is] : is \in Labels(u)}}
<1>1. ASSUME NEW u \in Parts(t), \A i \in DOMAIN u.of : u.of[i] \in G PROVE u \in G
  <2>1. IsTree(u) /\ Len(u.of) \in Nat /\ DOMAIN u.of = 1..Len(u.of)
    BY PartsIn, ChildTree
  <2> DEFINE n == Len(u.of)
             made == [i \in 1..n |-> Relabel(u.of[i], into)]
  <2>2. Relabel(u, into) = Node(into[u.is], made)
    BY <2>1, RelabelStep
  <2>3. \A i \in 1..n : IsTree(made[i]) /\ Labels(made[i]) = {into[is] : is \in Labels(u.of[i])}
    BY <1>1, <2>1
  <2>5. n \in Nat
    BY <2>1
  <2>6. /\ IsTree(Node(into[u.is], made)) /\ Len(Node(into[u.is], made).of) = n
        /\ Labels(Node(into[u.is], made)) = {into[u.is]} \cup UNION {Labels(made[i]) : i \in 1..n}
    <3> DEFINE C == {made[i] : i \in 1..n}
    <3>1. made \in [1..n -> C] /\ \A c \in C : IsTree(c)
      BY <2>3
    <3> HIDE DEF made, n, G, C
    <3>2. QED BY <2>5, <3>1, NodeTree
  <2>7. Labels(u) = {u.is} \cup UNION {Labels(u.of[i]) : i \in 1..n}
    BY <2>1, LabelsOf
  <2>8. {into[is] : is \in Labels(u)} = {into[u.is]} \cup UNION {Labels(made[i]) : i \in 1..n}
    <3>1. \A i \in 1..n : Labels(made[i]) = {into[is] : is \in Labels(u.of[i])}
      BY <2>3
    <3>2. Labels(u) = {u.is} \cup UNION {Labels(u.of[i]) : i \in 1..n}
      BY <2>7
    <3> HIDE DEF made, n, G
    <3>3. {into[is] : is \in Labels(u)} \subseteq {into[u.is]} \cup UNION {Labels(made[i]) : i \in 1..n}
      BY <3>1, <3>2
    <3>4. {into[u.is]} \cup UNION {Labels(made[i]) : i \in 1..n} \subseteq {into[is] : is \in Labels(u)}
      BY <3>1, <3>2
    <3>5. QED BY <3>3, <3>4
  <2>9. QED BY <2>2, <2>6, <2>8
<1>2. t \in G
  <2>1. Parts(t) \subseteq G
    <3> HIDE DEF G
    <3> QED BY <1>1, OnParts
  <2>2. QED BY <2>1, TreeIs
<1>3. Relabel(t, into) = Node(into[t.is], [i \in DOMAIN t.of |-> Relabel(t.of[i], into)])
  BY RelabelStep
<1>4. QED BY <1>2, <1>3, NodeIs

\* Relabelling only depends on what the labels that occur are made into.
LEMMA RelabelTwice ==
  ASSUME NEW t, IsTree(t), NEW f, NEW h, NEW g, \A is \in Labels(t) : h[f[is]] = g[is]
  PROVE  Relabel(Relabel(t, f), h) = Relabel(t, g)
<1> DEFINE G == {u \in Parts(t) : Relabel(Relabel(u, f), h) = Relabel(u, g)}
<1>1. ASSUME NEW u \in Parts(t), \A i \in DOMAIN u.of : u.of[i] \in G PROVE u \in G
  <2>1. IsTree(u) /\ u.is \in Labels(t)
    BY PartsIn, LabelsOf
  <2> DEFINE r == Relabel(u, f)
  <2>2. /\ IsTree(r) /\ r.is = f[u.is] /\ DOMAIN r.of = DOMAIN u.of
        /\ \A i \in DOMAIN u.of : r.of[i] = Relabel(u.of[i], f)
    BY <2>1, RelabelTree
  <2>3. Relabel(u, g) = Node(g[u.is], [i \in DOMAIN u.of |-> Relabel(u.of[i], g)])
    BY <2>1, RelabelStep
  <2> HIDE DEF r
  <2>4. Relabel(r, h) = Node(h[r.is], [i \in DOMAIN r.of |-> Relabel(r.of[i], h)])
    BY <2>2, RelabelStep
  <2>5. [i \in DOMAIN r.of |-> Relabel(r.of[i], h)] = [i \in DOMAIN u.of |-> Relabel(u.of[i], g)]
    BY <1>1, <2>2
  <2>6. Relabel(r, h) = Relabel(u, g)
    BY <2>1, <2>2, <2>3, <2>4, <2>5
  <2>7. QED BY <2>6 DEF r
<1>2. Parts(t) \subseteq G
  <2> HIDE DEF G
  <2> QED BY <1>1, OnParts
<1>3. QED BY <1>2, TreeIs

LEMMA CanonicalRelabelled ==
  ASSUME NEW t, IsTree(t), NEW f, NEW h, NEW g, \A is \in Labels(t) : h[f[is]] = g[is]
  PROVE  Canonical(Relabel(t, f), h) = Canonical(t, g)
<1> DEFINE G == {u \in Parts(t) : Canonical(Relabel(u, f), h) = Canonical(u, g)}
<1>1. ASSUME NEW u \in Parts(t), \A i \in DOMAIN u.of : u.of[i] \in G PROVE u \in G
  <2>1. IsTree(u) /\ u.is \in Labels(t)
    BY PartsIn, LabelsOf
  <2> DEFINE r == Relabel(u, f)
  <2>2. /\ IsTree(r) /\ r.is = f[u.is] /\ DOMAIN r.of = DOMAIN u.of
        /\ \A i \in DOMAIN u.of : r.of[i] = Relabel(u.of[i], f)
    BY <2>1, RelabelTree
  <2>3. Canonical(u, g) = CanonicalNode(g[u.is], [i \in DOMAIN u.of |-> Canonical(u.of[i], g)])
    BY <2>1, CanonicalStep
  <2> HIDE DEF r
  <2>4. Canonical(r, h) = CanonicalNode(h[r.is], [i \in DOMAIN r.of |-> Canonical(r.of[i], h)])
    BY <2>2, CanonicalStep
  <2>5. [i \in DOMAIN r.of |-> Canonical(r.of[i], h)] = [i \in DOMAIN u.of |-> Canonical(u.of[i], g)]
    BY <1>1, <2>2
  <2>6. Canonical(r, h) = Canonical(u, g)
    BY <2>1, <2>2, <2>3, <2>4, <2>5
  <2>7. QED BY <2>6 DEF r
<1>2. Parts(t) \subseteq G
  <2> HIDE DEF G
  <2> QED BY <1>1, OnParts
<1>3. QED BY <1>2, TreeIs

LEMMA CanonicalAgree ==
  ASSUME NEW t, IsTree(t), NEW f, NEW g, \A is \in Labels(t) : f[is] = g[is]
  PROVE  Canonical(t, f) = Canonical(t, g)
<1> DEFINE G == {u \in Parts(t) : Canonical(u, f) = Canonical(u, g)}
<1>1. ASSUME NEW u \in Parts(t), \A i \in DOMAIN u.of : u.of[i] \in G PROVE u \in G
  <2>1. IsTree(u) /\ u.is \in Labels(t)
    BY PartsIn, LabelsOf
  <2>2. /\ Canonical(u, f) = CanonicalNode(f[u.is], [i \in DOMAIN u.of |-> Canonical(u.of[i], f)])
        /\ Canonical(u, g) = CanonicalNode(g[u.is], [i \in DOMAIN u.of |-> Canonical(u.of[i], g)])
    BY <2>1, CanonicalStep
  <2>3. [i \in DOMAIN u.of |-> Canonical(u.of[i], f)] = [i \in DOMAIN u.of |-> Canonical(u.of[i], g)]
    BY <1>1
  <2>4. QED BY <2>1, <2>2, <2>3
<1>2. Parts(t) \subseteq G
  <2> HIDE DEF G
  <2> QED BY <1>1, OnParts
<1>3. QED BY <1>2, TreeIs

-----------------------------------------------------------------------------
(***************************************************************************)
(* Bags, and the entries that mapEqual takes.                              *)
(***************************************************************************)
\* Where s is e, among its first n.
At(s, n, e) == {i \in 1..n : s[i] = e}

\* Everything is in a as often as in b.
SameCounts(a, m, b, n) == \A e : Cardinality(At(a, m, e)) = Cardinality(At(b, n, e))

\* The entries of b that are a[i], for every i.
Fits(fits, a, m, b, n) == \A i \in 1..m : fits[i] = At(b, n, a[i])

LEMMA AtCounts ==
  ASSUME NEW s, NEW n \in Nat, NEW e
  PROVE  /\ IsFiniteSet(At(s, n, e)) /\ Cardinality(At(s, n, e)) \in Nat
         /\ Cardinality(At(s, n, e)) = 0 <=> \A i \in 1..n : s[i] # e
<1>1. IsFiniteSet(1..n)
  <2>1. 1 \in Int /\ n \in Int
    OBVIOUS
  <2>2. QED BY <2>1, FS_Interval
<1>2. At(s, n, e) \subseteq 1..n
  BY DEF At
<1>3. IsFiniteSet(At(s, n, e))
  BY <1>1, <1>2, FS_Subset
<1>4. Cardinality(At(s, n, e)) = 0 <=> At(s, n, e) = {}
  BY <1>3, FS_EmptySet
<1>5. At(s, n, e) = {} <=> \A i \in 1..n : s[i] # e
  BY DEF At
<1>6. QED BY <1>3, <1>4, <1>5, FS_CardinalityType

\* Bags are equal when everything is in both as often.
LEMMA BagsEqual ==
  ASSUME NEW m \in Nat, NEW n \in Nat, NEW X, NEW Y, NEW a \in [1..m -> X], NEW b \in [1..n -> Y]
  PROVE  BagOf(a) = BagOf(b) <=> SameCounts(a, m, b, n)
<1> DEFINE A(e) == Cardinality(At(a, m, e))
           B(e) == Cardinality(At(b, n, e))
<1>1. BagOf(a) = {<<e, A(e)>> : e \in {a[i] : i \in 1..m}} /\ BagOf(b) = {<<e, B(e)>> : e \in {b[i] : i \in 1..n}}
  BY DEF BagOf, At
<1>2. \A e : (e \in {a[i] : i \in 1..m} <=> A(e) # 0) /\ (e \in {b[i] : i \in 1..n} <=> B(e) # 0)
  <2>1. SUFFICES ASSUME NEW e
                 PROVE  (e \in {a[i] : i \in 1..m} <=> A(e) # 0) /\ (e \in {b[i] : i \in 1..n} <=> B(e) # 0)
    OBVIOUS
  <2>2. (A(e) = 0 <=> \A i \in 1..m : a[i] # e) /\ (B(e) = 0 <=> \A i \in 1..n : b[i] # e)
    BY AtCounts
  <2> HIDE DEF A, B
  <2>3. QED BY <2>2
<1> HIDE DEF A, B
<1>3. ASSUME BagOf(a) = BagOf(b), NEW e PROVE A(e) = B(e)
  <2>1. CASE A(e) # 0
    <3>1. <<e, A(e)>> \in BagOf(b)
      BY <1>1, <1>2, <1>3, <2>1
    <3>2. PICK d \in {b[i] : i \in 1..n} : <<e, A(e)>> = <<d, B(d)>>
      BY <1>1, <3>1
    <3>3. QED BY <3>2
  <2>2. CASE B(e) # 0
    <3>1. <<e, B(e)>> \in BagOf(a)
      BY <1>1, <1>2, <1>3, <2>2
    <3>2. PICK d \in {a[i] : i \in 1..m} : <<e, B(e)>> = <<d, A(d)>>
      BY <1>1, <3>1
    <3>3. QED BY <3>2
  <2>3. QED BY <2>1, <2>2
<1>4. ASSUME \A e : A(e) = B(e) PROVE BagOf(a) = BagOf(b)
  <2>1. {a[i] : i \in 1..m} = {b[i] : i \in 1..n}
    BY <1>2, <1>4
  <2>2. QED BY <1>1, <1>4, <2>1
<1>5. QED BY <1>3, <1>4 DEF A, B, SameCounts

\* What the first entries have taken.
TakesOne(fits, i, before) ==
  before \cup {j \in fits[i] \ before : \A k \in fits[i] \ before : j <= k}
UsedBy(n, fits) == CHOOSE used : used = [i \in 0..n |-> IF i = 0 THEN {} ELSE TakesOne(fits, i, used[i - 1])]

LEMMA UsedUnfold ==
  ASSUME NEW n \in Nat, NEW fits
  PROVE  UsedBy(n, fits) = [i \in 0..n |-> IF i = 0 THEN {} ELSE TakesOne(fits, i, UsedBy(n, fits)[i - 1])]
<1> DEFINE Takes(f, m) == f = [i \in 0..m |-> IF i = 0 THEN {} ELSE TakesOne(fits, i, f[i - 1])]
           G == {m \in 0..n : \E f : Takes(f, m)}
<1>1. 0 \in G
  <2>1. Takes([i \in 0..0 |-> {}], 0)
    OBVIOUS
  <2>2. 0 \in 0..n
    OBVIOUS
  <2>3. QED BY <2>1, <2>2
<1>2. ASSUME NEW m \in 0..(n - 1), m \in G PROVE m + 1 \in G
  <2>1. PICK f : Takes(f, m)
    BY <1>2
  <2> DEFINE e == [i \in 0..(m + 1) |-> IF i = m + 1 THEN TakesOne(fits, m + 1, f[m]) ELSE f[i]]
  <2>2. m \in Nat /\ m + 1 \in 0..n
    OBVIOUS
  <2>3. ASSUME NEW i \in 0..(m + 1)
        PROVE  e[i] = IF i = 0 THEN {} ELSE TakesOne(fits, i, e[i - 1])
    <3>1. CASE i = m + 1
      <4>1. i # 0 /\ i - 1 = m /\ m \in 0..(m + 1) /\ m # m + 1
        BY <2>2, <3>1
      <4>2. e[i - 1] = f[m]
        BY <4>1
      <4>3. QED BY <3>1, <4>1, <4>2
    <3>2. CASE i # m + 1
      <4>1. i \in 0..m
        BY <2>2, <3>2
      <4>2. e[i] = f[i] /\ f[i] = (IF i = 0 THEN {} ELSE TakesOne(fits, i, f[i - 1]))
        BY <2>1, <3>2, <4>1
      <4>3. i # 0 => i - 1 \in 0..(m + 1) /\ i - 1 # m + 1
        BY <2>2, <4>1
      <4>4. i # 0 => e[i - 1] = f[i - 1]
        BY <4>3
      <4>5. QED BY <4>2, <4>4
    <3>3. QED BY <3>1, <3>2
  <2>4. Takes(e, m + 1)
    BY <2>3
  <2>5. QED BY <2>2, <2>4
<1>3. \A m \in 0..n : m \in G
  <2> HIDE DEF G
  <2> QED BY <1>1, <1>2, UpTo
<1>4. \E f : Takes(f, n)
  <2>1. n \in 0..n
    OBVIOUS
  <2>2. QED BY <1>3, <2>1
<1>5. QED BY <1>4 DEF UsedBy

LEMMA UsedAt ==
  ASSUME NEW n \in Nat, NEW fits
  PROVE  /\ UsedBy(n, fits)[0] = {}
         /\ \A i \in 0..(n - 1) : UsedBy(n, fits)[i + 1] = TakesOne(fits, i + 1, UsedBy(n, fits)[i])
         /\ TakeEntries(n, fits) <=> \A i \in 0..(n - 1) : ~ (fits[i + 1] \subseteq UsedBy(n, fits)[i])
<1> DEFINE U == UsedBy(n, fits)
<1>1. U = [i \in 0..n |-> IF i = 0 THEN {} ELSE TakesOne(fits, i, U[i - 1])]
  BY UsedUnfold
<1>2. TakeEntries(n, fits) <=> \A i \in 1..n : ~ (fits[i] \subseteq U[i - 1])
  BY DEF TakeEntries, UsedBy, TakesOne
<1> HIDE DEF U
<1>3. 0 \in 0..n /\ \A i \in 0..(n - 1) : i + 1 \in 0..n /\ i + 1 \in 1..n /\ i + 1 # 0 /\ (i + 1) - 1 = i
  OBVIOUS
<1>4. \A i \in 1..n : i - 1 \in 0..(n - 1) /\ (i - 1) + 1 = i
  OBVIOUS
<1>5. U[0] = {}
  BY <1>1, <1>3
<1>6. ASSUME NEW i \in 0..(n - 1) PROVE U[i + 1] = TakesOne(fits, i + 1, U[i])
  <2>1. U[i + 1] = TakesOne(fits, i + 1, U[(i + 1) - 1])
    BY <1>1, <1>3
  <2>2. QED BY <1>3, <2>1
<1>7. (\A i \in 1..n : ~ (fits[i] \subseteq U[i - 1])) <=> \A i \in 0..(n - 1) : ~ (fits[i + 1] \subseteq U[i])
  <2>1. ASSUME \A i \in 1..n : ~ (fits[i] \subseteq U[i - 1]), NEW i \in 0..(n - 1)
        PROVE  ~ (fits[i + 1] \subseteq U[i])
    <3>1. i + 1 \in 1..n /\ (i + 1) - 1 = i
      BY <1>3
    <3>2. ~ (fits[i + 1] \subseteq U[(i + 1) - 1])
      BY <2>1, <3>1
    <3>3. QED BY <3>1, <3>2
  <2>2. ASSUME \A i \in 0..(n - 1) : ~ (fits[i + 1] \subseteq U[i]), NEW i \in 1..n
        PROVE  ~ (fits[i] \subseteq U[i - 1])
    <3>1. i - 1 \in 0..(n - 1) /\ (i - 1) + 1 = i
      BY <1>4
    <3>2. ~ (fits[(i - 1) + 1] \subseteq U[i - 1])
      BY <2>2, <3>1
    <3>3. QED BY <3>1, <3>2
  <2>3. QED BY <2>1, <2>2
<1>8. QED BY <1>2, <1>5, <1>6, <1>7 DEF U

\* An entry that finds a free one takes one of its kind, and one only.
LEMMA OneTaken ==
  ASSUME NEW U, NEW fits, NEW k, fits[k] \subseteq Nat, ~ (fits[k] \subseteq U)
  PROVE  \E j : j \in fits[k] /\ j \notin U /\ TakesOne(fits, k, U) = U \cup {j}
<1> DEFINE free == fits[k] \ U
<1>1. free \subseteq Nat /\ free # {}
  OBVIOUS
<1>2. PICK j \in free : \A q \in free : j <= q
  <2> HIDE DEF free
  <2> QED BY <1>1, LeastOf
<1>3. {l \in free : \A q \in free : l <= q} = {j}
  <2> HIDE DEF free
  <2>1. ASSUME NEW l \in free, \A q \in free : l <= q PROVE l = j
    <3>1. l <= j /\ j <= l /\ l \in Nat /\ j \in Nat
      BY <1>1, <1>2, <2>1
    <3>2. QED BY <3>1
  <2>2. QED BY <1>2, <2>1
<1>4. QED BY <1>2, <1>3 DEF TakesOne

\* After i entries that found one: i are used, of each kind as many as came.
Tally(a, b, n, U, i) ==
  /\ U \subseteq 1..n /\ IsFiniteSet(U) /\ Cardinality(U) = i
  /\ \A e : Cardinality(U \cap At(b, n, e)) = Cardinality(At(a, i, e))

LEMMA TallyStep ==
  ASSUME NEW a, NEW b, NEW n \in Nat, NEW i \in Nat, NEW U, Tally(a, b, n, U, i),
         NEW fits, fits[i + 1] = At(b, n, a[i + 1]), ~ (At(b, n, a[i + 1]) \subseteq U)
  PROVE  Tally(a, b, n, TakesOne(fits, i + 1, U), i + 1)
<1>1. PICK j \in At(b, n, a[i + 1]) : j \notin U /\ TakesOne(fits, i + 1, U) = U \cup {j}
  <2>1. fits[i + 1] \subseteq Nat /\ ~ (fits[i + 1] \subseteq U)
    BY DEF At
  <2>2. \E j : j \in fits[i + 1] /\ j \notin U /\ TakesOne(fits, i + 1, U) = U \cup {j}
    BY <2>1, OneTaken
  <2>3. QED BY <2>2
<1>2. j \in 1..n /\ b[j] = a[i + 1]
  BY DEF At
<1>3. U \cup {j} \subseteq 1..n /\ IsFiniteSet(U \cup {j}) /\ Cardinality(U \cup {j}) = i + 1
  <2>1. IsFiniteSet(U) /\ Cardinality(U) = i /\ U \subseteq 1..n
    BY DEF Tally
  <2>2. QED BY <1>1, <1>2, <2>1, FS_AddElement
<1>4. ASSUME NEW e PROVE Cardinality((U \cup {j}) \cap At(b, n, e)) = Cardinality(At(a, i + 1, e))
  <2>1. Cardinality(U \cap At(b, n, e)) = Cardinality(At(a, i, e))
    BY DEF Tally
  <2>2. CASE e = a[i + 1]
    <3>1. (U \cup {j}) \cap At(b, n, e) = (U \cap At(b, n, e)) \cup {j}
      BY <1>1, <2>2
    <3>2. At(a, i + 1, e) = At(a, i, e) \cup {i + 1} /\ i + 1 \notin At(a, i, e)
      <4>1. 1..(i + 1) = (1..i) \cup {i + 1} /\ i + 1 \notin 1..i
        OBVIOUS
      <4>2. QED BY <2>2, <4>1 DEF At
    <3>3. IsFiniteSet(U \cap At(b, n, e)) /\ j \notin U \cap At(b, n, e)
      <4>1. IsFiniteSet(U) /\ U \cap At(b, n, e) \subseteq U
        BY DEF Tally
      <4>2. IsFiniteSet(U \cap At(b, n, e))
        BY <4>1, FS_Subset
      <4>3. QED BY <1>1, <4>2
    <3>4. Cardinality((U \cap At(b, n, e)) \cup {j}) = Cardinality(U \cap At(b, n, e)) + 1
      BY <3>3, FS_AddElement
    <3>5. Cardinality(At(a, i, e) \cup {i + 1}) = Cardinality(At(a, i, e)) + 1
      BY <3>2, AtCounts, FS_AddElement
    <3>6. QED BY <2>1, <3>1, <3>2, <3>4, <3>5
  <2>3. CASE e # a[i + 1]
    <3>1. (U \cup {j}) \cap At(b, n, e) = U \cap At(b, n, e)
      BY <1>2, <2>3 DEF At
    <3>2. At(a, i + 1, e) = At(a, i, e)
      <4>1. 1..(i + 1) = (1..i) \cup {i + 1}
        OBVIOUS
      <4>2. QED BY <2>3, <4>1 DEF At
    <3>3. QED BY <2>1, <3>1, <3>2
  <2>4. QED BY <2>2, <2>3
<1>5. Tally(a, b, n, U \cup {j}, i + 1)
  BY <1>3, <1>4 DEF Tally
<1>6. QED BY <1>1, <1>5

LEMMA TallyStart ==
  ASSUME NEW a, NEW b, NEW n \in Nat
  PROVE  Tally(a, b, n, {}, 0)
<1>1. IsFiniteSet({}) /\ Cardinality({}) = 0
  BY FS_EmptySet
<1>2. \A e : {} \cap At(b, n, e) = {} /\ At(a, 0, e) = {}
  BY DEF At
<1>3. QED BY <1>1, <1>2 DEF Tally

\* When everything is in both as often, every entry finds a free one.
LEMMA AllTaken ==
  ASSUME NEW m \in Nat, NEW n \in Nat, NEW a, NEW b, NEW fits,
         Fits(fits, a, m, b, n), SameCounts(a, m, b, n)
  PROVE  TakeEntries(m, fits) /\ m <= n
<1> DEFINE U == UsedBy(m, fits)
           G == {i \in 0..m : Tally(a, b, n, U[i], i)}
<1>1. 0 \in G
  <2>1. U[0] = {} /\ 0 \in 0..m
    BY UsedAt
  <2>2. QED BY <2>1, TallyStart
<1>2. ASSUME NEW i \in 0..(m - 1), Tally(a, b, n, U[i], i)
      PROVE  fits[i + 1] = At(b, n, a[i + 1]) /\ ~ (At(b, n, a[i + 1]) \subseteq U[i])
  <2>1. i \in Nat /\ i + 1 \in 1..m /\ i + 1 \notin 1..i /\ 1..i \subseteq 1..m
    OBVIOUS
  <2> DEFINE e == a[i + 1]
  <2>2. ASSUME At(b, n, e) \subseteq U[i] PROVE FALSE
    <3>1. U[i] \cap At(b, n, e) = At(b, n, e)
      BY <2>2
    <3>2. Cardinality(At(a, i, e)) = Cardinality(At(a, m, e))
      BY <1>2, <3>1 DEF Tally, SameCounts
    <3>3. At(a, i, e) \subseteq At(a, m, e) /\ i + 1 \in At(a, m, e) /\ i + 1 \notin At(a, i, e)
      BY <2>1 DEF At
    <3>4. IsFiniteSet(At(a, m, e))
      BY AtCounts
    <3>5. QED BY <3>2, <3>3, <3>4, FS_Subset
  <2>3. QED BY <2>1, <2>2 DEF Fits
<1>3. ASSUME NEW i \in 0..(m - 1), i \in G PROVE i + 1 \in G
  <2>1. i \in Nat /\ i + 1 \in 0..m /\ Tally(a, b, n, U[i], i)
    BY <1>3
  <2>2. fits[i + 1] = At(b, n, a[i + 1]) /\ ~ (At(b, n, a[i + 1]) \subseteq U[i])
    BY <1>2, <2>1
  <2>3. U[i + 1] = TakesOne(fits, i + 1, U[i])
    BY UsedAt
  <2> HIDE DEF U
  <2>4. Tally(a, b, n, TakesOne(fits, i + 1, U[i]), i + 1)
    BY <2>1, <2>2, TallyStep
  <2>5. QED BY <2>1, <2>3, <2>4
<1>4. \A i \in 0..m : i \in G
  <2> HIDE DEF G
  <2> QED BY <1>1, <1>3, UpTo
<1>5. \A i \in 0..m : Tally(a, b, n, U[i], i)
  BY <1>4
<1>6. \A i \in 0..(m - 1) : ~ (fits[i + 1] \subseteq U[i])
  <2>1. \A i \in 0..(m - 1) : i \in 0..m
    OBVIOUS
  <2> HIDE DEF U
  <2>2. QED BY <1>2, <1>5, <2>1
<1>7. TakeEntries(m, fits)
  BY <1>6, UsedAt
<1>8. m <= n
  <2>1. m \in 0..m
    OBVIOUS
  <2>2. U[m] \subseteq 1..n /\ Cardinality(U[m]) = m
    BY <1>5, <2>1 DEF Tally
  <2>3. IsFiniteSet(1..n) /\ Cardinality(1..n) = n
    <3>1. 1 \in Int /\ n \in Int
      OBVIOUS
    <3>2. IsFiniteSet(1..n) /\ Cardinality(1..n) = IF 1 > n THEN 0 ELSE n - 1 + 1
      BY <3>1, FS_Interval
    <3>3. QED BY <3>2
  <2>4. QED BY <2>2, <2>3, FS_Subset
<1>9. QED BY <1>7, <1>8

\* When as many entries as there are all find a free one, everything is in
\* both as often.
LEMMA TakenAll ==
  ASSUME NEW n \in Nat, NEW a, NEW b, NEW fits, Fits(fits, a, n, b, n), TakeEntries(n, fits)
  PROVE  SameCounts(a, n, b, n)
<1> DEFINE U == UsedBy(n, fits)
           G == {i \in 0..n : Tally(a, b, n, U[i], i)}
<1>1. 0 \in G
  <2>1. U[0] = {} /\ 0 \in 0..n
    BY UsedAt
  <2>2. QED BY <2>1, TallyStart
<1>2. ASSUME NEW i \in 0..(n - 1), i \in G PROVE i + 1 \in G
  <2>1. i \in Nat /\ i + 1 \in 0..n /\ i + 1 \in 1..n /\ Tally(a, b, n, U[i], i)
    BY <1>2
  <2>2. fits[i + 1] = At(b, n, a[i + 1]) /\ ~ (fits[i + 1] \subseteq U[i])
    BY <2>1, UsedAt DEF Fits
  <2>3. U[i + 1] = TakesOne(fits, i + 1, U[i])
    <3>1. \A k \in 0..(n - 1) : UsedBy(n, fits)[k + 1] = TakesOne(fits, k + 1, UsedBy(n, fits)[k])
      BY UsedAt
    <3>2. QED BY <3>1
  <2> HIDE DEF U
  <2>4. Tally(a, b, n, TakesOne(fits, i + 1, U[i]), i + 1)
    BY <2>1, <2>2, TallyStep
  <2>5. QED BY <2>1, <2>3, <2>4
<1>3. \A i \in 0..n : i \in G
  <2> HIDE DEF G
  <2> QED BY <1>1, <1>2, UpTo
<1>4. Tally(a, b, n, U[n], n)
  <2>1. n \in 0..n
    OBVIOUS
  <2>2. QED BY <1>3, <2>1
<1> HIDE DEF U
<1>5. U[n] = 1..n
  <2>1. U[n] \subseteq 1..n /\ Cardinality(U[n]) = n
    BY <1>4 DEF Tally
  <2>2. IsFiniteSet(1..n) /\ Cardinality(1..n) = n
    <3>1. 1 \in Int /\ n \in Int
      OBVIOUS
    <3>2. IsFiniteSet(1..n) /\ Cardinality(1..n) = IF 1 > n THEN 0 ELSE n - 1 + 1
      BY <3>1, FS_Interval
    <3>3. QED BY <3>2
  <2>3. QED BY <2>1, <2>2, FS_Subset
<1>6. \A e : U[n] \cap At(b, n, e) = At(b, n, e)
  BY <1>5 DEF At
<1>7. QED BY <1>4, <1>6 DEF Tally, SameCounts

\* mapEqual takes the entries exactly when the bags are equal.
LEMMA EntriesEqual ==
  ASSUME NEW m \in Nat, NEW n \in Nat, NEW X, NEW Y, NEW a \in [1..m -> X], NEW b \in [1..n -> Y], NEW fits,
         Fits(fits, a, m, b, n)
  PROVE  BagOf(a) = BagOf(b) <=> m = n /\ TakeEntries(n, fits)
<1>2. ASSUME BagOf(a) = BagOf(b) PROVE m = n /\ TakeEntries(n, fits)
  <2>1. SameCounts(a, m, b, n) /\ SameCounts(b, n, a, m)
    <3>1. SameCounts(a, m, b, n)
      BY <1>2, BagsEqual
    <3>2. QED BY <3>1 DEF SameCounts
  <2>2. TakeEntries(m, fits) /\ m <= n
    BY <2>1, AllTaken
  <2>3. n <= m
    <3> DEFINE back == [i \in 1..n |-> At(a, m, b[i])]
    <3>1. Fits(back, b, n, a, m)
      BY DEF Fits
    <3> HIDE DEF back
    <3>2. QED BY <2>1, <3>1, AllTaken
  <2>4. m = n
    BY <2>2, <2>3
  <2>5. QED BY <2>2, <2>4
<1>3. ASSUME m = n, TakeEntries(n, fits) PROVE BagOf(a) = BagOf(b)
  <2>1. SameCounts(a, m, b, n)
    BY <1>3, TakenAll
  <2>2. BagOf(a) = BagOf(b) <=> SameCounts(a, m, b, n)
    BY BagsEqual
  <2>3. QED BY <2>1, <2>2
<1>4. QED BY <1>2, <1>3

-----------------------------------------------------------------------------
(***************************************************************************)
(* Labels: of protobuf values, tagged, stored, and what they mean.         *)
(***************************************************************************)
TaggedLabel(is) ==
  \/ is \in {<<"null">>, <<"list">>, <<"map">>, <<"entry">>}
  \/ IsPair(is) /\ is[1] \in {"bool", "int", "uint", "string", "bytes", "type", "timestamp", "duration"}
  \/ is = Double(is[2][2])

Nested == {"list", "map", "entry"}

\* What a tagged label means.
plain(is) ==
  CASE is[1] = "double" -> Number(is[2][2])
    [] is[1] = "timestamp" -> <<"timestamp", is[2].s, is[2].n>>
    [] OTHER -> is

\* What Equal asks of two nodes, leaving aside what they are made of.
SameLabel(w, g) ==
  /\ w[1] = g[1]
  /\ w[1] = "double" => doubleEqual(w[2], g[2])
  /\ w[1] = "timestamp" => timestampEqual(w[2], g[2])
  /\ w[1] \notin {"null", "list", "map", "entry", "double", "timestamp"} => w[2] = g[2]

LEMMA DoubleIs ==
  ASSUME NEW d
  PROVE  /\ Double(d)[1] = "double" /\ Double(d)[2][2] = d /\ plain(Double(d)) = Number(d)
         /\ Number(d) = <<"double", IF d = "-0" THEN "0" ELSE d>>
  BY DEF Double, doublePayload, plain, Number

LEMMA PlainKind ==
  ASSUME NEW l, TaggedLabel(l)
  PROVE  /\ plain(l)[1] = l[1]
         /\ l[1] \in {"null", "list", "map", "entry"} => l = <<l[1]>> /\ plain(l) = l
         /\ l[1] \notin {"null", "list", "map", "entry"} => l = <<l[1], l[2]>>
         /\ l[1] \in {"bool", "int", "uint", "double", "string", "bytes", "type", "timestamp", "duration",
                      "null", "list", "map", "entry"}
<1>1. CASE l \in {<<"null">>, <<"list">>, <<"map">>, <<"entry">>}
  BY <1>1 DEF plain
<1>2. CASE IsPair(l) /\ l[1] \in {"bool", "int", "uint", "string", "bytes", "type", "timestamp", "duration"}
  BY <1>2 DEF plain, IsPair
<1>3. CASE l = Double(l[2][2])
  <2>1. l[1] = "double" /\ l = <<l[1], l[2]>>
    BY <1>3 DEF Double
  <2>2. plain(l)[1] = "double"
    BY <2>1 DEF plain, Number
  <2>3. QED BY <2>1, <2>2
<1>4. QED BY <1>1, <1>2, <1>3 DEF TaggedLabel

LEMMA SameLabelPlain ==
  ASSUME NEW w, NEW g, TaggedLabel(w), TaggedLabel(g)
  PROVE  SameLabel(w, g) <=> plain(w) = plain(g)
<1>1. CASE w[1] # g[1]
  <2>1. plain(w) # plain(g)
    BY <1>1, PlainKind
  <2>2. QED BY <1>1, <2>1 DEF SameLabel
<1>2. CASE w[1] = g[1] /\ w[1] \in {"null", "list", "map", "entry"}
  BY <1>2, PlainKind DEF SameLabel
<1>3. CASE w[1] = "double" /\ g[1] = "double"
  <2>1. w = Double(w[2][2]) /\ g = Double(g[2][2])
    BY <1>3 DEF TaggedLabel, IsPair
  <2>2. PICK d, e : w = Double(d) /\ g = Double(e)
    BY <2>1
  <2>3. plain(w) = plain(g) <=> (d = e \/ {d, e} = {"0", "-0"})
    <3>1. plain(w) = <<"double", IF d = "-0" THEN "0" ELSE d>> /\ plain(g) = <<"double", IF e = "-0" THEN "0" ELSE e>>
      BY <2>2, DoubleIs
    <3>2. QED BY <3>1
  <2>4. w[2][2] = d /\ g[2][2] = e
    BY <2>2, DoubleIs
  <2>5. SameLabel(w, g) <=> doubleEqual(w[2], g[2])
    BY <1>3 DEF SameLabel
  <2>6. QED BY <2>3, <2>4, <2>5 DEF doubleEqual
<1>4. CASE w[1] = "timestamp" /\ g[1] = "timestamp"
  <2>1. plain(w) = <<"timestamp", w[2].s, w[2].n>> /\ plain(g) = <<"timestamp", g[2].s, g[2].n>>
    BY <1>4 DEF plain
  <2>2. SameLabel(w, g) <=> w[2].s = g[2].s /\ w[2].n = g[2].n
    BY <1>4 DEF SameLabel, timestampEqual
  <2>3. QED BY <2>1, <2>2
<1>5. CASE w[1] = g[1] /\ w[1] \notin {"null", "list", "map", "entry", "double", "timestamp"}
  <2>1. w = <<w[1], w[2]>> /\ g = <<g[1], g[2]>>
    BY <1>5, PlainKind
  <2>2. plain(w) = w /\ plain(g) = g
    BY <1>5 DEF plain
  <2>3. SameLabel(w, g) <=> w[2] = g[2]
    BY <1>5 DEF SameLabel
  <2>4. QED BY <1>5, <2>1, <2>2, <2>3
<1>6. QED BY <1>1, <1>2, <1>3, <1>4, <1>5

LEMMA StoredLabel ==
  ASSUME NEW l, TaggedLabel(l)
  PROVE  TaggedLabel(stored(l)) /\ plain(stored(l)) = plain(l) /\ stored(l)[1] = l[1]
<1>1. CASE l = Double("-0")
  <2>1. stored(l) = Double("0")
    BY <1>1 DEF stored
  <2>2. plain(stored(l)) = plain(l) /\ stored(l)[1] = l[1] /\ stored(l) = Double(stored(l)[2][2])
    BY <1>1, <2>1, DoubleIs
  <2>3. QED BY <2>2 DEF TaggedLabel
<1>2. CASE l # Double("-0")
  BY <1>2 DEF stored
<1>3. QED BY <1>1, <1>2

\* A duration of which the sum is in range is that sum, whatever overflowed on
\* the way.
LEMMA Int64Is ==
  ASSUME NEW a \in Int, NEW n \in Int, a + n \in (-IntLimit)..(IntLimit - 1)
  PROVE  int64(int64(a) + n) = a + n
<1> DEFINE M == 2 * IntLimit
           q == (a + IntLimit) \div M
           r == (a + IntLimit) % M
           b == (r - IntLimit) + n
<1>1. IntLimit \in Nat /\ M \in Nat /\ M > 0
  BY LimitAssumption
<1>2. q \in Int /\ r \in 0..(M - 1) /\ a + IntLimit = M * q + r
  <2>1. a + IntLimit \in Int
    BY <1>1
  <2> HIDE DEF M
  <2>2. QED BY <1>1, <2>1
<1>3. int64(a) = r - IntLimit
  BY DEF int64
<1> HIDE DEF q, r
<1>4. b \in Int /\ b + IntLimit \in Int
  BY <1>1, <1>2
<1>5. (b + IntLimit) \div M \in Int /\ ((b + IntLimit) % M) \in 0..(M - 1)
      /\ b + IntLimit = M * ((b + IntLimit) \div M) + ((b + IntLimit) % M)
  <2> HIDE DEF M, b
  <2>1. QED BY <1>1, <1>4
<1> DEFINE p == (b + IntLimit) \div M
           s == (b + IntLimit) % M
<1>6. p \in Int /\ s \in 0..(M - 1) /\ b + IntLimit = M * p + s
  BY <1>5
<1>7. int64(b) = s - IntLimit
  BY DEF int64
<1> HIDE DEF p, s
<1>8. a + n + IntLimit \in 0..(M - 1)
  BY <1>1
<1>9. a + n + IntLimit = M * (p + q) + s
  <2>1. b = (a + n) - M * q
    BY <1>1, <1>2
  <2>2. M * (p + q) = M * p + M * q /\ M * p \in Int /\ M * q \in Int
    BY <1>1, <1>2, <1>6
  <2> HIDE DEF M
  <2>3. QED BY <1>1, <1>4, <1>6, <2>1, <2>2
<1>10. p + q = 0
  <2>1. p + q >= 1 => M * (p + q) >= M
    BY <1>1, <1>2, <1>6
  <2>2. p + q <= -1 => M * (p + q) <= -M
    BY <1>1, <1>2, <1>6
  <2>3. M * (p + q) \in Int
    BY <1>1, <1>2, <1>6
  <2> HIDE DEF M
  <2>4. QED BY <1>1, <1>2, <1>6, <1>8, <1>9, <2>1, <2>2, <2>3
<1>11. a + n + IntLimit = s
  BY <1>1, <1>6, <1>9, <1>10
<1>12. int64(b) = a + n
  BY <1>1, <1>6, <1>7, <1>11
<1>13. QED BY <1>3, <1>12

LEMMA JsonLabel ==
  ASSUME NEW j, Json(j)
  PROVE  TaggedLabel(fromJSON(j)) /\ plain(fromJSON(j)) = JsonMeaning(j)
<1>1. CASE j \in {<<"null">>, <<"unset">>}
  <2>1. fromJSON(j) = <<"null">> /\ JsonMeaning(j) = <<"null">>
    BY <1>1 DEF fromJSON, JsonMeaning
  <2>2. QED BY <2>1 DEF TaggedLabel, plain
<1>2. CASE j = <<"array">>
  <2>1. fromJSON(j) = <<"list">> /\ JsonMeaning(j) = <<"list">>
    BY <1>2 DEF fromJSON, JsonMeaning
  <2>2. QED BY <2>1 DEF TaggedLabel, plain
<1>3. CASE j = <<"struct">>
  <2>1. fromJSON(j) = <<"map">> /\ JsonMeaning(j) = <<"map">>
    BY <1>3 DEF fromJSON, JsonMeaning
  <2>2. QED BY <2>1 DEF TaggedLabel, plain
<1>4. CASE IsPair(j) /\ j[1] = "number"
  <2>1. fromJSON(j) = Double(j[2]) /\ JsonMeaning(j) = Number(j[2])
    BY <1>4 DEF fromJSON, JsonMeaning, IsPair
  <2>2. QED BY <2>1, DoubleIs DEF TaggedLabel
<1>5. CASE IsPair(j) /\ j[1] \in {"bool", "string"}
  <2>1. fromJSON(j) = j /\ JsonMeaning(j) = j
    BY <1>5 DEF fromJSON, JsonMeaning, IsPair
  <2>2. QED BY <1>5, <2>1 DEF TaggedLabel, plain
<1>6. QED BY <1>1, <1>2, <1>3, <1>4, <1>5 DEF Json

\* No overflow in what the label says.
LabelInRange(is) ==
  is[1] = "object" /\ is[2] = "google.protobuf.Duration" =>
    is[3].s * Nano + is[3].n \in (-IntLimit)..(IntLimit - 1)

\* What is not refused is tagged, and means the same.
LEMMA MessageLabel ==
  ASSUME NEW name, NEW m,
         name = "google.protobuf.Duration" => m.s \in Int /\ m.n \in Int,
         name = "google.protobuf.Value" => Json(m),
         fromWellKnown(name, m) # <<"fault">>
  PROVE  /\ TaggedLabel(fromWellKnown(name, m))
         /\ (name = "google.protobuf.Duration" => m.s * Nano + m.n \in (-IntLimit)..(IntLimit - 1)) =>
              plain(fromWellKnown(name, m)) = MessageMeaning(name, m)
<1> DEFINE l == fromWellKnown(name, m)
           Done == /\ TaggedLabel(l)
                   /\ (name = "google.protobuf.Duration" => m.s * Nano + m.n \in (-IntLimit)..(IntLimit - 1)) =>
                        plain(l) = MessageMeaning(name, m)
<1> USE DEF SignedWrappers, UnsignedWrappers, FloatWrappers
<1>1. CASE name = "google.protobuf.Timestamp"
  <2>1. l = <<"timestamp", [s |-> m.s, n |-> m.n, tz |-> 0]>> /\ MessageMeaning(name, m) = <<"timestamp", m.s, m.n>>
    BY <1>1 DEF fromWellKnown, MessageMeaning
  <2> HIDE DEF l
  <2>2. QED BY <1>1, <2>1 DEF TaggedLabel, plain, IsPair, l
<1>2. CASE name = "google.protobuf.Duration"
  <2>1. l = <<"duration", int64(int64(m.s * Nano) + m.n)>> /\ MessageMeaning(name, m) = <<"duration", m.s * Nano + m.n>>
    BY <1>2 DEF fromWellKnown, MessageMeaning
  <2>2. m.s * Nano \in Int /\ m.n \in Int
    BY <1>2, LimitAssumption
  <2>3. m.s * Nano + m.n \in (-IntLimit)..(IntLimit - 1) => int64(int64(m.s * Nano) + m.n) = m.s * Nano + m.n
    BY <2>2, Int64Is
  <2> HIDE DEF l
  <2>4. TaggedLabel(l) /\ plain(l) = l
    BY <2>1 DEF TaggedLabel, plain, IsPair
  <2>5. QED BY <1>2, <2>1, <2>3, <2>4 DEF l
<1>3. CASE name \in FloatWrappers
  <2>1. l = Double(m) /\ MessageMeaning(name, m) = Number(m)
    BY <1>3 DEF fromWellKnown, MessageMeaning
  <2> HIDE DEF l
  <2>2. QED BY <1>3, <2>1, DoubleIs DEF TaggedLabel, l
<1>4. CASE name = "google.protobuf.Value"
  <2>1. l = fromJSON(m) /\ MessageMeaning(name, m) = JsonMeaning(m)
    BY <1>4 DEF fromWellKnown, MessageMeaning
  <2> HIDE DEF l
  <2>2. QED BY <1>4, <2>1, JsonLabel DEF l
<1>5. CASE name \in {"google.protobuf.Struct", "google.protobuf.ListValue"}
  <2>1. l \in {<<"map">>, <<"list">>} /\ MessageMeaning(name, m) = l
    BY <1>5 DEF fromWellKnown, MessageMeaning
  <2> HIDE DEF l
  <2>2. QED BY <1>5, <2>1 DEF TaggedLabel, plain, l
<1>6. CASE name \in SignedWrappers \cup UnsignedWrappers
                     \cup {"google.protobuf.BoolValue", "google.protobuf.StringValue", "google.protobuf.BytesValue"}
  <2>1. l = <<Wrapped(name), m>> /\ MessageMeaning(name, m) = l /\ Wrapped(name) \in {"bool", "int", "uint", "string", "bytes"}
    BY <1>6 DEF fromWellKnown, MessageMeaning, Wrapped
  <2> HIDE DEF l
  <2>2. QED BY <1>6, <2>1 DEF TaggedLabel, plain, IsPair, l
<1>7. QED BY <1>1, <1>2, <1>3, <1>4, <1>5, <1>6 DEF fromWellKnown

LEMMA ValueLabelTagged ==
  ASSUME NEW is, ValueLabel(is), tagged(is) # <<"fault">>
  PROVE  TaggedLabel(tagged(is)) /\ (LabelInRange(is) => plain(tagged(is)) = meaning(is))
<1>1. CASE is \in {<<"null">>, <<"list">>, <<"map">>, <<"entry">>}
  <2>1. tagged(is) = is /\ meaning(is) = is
    BY <1>1 DEF tagged, meaning
  <2>2. QED BY <1>1, <2>1 DEF TaggedLabel, plain
<1>2. CASE IsPair(is) /\ is[1] \in {"bool", "int", "uint", "string", "bytes", "type"}
  <2>1. tagged(is) = is /\ meaning(is) = is
    BY <1>2 DEF tagged, meaning
  <2>2. QED BY <1>2, <2>1 DEF TaggedLabel, plain
<1>3. CASE is[1] = "double"
  <2>1. tagged(is) = Double(is[2]) /\ meaning(is) = Number(is[2])
    BY <1>3 DEF tagged, meaning
  <2>2. QED BY <2>1, DoubleIs DEF TaggedLabel
<1>4. CASE is[1] = "json" /\ Json(is[2])
  <2>1. tagged(is) = fromJSON(is[2]) /\ meaning(is) = JsonMeaning(is[2])
    BY <1>4 DEF tagged, meaning
  <2>2. QED BY <1>4, <2>1, JsonLabel
<1>5. CASE is[1] = "object" /\ (is[2] = "google.protobuf.Duration" => is[3].s \in Int /\ is[3].n \in Int)
           /\ (is[2] = "google.protobuf.Value" => Json(is[3]))
  <2>1. tagged(is) = fromWellKnown(is[2], is[3]) /\ meaning(is) = MessageMeaning(is[2], is[3])
    BY <1>5 DEF tagged, meaning
  <2>2. QED BY <1>5, <2>1, MessageLabel DEF LabelInRange
<1>6. is[1] \notin {"enum", "unset"}
  BY DEF tagged
<1>7. ValueLabel(is) => \/ is \in {<<"null">>, <<"list">>, <<"map">>, <<"entry">>}
                        \/ IsPair(is) /\ is[1] \in {"bool", "int", "uint", "string", "bytes", "type"}
                        \/ is[1] = "double"
                        \/ is[1] = "json" /\ Json(is[2])
                        \/ is[1] = "object" /\ (is[2] = "google.protobuf.Duration" => is[3].s \in Int /\ is[3].n \in Int)
                             /\ (is[2] = "google.protobuf.Value" => Json(is[3]))
  BY <1>6 DEF ValueLabel
<1>8. QED BY <1>1, <1>2, <1>3, <1>4, <1>5, <1>7

-----------------------------------------------------------------------------
(***************************************************************************)
(* Equal is equality of meanings.                                          *)
(***************************************************************************)
IsTagged(t) ==
  IsTree(t) /\ \A u \in Parts(t) : TaggedLabel(u.is) /\ (Kind(u) \notin Nested => u.of = <<>>)

Plain(t) == Canonical(t, [is \in Labels(t) |-> plain(is)])

LEMMA PlainStep ==
  ASSUME NEW t, IsTree(t)
  PROVE  Plain(t) = CanonicalNode(plain(t.is), [i \in DOMAIN t.of |-> Plain(t.of[i])])
<1> DEFINE into == [is \in Labels(t) |-> plain(is)]
<1>1. Canonical(t, into) = CanonicalNode(into[t.is], [i \in DOMAIN t.of |-> Canonical(t.of[i], into)])
  BY CanonicalStep
<1>2. into[t.is] = plain(t.is)
  BY LabelsOf
<1>3. ASSUME NEW i \in DOMAIN t.of PROVE Canonical(t.of[i], into) = Plain(t.of[i])
  <2> DEFINE below == [is \in Labels(t.of[i]) |-> plain(is)]
  <2>1. IsTree(t.of[i]) /\ Labels(t.of[i]) \subseteq Labels(t)
    BY ChildTree, LabelsOf
  <2>2. \A is \in Labels(t.of[i]) : into[is] = below[is]
    BY <2>1
  <2> HIDE DEF into, below
  <2>3. Canonical(t.of[i], into) = Canonical(t.of[i], below)
    BY <2>1, <2>2, CanonicalAgree
  <2>4. QED BY <2>3 DEF Plain, below
<1>4. [i \in DOMAIN t.of |-> Canonical(t.of[i], into)] = [i \in DOMAIN t.of |-> Plain(t.of[i])]
  BY <1>3
<1>5. QED BY <1>1, <1>2, <1>4 DEF Plain

LEMMA CanonicalNodes ==
  ASSUME NEW a, NEW b, NEW x, NEW y
  PROVE  /\ CanonicalNode(a, x) = CanonicalNode(b, y) => a = b
         /\ a # <<"map">> => (CanonicalNode(a, x) = CanonicalNode(a, y) <=> x = y)
         /\ a = <<"map">> => (CanonicalNode(a, x) = CanonicalNode(a, y) <=> BagOf(x) = BagOf(y))
         /\ x = y => CanonicalNode(a, x) = CanonicalNode(a, y)
  BY DEF CanonicalNode

\* EqualTo, kind by kind.
LEMMA EqualToIs ==
  ASSUME NEW nodes, NEW u, NEW v \in nodes, NEW below, TaggedLabel(u.is), TaggedLabel(v.is)
  PROVE  /\ ~ SameLabel(u.is, v.is) => v \notin EqualTo(nodes, u, below)
         /\ SameLabel(u.is, v.is) /\ Kind(u) \notin Nested => v \in EqualTo(nodes, u, below)
         /\ SameLabel(u.is, v.is) /\ Kind(u) \in {"list", "entry"} =>
              (v \in EqualTo(nodes, u, below) <=> listEqual(below, v.of))
         /\ SameLabel(u.is, v.is) /\ Kind(u) = "map" =>
              (v \in EqualTo(nodes, u, below) <=> mapEqual(below, v.of))
<1> DEFINE k == u.is[1]
<1>1. k \in {"bool", "int", "uint", "double", "string", "bytes", "type", "timestamp", "duration",
             "null", "list", "map", "entry"}
  BY PlainKind
<1>2. k # v.is[1] => v \notin EqualTo(nodes, u, below) /\ ~ SameLabel(u.is, v.is)
  BY DEF EqualTo, SameLabel, Kind
<1>3. k = v.is[1] /\ k = "null" => v \in EqualTo(nodes, u, below) /\ SameLabel(u.is, v.is)
  BY DEF EqualTo, SameLabel, Kind
<1>4. k = v.is[1] /\ k = "double" => (v \in EqualTo(nodes, u, below) <=> doubleEqual(u.is[2], v.is[2]))
                                    /\ (SameLabel(u.is, v.is) <=> doubleEqual(u.is[2], v.is[2]))
  BY DEF EqualTo, SameLabel, Kind, doubleEqual
<1>5. k = v.is[1] /\ k = "timestamp" => (v \in EqualTo(nodes, u, below) <=> timestampEqual(u.is[2], v.is[2]))
                                    /\ (SameLabel(u.is, v.is) <=> timestampEqual(u.is[2], v.is[2]))
  BY DEF EqualTo, SameLabel, Kind, timestampEqual
<1>6. k = v.is[1] /\ k \in {"bool", "int", "uint", "string", "bytes", "type", "duration"} =>
        (v \in EqualTo(nodes, u, below) <=> u.is[2] = v.is[2]) /\ (SameLabel(u.is, v.is) <=> u.is[2] = v.is[2])
  BY DEF EqualTo, SameLabel, Kind
<1>7. k = v.is[1] /\ k \in {"list", "entry"} =>
        (v \in EqualTo(nodes, u, below) <=> listEqual(below, v.of)) /\ SameLabel(u.is, v.is)
  BY DEF EqualTo, SameLabel, Kind, listEqual
<1>8. k = v.is[1] /\ k = "map" =>
        (v \in EqualTo(nodes, u, below) <=> mapEqual(below, v.of)) /\ SameLabel(u.is, v.is)
  BY DEF EqualTo, SameLabel, Kind, mapEqual
<1>9. k = Kind(u)
  BY DEF Kind
<1> HIDE DEF k
<1>10. QED BY <1>1, <1>2, <1>3, <1>4, <1>5, <1>6, <1>7, <1>8, <1>9 DEF Nested

\* What Equal finds below u and v is right.
RightBelow(u, v, below) ==
  \A i \in DOMAIN u.of : \A j \in DOMAIN v.of : v.of[j] \in below[i] <=> Plain(u.of[i]) = Plain(v.of[j])

\* Then nodes are equal when their meanings are.
LEMMA EqualStep ==
  ASSUME NEW u, NEW v, NEW nodes, v \in nodes, IsTagged(u), IsTagged(v),
         NEW X, NEW below \in [1..Len(u.of) -> X], RightBelow(u, v, below)
  PROVE  v \in EqualTo(nodes, u, below) <=> Plain(u) = Plain(v)
<1> DEFINE m == Len(u.of)
           n == Len(v.of)
           a == [i \in 1..m |-> Plain(u.of[i])]
           b == [i \in 1..n |-> Plain(v.of[i])]
<1>1. IsTree(u) /\ IsTree(v) /\ TaggedLabel(u.is) /\ TaggedLabel(v.is)
      /\ (Kind(u) \notin Nested => u.of = <<>>) /\ (Kind(v) \notin Nested => v.of = <<>>)
  BY TreeIs DEF IsTagged
<1>2. m \in Nat /\ n \in Nat /\ DOMAIN u.of = 1..m /\ DOMAIN v.of = 1..n
  BY <1>1, ChildTree
<1>3. Plain(u) = CanonicalNode(plain(u.is), a) /\ Plain(v) = CanonicalNode(plain(v.is), b)
  BY <1>1, <1>2, PlainStep
<1>4. CASE ~ SameLabel(u.is, v.is)
  <2>1. plain(u.is) # plain(v.is) /\ v \notin EqualTo(nodes, u, below)
    BY <1>1, <1>4, SameLabelPlain, EqualToIs
  <2> HIDE DEF a, b
  <2>2. QED BY <1>3, <2>1, CanonicalNodes
<1>5. CASE SameLabel(u.is, v.is)
  <2>1. plain(u.is) = plain(v.is) /\ Kind(u) = Kind(v)
    BY <1>1, <1>5, SameLabelPlain DEF SameLabel, Kind
  <2>2. CASE Kind(u) \notin Nested
    <3>1. m = 0 /\ n = 0
      BY <1>1, <1>2, <2>1, <2>2
    <3>2. a = b
      BY <3>1
    <3>3. v \in EqualTo(nodes, u, below)
      BY <1>1, <1>5, <2>2, EqualToIs
    <3> HIDE DEF a, b
    <3>4. QED BY <1>3, <2>1, <3>2, <3>3
  <2>3. CASE Kind(u) \in {"list", "entry"}
    <3>1. v \in EqualTo(nodes, u, below) <=> listEqual(below, v.of)
      BY <1>1, <1>5, <2>3, EqualToIs
    <3>2. Len(below) = m
      BY <1>2
    <3>3. listEqual(below, v.of) <=> m = n /\ \A i \in 1..m : v.of[i] \in below[i]
      BY <1>2, <3>2 DEF listEqual
    <3>4. a = b <=> m = n /\ \A i \in 1..m : Plain(u.of[i]) = Plain(v.of[i])
      <4>1. a = b => m = n
        <5>1. DOMAIN a = 1..m /\ DOMAIN b = 1..n
          OBVIOUS
        <5>2. 1..m = 1..n => m = n
          <6> HIDE DEF m, n
          <6> QED BY <1>2
        <5> HIDE DEF a, b, m, n
        <5>3. QED BY <5>1, <5>2
      <4>2. \A i \in 1..m : a[i] = Plain(u.of[i])
        OBVIOUS
      <4>3. \A i \in 1..n : b[i] = Plain(v.of[i])
        OBVIOUS
      <4>4. m = n /\ (\A i \in 1..m : Plain(u.of[i]) = Plain(v.of[i])) => a = b
        OBVIOUS
      <4> HIDE DEF a, b, m, n
      <4>5. QED BY <4>1, <4>2, <4>3, <4>4
    <3>5. \A i \in 1..m : m = n => (v.of[i] \in below[i] <=> Plain(u.of[i]) = Plain(v.of[i]))
      BY <1>2 DEF RightBelow
    <3>6. plain(u.is) # <<"map">>
      BY <1>1, <2>3, PlainKind DEF Kind
    <3>7. Plain(u) = Plain(v) <=> a = b
      <4> HIDE DEF a, b
      <4> QED BY <1>3, <2>1, <3>6, CanonicalNodes
    <3> HIDE DEF a, b, m, n
    <3>8. QED BY <3>1, <3>3, <3>4, <3>5, <3>7
  <2>4. CASE Kind(u) = "map"
    <3> DEFINE fits == [i \in DOMAIN below |-> {j \in DOMAIN v.of : v.of[j] \in below[i]}]
    <3>1. v \in EqualTo(nodes, u, below) <=> mapEqual(below, v.of)
      BY <1>1, <1>5, <2>4, EqualToIs
    <3>2. Len(below) = m
      BY <1>2
    <3>3. mapEqual(below, v.of) <=> m = n /\ TakeEntries(n, fits)
      BY <3>2 DEF mapEqual
    <3>4. Fits(fits, a, m, b, n)
      <4>1. ASSUME NEW i \in 1..m PROVE fits[i] = At(b, n, a[i])
        BY <1>2 DEF At, RightBelow
      <4> HIDE DEF a, b, m, n, fits
      <4>2. QED BY <4>1 DEF Fits
    <3> DEFINE Xa == {a[i] : i \in 1..m}
               Xb == {b[i] : i \in 1..n}
    <3>5. a \in [1..m -> Xa] /\ b \in [1..n -> Xb]
      OBVIOUS
    <3>6. BagOf(a) = BagOf(b) <=> m = n /\ TakeEntries(n, fits)
      <4> HIDE DEF a, b, m, n, Xa, Xb, fits
      <4> QED BY <1>2, <3>4, <3>5, EntriesEqual
    <3>7. plain(u.is) = <<"map">>
      BY <1>1, <2>4, PlainKind DEF Kind
    <3>8. Plain(u) = Plain(v) <=> BagOf(a) = BagOf(b)
      <4> HIDE DEF a, b
      <4> QED BY <1>3, <2>1, <3>7, CanonicalNodes
    <3> HIDE DEF a, b, m, n, fits
    <3>9. QED BY <3>1, <3>3, <3>6, <3>8
  <2>5. QED BY <2>2, <2>3, <2>4 DEF Nested
<1>6. QED BY <1>4, <1>5

LEMMA TaggedParts ==
  ASSUME NEW t, IsTagged(t), NEW u \in Parts(t)
  PROVE  IsTagged(u)
<1>1. IsTree(u) /\ Parts(u) \subseteq Parts(t)
  BY PartsIn DEF IsTagged
<1>2. QED BY <1>1 DEF IsTagged

LEMMA EqualMeans ==
  ASSUME NEW w, IsTagged(w), NEW g, IsTagged(g)
  PROVE  Equal(w, g) <=> Plain(w) = Plain(g)
<1> DEFINE E(u) == Result("equal", Parts(g), u)
           G == {u \in Parts(w) : \A v \in Parts(g) : v \in E(u) <=> Plain(u) = Plain(v)}
<1>1. IsTree(w) /\ IsTree(g)
  BY DEF IsTagged
<1>2. ASSUME NEW u \in Parts(w), \A i \in DOMAIN u.of : u.of[i] \in G PROVE u \in G
  <2>1. SUFFICES ASSUME NEW v \in Parts(g) PROVE v \in E(u) <=> Plain(u) = Plain(v)
    OBVIOUS
  <2>2. IsTagged(u) /\ IsTagged(v) /\ IsTree(u) /\ IsTree(v)
    BY TaggedParts DEF IsTagged
  <2> DEFINE below == [i \in DOMAIN u.of |-> E(u.of[i])]
  <2>3. E(u) = EqualTo(Parts(g), u, below)
    BY <2>2, ResultStep, MadeIs
  <2>4. \A j \in DOMAIN v.of : v.of[j] \in Parts(g)
    BY <1>1, <2>2, ChildTree, PartsIn
  <2>5. RightBelow(u, v, below)
    BY <1>2, <2>4 DEF RightBelow
  <2> DEFINE X == {below[i] : i \in DOMAIN u.of}
  <2>6. below \in [1..Len(u.of) -> X]
    BY <2>2, ChildTree
  <2> HIDE DEF below, E, G, X
  <2>7. v \in EqualTo(Parts(g), u, below) <=> Plain(u) = Plain(v)
    BY <2>2, <2>5, <2>6, EqualStep
  <2>8. QED BY <2>3, <2>7
<1>3. Parts(w) \subseteq G
  <2> HIDE DEF G
  <2> QED BY <1>1, <1>2, OnParts
<1>4. w \in Parts(w) /\ g \in Parts(g)
  BY TreeIs
<1>5. QED BY <1>1, <1>3, <1>4, EqualIs

-----------------------------------------------------------------------------
(***************************************************************************)
(* Values, tagged and stored.                                              *)
(***************************************************************************)
LEMMA RelabelParts ==
  ASSUME NEW t, IsTree(t), NEW into
  PROVE  /\ \A p \in Parts(Relabel(t, into)) : \E u \in Parts(t) : p = Relabel(u, into)
         /\ \A u \in Parts(t) : Relabel(u, into) \in Parts(Relabel(t, into))
<1> DEFINE R(u) == Relabel(u, into)
           Same(u) == Parts(R(u)) = {R(p) : p \in Parts(u)}
           G == {u \in Parts(t) : Same(u)}
<1>1. ASSUME NEW u \in Parts(t), \A i \in DOMAIN u.of : u.of[i] \in G PROVE u \in G
  <2>1. IsTree(u)
    BY PartsIn
  <2>2. IsTree(R(u)) /\ DOMAIN R(u).of = DOMAIN u.of /\ \A i \in DOMAIN u.of : R(u).of[i] = R(u.of[i])
    BY <2>1, RelabelTree
  <2>3. u.parts = UNION {Parts(u.of[i]) : i \in DOMAIN u.of}
    BY <2>1, ChildTree, Children
  <2>4. R(u).parts = UNION {Parts(R(u).of[i]) : i \in DOMAIN u.of}
    <3> DEFINE r == R(u)
    <3>1. IsTree(r) /\ DOMAIN r.of = DOMAIN u.of
      BY <2>2
    <3> HIDE DEF r
    <3>2. r.parts = UNION {Parts(r.of[i]) : i \in DOMAIN u.of}
      BY <3>1, ChildTree, Children
    <3>3. QED BY <3>2 DEF r
  <2> HIDE DEF R
  <2>5. \A i \in DOMAIN u.of : Parts(R(u).of[i]) = {R(p) : p \in Parts(u.of[i])}
    BY <1>1, <2>2
  <2>6. R(u).parts = {R(p) : p \in u.parts}
    <3>1. R(u).parts \subseteq {R(p) : p \in u.parts}
      BY <2>3, <2>4, <2>5
    <3>2. {R(p) : p \in u.parts} \subseteq R(u).parts
      BY <2>3, <2>4, <2>5
    <3>3. QED BY <3>1, <3>2
  <2>7. Same(u)
    BY <2>6 DEF Parts
  <2>8. QED BY <2>7
<1>2. Parts(t) \subseteq G
  <2> HIDE DEF G
  <2> QED BY <1>1, OnParts
<1>3. Same(t)
  BY <1>2, TreeIs
<1> HIDE DEF R
<1>4. (\A p \in Parts(R(t)) : \E u \in Parts(t) : p = R(u)) /\ \A u \in Parts(t) : R(u) \in Parts(R(t))
  BY <1>3
<1>5. QED BY <1>4 DEF R

\* What values are made into on their way: tagged, and perhaps stored.
Faithful(v, into) ==
  \A is \in Labels(v) : tagged(is) # <<"fault">> /\ into[is] \in {tagged(is), stored(tagged(is))}

LEMMA FaithfulLabel ==
  ASSUME NEW v, IsValue(v), NEW into, Faithful(v, into), NEW is \in Labels(v)
  PROVE  /\ ValueLabel(is) /\ TaggedLabel(into[is]) /\ into[is][1] = tagged(is)[1]
         /\ LabelInRange(is) => plain(into[is]) = meaning(is)
<1>1. ValueLabel(is) /\ tagged(is) # <<"fault">> /\ into[is] \in {tagged(is), stored(tagged(is))}
  BY DEF Faithful, Labels, IsValue
<1>2. TaggedLabel(tagged(is)) /\ (LabelInRange(is) => plain(tagged(is)) = meaning(is))
  BY <1>1, ValueLabelTagged
<1>3. /\ TaggedLabel(stored(tagged(is))) /\ plain(stored(tagged(is))) = plain(tagged(is))
      /\ stored(tagged(is))[1] = tagged(is)[1]
  BY <1>2, StoredLabel
<1>4. QED BY <1>1, <1>2, <1>3

LEMMA NestedTagged ==
  ASSUME NEW is, is \in Lists \/ is \in Maps \/ is = <<"entry">>
  PROVE  tagged(is)[1] \in Nested
<1>1. CASE is \in {<<"list">>, <<"map">>, <<"entry">>}
  BY <1>1 DEF tagged, Nested
<1>2. CASE is \in {<<"json", <<"array">>>>, <<"json", <<"struct">>>>}
  BY <1>2 DEF tagged, Nested, fromJSON
<1>3. CASE is \in {<<"object", "google.protobuf.ListValue", <<>>>>, <<"object", "google.protobuf.Struct", <<>>>>}
  <2>1. tagged(is) = fromWellKnown(is[2], <<>>) /\ is[2] \in {"google.protobuf.ListValue", "google.protobuf.Struct"}
    BY <1>3 DEF tagged
  <2>2. fromWellKnown(is[2], <<>>) \in {<<"list">>, <<"map">>}
    BY <2>1 DEF fromWellKnown, SignedWrappers, UnsignedWrappers, FloatWrappers
  <2>3. QED BY <2>1, <2>2 DEF Nested
<1>4. CASE is \in {<<"object", "google.protobuf.Value", <<"array">>>>, <<"object", "google.protobuf.Value", <<"struct">>>>}
  <2>1. tagged(is) = fromWellKnown("google.protobuf.Value", is[3]) /\ is[3] \in {<<"array">>, <<"struct">>}
    BY <1>4 DEF tagged
  <2>2. fromWellKnown("google.protobuf.Value", is[3]) = fromJSON(is[3])
    BY DEF fromWellKnown, SignedWrappers, UnsignedWrappers, FloatWrappers
  <2>3. fromJSON(is[3]) \in {<<"list">>, <<"map">>}
    BY <2>1 DEF fromJSON
  <2>4. QED BY <2>1, <2>2, <2>3 DEF Nested
<1>5. QED BY <1>1, <1>2, <1>3, <1>4 DEF Lists, Maps

LEMMA FaithfulTree ==
  ASSUME NEW v, IsValue(v), NEW into, Faithful(v, into)
  PROVE  IsTagged(Relabel(v, into))
<1> DEFINE t == Relabel(v, into)
<1>1. IsTree(v) /\ IsTree(t)
  BY RelabelTree DEF IsValue
<1>2. ASSUME NEW p \in Parts(t) PROVE TaggedLabel(p.is) /\ (Kind(p) \notin Nested => p.of = <<>>)
  <2>1. PICK u \in Parts(v) : p = Relabel(u, into)
    BY <1>1, RelabelParts
  <2>2. IsTree(u) /\ u.is \in Labels(v) /\ IsTree(p)
    BY <1>1, PartsIn, LabelsOf DEF t
  <2>3. p.is = into[u.is] /\ Kind(p) = into[u.is][1] /\ Len(p.of) = Len(u.of)
    BY <2>1, <2>2, RelabelTree
  <2>4. TaggedLabel(p.is) /\ Kind(p) = tagged(u.is)[1]
    BY <2>2, <2>3, FaithfulLabel
  <2>5. ASSUME Kind(p) \notin Nested PROVE p.of = <<>>
    <3>1. ~ (u.is \in Lists \/ u.is \in Maps \/ u.is = <<"entry">>)
      BY <2>4, <2>5, NestedTagged
    <3>2. u.of = <<>>
      BY <3>1 DEF IsValue
    <3>3. Len(p.of) = 0
      BY <2>3, <3>2
    <3>4. p.of \in Seq(p.parts)
      BY <2>2, ChildTree DEF WellMade
    <3>5. QED BY <3>3, <3>4, EmptySeq
  <2>6. QED BY <2>4, <2>5
<1>3. QED BY <1>1, <1>2 DEF IsTagged

LEMMA FaithfulMeaning ==
  ASSUME NEW v, IsValue(v), InRange(v), NEW into, Faithful(v, into)
  PROVE  Plain(Relabel(v, into)) = Meaning(v)
<1> DEFINE t == Relabel(v, into)
           h == [is \in Labels(t) |-> plain(is)]
           g == [is \in Labels(v) |-> meaning(is)]
<1>1. IsTree(v) /\ Labels(t) = {into[is] : is \in Labels(v)}
  BY RelabelTree DEF IsValue
<1>2. ASSUME NEW is \in Labels(v) PROVE h[into[is]] = g[is]
  <2>1. into[is] \in Labels(t)
    BY <1>1
  <2>2. LabelInRange(is)
    BY DEF InRange, LabelInRange
  <2>3. plain(into[is]) = meaning(is)
    BY <2>2, FaithfulLabel
  <2>4. QED BY <2>1, <2>3
<1> HIDE DEF h, g
<1>3. Canonical(t, h) = Canonical(v, g)
  BY <1>1, <1>2, CanonicalRelabelled
<1>4. QED BY <1>3 DEF Plain, Meaning, h, g

\* A value that is converted is made into a tagged one; so is a stored one.
LEMMA ConvertedIs ==
  ASSUME NEW v, IsValue(v), FromValue(v) # Fault
  PROVE  /\ \E into : Faithful(v, into) /\ FromValue(v) = Relabel(v, into)
         /\ \E into : Faithful(v, into) /\ Stored(FromValue(v)) = Relabel(v, into)
         /\ Labels(FromValue(v)) = {tagged(is) : is \in Labels(v)}
<1> DEFINE f == [is \in Labels(v) |-> tagged(is)]
           t == Relabel(v, f)
           h == [is \in Labels(t) |-> stored(is)]
           g == [is \in Labels(v) |-> stored(tagged(is))]
<1>1. IsTree(v)
  BY DEF IsValue
<1>2. IsTree(t) /\ Labels(t) = {tagged(is) : is \in Labels(v)}
  <2>1. IsTree(t) /\ Labels(t) = {f[is] : is \in Labels(v)}
    <3> HIDE DEF f
    <3> QED BY <1>1, RelabelTree
  <2>2. {f[is] : is \in Labels(v)} = {tagged(is) : is \in Labels(v)}
    OBVIOUS
  <2>3. QED BY <2>1, <2>2
<1>3. FromValue(v) = t /\ ~ Faulty(t)
  BY DEF FromValue
<1>4. \A is \in Labels(v) : tagged(is) # <<"fault">>
  BY <1>2, <1>3 DEF Faulty
<1>5. Faithful(v, f) /\ Faithful(v, g)
  BY <1>4 DEF Faithful
<1>6. \A is \in Labels(v) : h[f[is]] = g[is]
  BY <1>2
<1>7. Relabel(t, h) = Relabel(v, g)
  <2> HIDE DEF f, g, h
  <2> QED BY <1>1, <1>6, RelabelTwice
<1>8. Stored(t) = Relabel(v, g)
  BY <1>7 DEF Stored
<1> HIDE DEF f, g, h
<1>9. QED BY <1>2, <1>3, <1>5, <1>8

\* The verdict on a stored value.
LEMMA VerdictMeans ==
  ASSUME NEW b, IsValue(b), InRange(b), FromValue(b) # Fault,
         NEW x, IsValue(x), InRange(x), FromValue(x) # Fault
  PROVE  Equal(FromValue(x), Stored(FromValue(b))) <=> Meaning(b) = Meaning(x)
<1>1. PICK f : Faithful(x, f) /\ FromValue(x) = Relabel(x, f)
  BY ConvertedIs
<1>2. PICK g : Faithful(b, g) /\ Stored(FromValue(b)) = Relabel(b, g)
  BY ConvertedIs
<1>3. IsTagged(FromValue(x)) /\ Plain(FromValue(x)) = Meaning(x)
  BY <1>1, FaithfulTree, FaithfulMeaning
<1>4. IsTagged(Stored(FromValue(b))) /\ Plain(Stored(FromValue(b))) = Meaning(b)
  BY <1>2, FaithfulTree, FaithfulMeaning
<1>5. QED BY <1>3, <1>4, EqualMeans

\* Where a NUL that the database refuses comes from.
LEMMA NulIsSeen ==
  ASSUME NEW v, IsValue(v), FromValue(v) # Fault, ~ Storable(FromValue(v)), ~ valueHasNul(v)
  PROVE  \E is \in Labels(v) : is[1] = "object" \/ is = <<"type", NUL>>
<1>1. PICK is \in Labels(v) : tagged(is)[1] \in {"string", "type", "error"} /\ tagged(is)[2] = NUL
  BY ConvertedIs DEF Storable
<1>2. PICK u \in Parts(v) : is = u.is
  BY DEF Labels
<1>3. ValueLabel(is) /\ is # <<"string", NUL>> /\ (is[1] = "json" => \E m \in Parts(v) : Kind(m) = "object")
  BY <1>2 DEF IsValue, valueHasNul, Kind
<1>4. CASE is[1] = "json"
  BY <1>3, <1>4 DEF Labels, Kind
<1>5. CASE is[1] = "object"
  BY <1>5
<1>6. CASE is[1] = "double"
  <2>1. tagged(is) = Double(is[2])
    BY <1>6 DEF tagged
  <2>2. QED BY <1>1, <2>1, DoubleIs
<1>7. CASE is[1] \notin {"json", "object", "double"}
  <2>1. tagged(is) \in {is, <<"fault">>}
    BY <1>7 DEF tagged
  <2>2. is[1] \in {"string", "type", "error"} /\ is[2] = NUL
    BY <1>1, <2>1
  <2>3. IsPair(is)
    BY <1>3, <2>2 DEF ValueLabel
  <2>4. QED BY <1>3, <2>2, <2>3 DEF ValueLabel, IsPair
<1>8. QED BY <1>4, <1>5, <1>6, <1>7

-----------------------------------------------------------------------------
(***************************************************************************)
(* Types.                                                                  *)
(***************************************************************************)
LEMMA LeafIs ==
  ASSUME NEW is
  PROVE  /\ IsTree(Leaf(is)) /\ Leaf(is).is = is /\ Kind(Leaf(is)) = is[1] /\ Leaf(is).of = <<>>
         /\ Labels(Leaf(is)) = {is}
<1>1. Leaf(is).is = is /\ Leaf(is).of = <<>> /\ Leaf(is).parts = {} /\ Leaf(is) = Node(is, <<>>)
  BY DEF Leaf, Node
<1>2. Parts(Leaf(is)) = {Leaf(is)}
  BY <1>1 DEF Parts
<1>3. IsFiniteSet({}) /\ <<>> \in Seq({})
  BY FS_EmptySet
<1>4. IsTree(Leaf(is))
  <2> DEFINE t == Leaf(is)
  <2>1. t = Node(t.is, t.of) /\ t.of \in Seq(t.parts) /\ IsFiniteSet(t.parts) /\ t \notin t.parts
    BY <1>1, <1>3
  <2>2. WellMade(t)
    BY <2>1 DEF WellMade
  <2>3. \A u \in Parts(t) : WellMade(u)
    BY <1>2, <2>2
  <2> HIDE DEF t
  <2>4. IsTree(t)
    BY <2>3, TreeIs
  <2>5. QED BY <2>4 DEF t
<1>5. QED BY <1>1, <1>2, <1>4 DEF Labels, Kind

LEMMA PairIs ==
  ASSUME NEW is, NEW a, NEW b, IsTree(a), IsTree(b)
  PROVE  /\ IsTree(Node(is, <<a, b>>)) /\ Kind(Node(is, <<a, b>>)) = is[1]
         /\ DOMAIN Node(is, <<a, b>>).of = 1..2
         /\ Node(is, <<a, b>>).of[1] = a /\ Node(is, <<a, b>>).of[2] = b
<1> DEFINE of == <<a, b>>
<1>1. DOMAIN of = 1..2 /\ of[1] = a /\ of[2] = b /\ of \in [1..2 -> {a, b}]
  OBVIOUS
<1>2. \A c \in {a, b} : IsTree(c)
  OBVIOUS
<1> HIDE DEF of
<1>3. IsTree(Node(is, of))
  BY <1>1, <1>2, NodeTree
<1>4. QED BY <1>1, <1>3, NodeIs DEF of

LEMMA OneIs ==
  ASSUME NEW is, NEW a, IsTree(a)
  PROVE  /\ IsTree(Node(is, <<a>>)) /\ Kind(Node(is, <<a>>)) = is[1]
         /\ DOMAIN Node(is, <<a>>).of = 1..1 /\ Node(is, <<a>>).of[1] = a
<1> DEFINE of == <<a>>
<1>1. DOMAIN of = 1..1 /\ of[1] = a /\ of \in [1..1 -> {a}]
  OBVIOUS
<1>2. \A c \in {a} : IsTree(c)
  OBVIOUS
<1> HIDE DEF of
<1>3. IsTree(Node(is, of))
  BY <1>1, <1>2, NodeTree
<1>4. QED BY <1>1, <1>3, NodeIs DEF of

LEMMA KindOnlyIs ==
  ASSUME NEW kind
  PROVE  IsTree(kindOnly(kind)) /\ Kind(kindOnly(kind)) = kind /\ kindOnly(kind).of = <<>>
         /\ kindOnly(kind).is = <<kind>>
<1>1. <<kind>>[1] = kind
  OBVIOUS
<1>2. QED BY <1>1, LeafIs DEF kindOnly

LEMMA WrapperIs ==
  ASSUME NEW kind
  PROVE  /\ IsTree(Wrapper(kind)) /\ Kind(Wrapper(kind)) = "wrapper" /\ 1 \in DOMAIN Wrapper(kind).of
         /\ Wrapper(kind).of[1] = kindOnly(kind)
<1>1. <<"wrapper">>[1] = "wrapper" /\ 1 \in 1..1
  OBVIOUS
<1>2. QED BY <1>1, KindOnlyIs, OneIs DEF Wrapper

\* The types of the messages by name.
LEMMA MessageTypeIs ==
  ASSUME NEW name
  PROVE  LET t == wellKnownMessages(name)
         IN  /\ IsTree(t)
             /\ name = "google.protobuf.Timestamp" => t = kindOnly("timestamp")
             /\ name = "google.protobuf.Duration" => t = kindOnly("duration")
             /\ name = "google.protobuf.Value" => t = kindOnly("dyn")
             /\ name = "google.protobuf.Struct" => t = Node(<<"map">>, <<kindOnly("string"), kindOnly("dyn")>>)
             /\ name = "google.protobuf.ListValue" => t = Node(<<"list">>, <<kindOnly("dyn")>>)
             /\ name = "google.protobuf.BoolValue" => t = Wrapper("bool")
             /\ name \in SignedWrappers => t = Wrapper("int")
             /\ name \in UnsignedWrappers => t = Wrapper("uint")
             /\ name \in FloatWrappers => t = Wrapper("double")
             /\ name = "google.protobuf.StringValue" => t = Wrapper("string")
             /\ name = "google.protobuf.BytesValue" => t = Wrapper("bytes")
<1> DEFINE t == wellKnownMessages(name)
<1> USE DEF SignedWrappers, UnsignedWrappers, FloatWrappers
<1>1. name = "google.protobuf.Timestamp" => t = kindOnly("timestamp")
  BY DEF wellKnownMessages
<1>2. name = "google.protobuf.Duration" => t = kindOnly("duration")
  BY DEF wellKnownMessages
<1>3. name = "google.protobuf.Any" => t = kindOnly("any")
  BY DEF wellKnownMessages
<1>4. name = "google.protobuf.NullValue" => t = kindOnly("null")
  BY DEF wellKnownMessages
<1>5. name = "google.protobuf.Value" => t = kindOnly("dyn")
  BY DEF wellKnownMessages
<1>6. name = "google.protobuf.Struct" => t = Node(<<"map">>, <<kindOnly("string"), kindOnly("dyn")>>)
  BY DEF wellKnownMessages
<1>7. name = "google.protobuf.ListValue" => t = Node(<<"list">>, <<kindOnly("dyn")>>)
  BY DEF wellKnownMessages
<1>8. name = "google.protobuf.BoolValue" => t = Wrapper("bool")
  BY DEF wellKnownMessages
<1>9. name \in SignedWrappers => t = Wrapper("int")
  BY DEF wellKnownMessages
<1>10. name \in UnsignedWrappers => t = Wrapper("uint")
  BY DEF wellKnownMessages
<1>11. name \in FloatWrappers => t = Wrapper("double")
  BY DEF wellKnownMessages
<1>12. name = "google.protobuf.StringValue" => t = Wrapper("string")
  BY DEF wellKnownMessages
<1>13. name = "google.protobuf.BytesValue" => t = Wrapper("bytes")
  BY DEF wellKnownMessages
<1>14. t \in {kindOnly("timestamp"), kindOnly("duration"), kindOnly("any"), kindOnly("null"), kindOnly("dyn"),
              Node(<<"map">>, <<kindOnly("string"), kindOnly("dyn")>>), Node(<<"list">>, <<kindOnly("dyn")>>),
              Wrapper("bool"), Wrapper("int"), Wrapper("uint"), Wrapper("double"), Wrapper("string"), Wrapper("bytes"),
              Leaf(<<"struct", name>>)}
  BY DEF wellKnownMessages
<1>15. IsTree(t)
  <2>1. \A k : IsTree(kindOnly(k)) /\ IsTree(Wrapper(k))
    BY KindOnlyIs, WrapperIs
  <2>2. IsTree(Node(<<"map">>, <<kindOnly("string"), kindOnly("dyn")>>)) /\ IsTree(Node(<<"list">>, <<kindOnly("dyn")>>))
    BY <2>1, PairIs, OneIs
  <2>3. IsTree(Leaf(<<"struct", name>>))
    BY LeafIs
  <2> HIDE DEF t
  <2>4. QED BY <1>14, <2>1, <2>2, <2>3
<1> HIDE DEF t
<1>16. QED
  BY <1>1, <1>2, <1>5, <1>6, <1>7, <1>8, <1>9, <1>10, <1>11, <1>12, <1>13, <1>15 DEF t

LEMMA TypeNodeTree ==
  ASSUME NEW u, NEW n \in Nat, NEW C, \A c \in C : IsTree(c), NEW params \in [1..n -> C]
  PROVE  IsTree(TypeNode(u, params))
<1>1. \A is : IsTree(Leaf(is)) /\ IsTree(Node(is, params))
  BY LeafIs, NodeTree
<1>2. \A k : IsTree(kindOnly(k)) /\ IsTree(Wrapper(k))
  BY KindOnlyIs, WrapperIs
<1>3. \A name : IsTree(wellKnownMessages(name))
  BY MessageTypeIs
<1>4. IsTree(Fault)
  BY <1>1 DEF Fault
<1>5. \/ \E is : TypeNode(u, params) \in {Leaf(is), Node(is, params)}
      \/ \E k : TypeNode(u, params) \in {kindOnly(k), Wrapper(k)}
      \/ \E name : TypeNode(u, params) = wellKnownMessages(name)
      \/ TypeNode(u, params) = Fault
  BY DEF TypeNode
<1>6. QED BY <1>1, <1>2, <1>3, <1>4, <1>5

from(s) == Result("type", {}, s)

LEMMA FromIs ==
  ASSUME NEW s, IsTree(s)
  PROVE  from(s) = TypeNode(s, [i \in DOMAIN s.of |-> from(s.of[i])])
  BY ResultStep, MadeIs DEF from

LEMMA FromTree ==
  ASSUME NEW t, IsTree(t), NEW s \in Parts(t)
  PROVE  IsTree(from(s))
<1> DEFINE G == {u \in Parts(t) : IsTree(from(u))}
<1>1. ASSUME NEW u \in Parts(t), \A i \in DOMAIN u.of : u.of[i] \in G PROVE u \in G
  <2>1. IsTree(u) /\ Len(u.of) \in Nat /\ DOMAIN u.of = 1..Len(u.of)
    BY PartsIn, ChildTree
  <2> DEFINE params == [i \in DOMAIN u.of |-> from(u.of[i])]
             C == {params[i] : i \in DOMAIN u.of}
  <2>2. params \in [1..Len(u.of) -> C] /\ \A c \in C : IsTree(c)
    BY <1>1, <2>1
  <2>3. from(u) = TypeNode(u, params)
    BY <2>1, FromIs
  <2>4. IsTree(TypeNode(u, params))
    <3> HIDE DEF params, C, G
    <3> QED BY <2>1, <2>2, TypeNodeTree
  <2>5. QED BY <2>3, <2>4
<1>2. Parts(t) \subseteq G
  <2> HIDE DEF G
  <2> QED BY <1>1, OnParts
<1>3. QED BY <1>2

\* The nodes of g that are of a rendered type.
Inside(g, x) == Result("inhabitants", Parts(g), x)

LEMMA InsideIs ==
  ASSUME NEW g, NEW x, IsTree(x), NEW u \in Parts(g)
  PROVE  /\ Kind(x) \in {"dyn", "any"} => u \in Inside(g, x)
         /\ Kind(x) = "wrapper" /\ 1 \in DOMAIN x.of => (u \in Inside(g, x) <=> Kind(u) = "null" \/ u \in Inside(g, x.of[1]))
         /\ Kind(x) = "list" /\ 1 \in DOMAIN x.of =>
              (u \in Inside(g, x) <=> Kind(u) = "list" /\ \A i \in DOMAIN u.of : u.of[i] \in Inside(g, x.of[1]))
         /\ Kind(x) = "map" /\ 1 \in DOMAIN x.of /\ 2 \in DOMAIN x.of =>
              (u \in Inside(g, x) <=>
                 /\ Kind(u) = "map"
                 /\ \A i \in DOMAIN u.of : u.of[i].of[1] \in Inside(g, x.of[1]) /\ u.of[i].of[2] \in Inside(g, x.of[2]))
         /\ Kind(x) \notin {"dyn", "any", "wrapper", "list", "map"} => (u \in Inside(g, x) <=> Kind(u) = Kind(x))
<1> DEFINE below == [i \in DOMAIN x.of |-> Inside(g, x.of[i])]
           k == Kind(x)
<1>1. Inside(g, x) = Inhabitants(Parts(g), x, below)
  BY ResultStep, MadeIs DEF Inside
<1>2. \A i \in DOMAIN x.of : below[i] = Inside(g, x.of[i])
  OBVIOUS
<1> HIDE DEF below
<1>3. k \in {"dyn", "any"} => u \in Inhabitants(Parts(g), x, below)
  BY DEF Inhabitants
<1>4. k = "wrapper" => (u \in Inhabitants(Parts(g), x, below) <=> Kind(u) = "null" \/ u \in below[1])
  BY DEF Inhabitants
<1>5. k = "list" => (u \in Inhabitants(Parts(g), x, below) <=> ListOf(u, below))
  BY DEF Inhabitants, ListOf
<1>6. k = "map" => (u \in Inhabitants(Parts(g), x, below) <=> MapOf(u, below))
  BY DEF Inhabitants, MapOf
<1>7. k \notin {"dyn", "any", "wrapper", "list", "map"} => (u \in Inhabitants(Parts(g), x, below) <=> Kind(u) = k)
  BY DEF Inhabitants
<1>8. k = "list" /\ 1 \in DOMAIN x.of =>
              (u \in Inside(g, x) <=> Kind(u) = "list" /\ \A i \in DOMAIN u.of : u.of[i] \in Inside(g, x.of[1]))
  BY <1>1, <1>2, <1>5 DEF ListOf
<1>9. k = "map" /\ 1 \in DOMAIN x.of /\ 2 \in DOMAIN x.of =>
              (u \in Inside(g, x) <=>
                 /\ Kind(u) = "map"
                 /\ \A i \in DOMAIN u.of : u.of[i].of[1] \in Inside(g, x.of[1]) /\ u.of[i].of[2] \in Inside(g, x.of[2]))
  BY <1>1, <1>2, <1>6 DEF MapOf
<1>10. QED BY <1>1, <1>2, <1>3, <1>4, <1>7, <1>8, <1>9

LEMMA KindInside ==
  ASSUME NEW g, NEW u \in Parts(g), NEW kind
  PROVE  /\ kind \in {"dyn", "any"} => u \in Inside(g, kindOnly(kind))
         /\ kind \notin {"dyn", "any", "wrapper", "list", "map"} => (u \in Inside(g, kindOnly(kind)) <=> Kind(u) = kind)
         /\ kind \notin {"dyn", "any", "wrapper", "list", "map"} /\ (Kind(u) = kind \/ Kind(u) = "null") =>
              u \in Inside(g, Wrapper(kind))
<1>1. IsTree(kindOnly(kind)) /\ Kind(kindOnly(kind)) = kind
  BY KindOnlyIs
<1>2. IsTree(Wrapper(kind)) /\ Kind(Wrapper(kind)) = "wrapper" /\ 1 \in DOMAIN Wrapper(kind).of
      /\ Wrapper(kind).of[1] = kindOnly(kind)
  BY WrapperIs
<1>3. u \in Inside(g, Wrapper(kind)) <=> Kind(u) = "null" \/ u \in Inside(g, kindOnly(kind))
  BY <1>2, InsideIs
<1>4. /\ kind \in {"dyn", "any"} => u \in Inside(g, kindOnly(kind))
      /\ kind \notin {"dyn", "any", "wrapper", "list", "map"} => (u \in Inside(g, kindOnly(kind)) <=> Kind(u) = kind)
  BY <1>1, InsideIs
<1>5. QED BY <1>3, <1>4

\* The kind a value is tagged with.
LEMMA KindKept ==
  ASSUME NEW is, is[1] \in {"null", "bool", "int", "uint", "double", "string", "bytes", "type", "list", "map", "entry"}
  PROVE  tagged(is)[1] = is[1]
<1>1. CASE is[1] = "double"
  <2>1. tagged(is) = Double(is[2])
    BY <1>1 DEF tagged
  <2>2. QED BY <1>1, <2>1, DoubleIs
<1>2. CASE is[1] # "double"
  BY <1>2 DEF tagged
<1>3. QED BY <1>1, <1>2

WrapperNames ==
  SignedWrappers \cup UnsignedWrappers \cup FloatWrappers
    \cup {"google.protobuf.BoolValue", "google.protobuf.StringValue", "google.protobuf.BytesValue"}

LEMMA MessageKind ==
  ASSUME NEW is, is[1] = "object", tagged(is) # <<"fault">>
  PROVE  /\ is[2] \in WrapperNames
                        \cup {"google.protobuf.Timestamp", "google.protobuf.Duration", "google.protobuf.Value",
                              "google.protobuf.Struct", "google.protobuf.ListValue"}
         /\ is[2] = "google.protobuf.Timestamp" => tagged(is)[1] = "timestamp"
         /\ is[2] = "google.protobuf.Duration" => tagged(is)[1] = "duration"
         /\ is[2] = "google.protobuf.Struct" => tagged(is)[1] = "map"
         /\ is[2] = "google.protobuf.ListValue" => tagged(is)[1] = "list"
         /\ is[2] = "google.protobuf.BoolValue" => tagged(is)[1] = "bool"
         /\ is[2] \in SignedWrappers => tagged(is)[1] = "int"
         /\ is[2] \in UnsignedWrappers => tagged(is)[1] = "uint"
         /\ is[2] \in FloatWrappers => tagged(is)[1] = "double"
         /\ is[2] = "google.protobuf.StringValue" => tagged(is)[1] = "string"
         /\ is[2] = "google.protobuf.BytesValue" => tagged(is)[1] = "bytes"
<1> DEFINE name == is[2]
           m == is[3]
<1> USE DEF SignedWrappers, UnsignedWrappers, FloatWrappers
<1>1. tagged(is) = fromWellKnown(name, m)
  BY DEF tagged
<1> HIDE DEF name, m
<1>2. name \in WrapperNames
                 \cup {"google.protobuf.Timestamp", "google.protobuf.Duration", "google.protobuf.Value",
                       "google.protobuf.Struct", "google.protobuf.ListValue"}
  BY <1>1 DEF fromWellKnown, WrapperNames
<1>3. /\ name = "google.protobuf.Timestamp" => tagged(is)[1] = "timestamp"
      /\ name = "google.protobuf.Duration" => tagged(is)[1] = "duration"
      /\ name = "google.protobuf.Struct" => tagged(is)[1] = "map"
      /\ name = "google.protobuf.ListValue" => tagged(is)[1] = "list"
  BY <1>1 DEF fromWellKnown
<1>4. /\ name = "google.protobuf.BoolValue" => tagged(is)[1] = "bool"
      /\ name = "google.protobuf.StringValue" => tagged(is)[1] = "string"
      /\ name = "google.protobuf.BytesValue" => tagged(is)[1] = "bytes"
  BY <1>1 DEF fromWellKnown
<1>5. (name \in SignedWrappers => tagged(is)[1] = "int") /\ (name \in UnsignedWrappers => tagged(is)[1] = "uint")
  BY <1>1 DEF fromWellKnown
<1>6. name \in FloatWrappers => tagged(is)[1] = "double"
  <2>1. name \in FloatWrappers => tagged(is) = Double(m)
    BY <1>1 DEF fromWellKnown
  <2>2. QED BY <2>1, DoubleIs
<1>7. QED BY <1>2, <1>3, <1>4, <1>5, <1>6 DEF name

\* The nodes of v that are of a declared type.
Typed(v, s) == Result("typed", Parts(v), s)

LEMMA TypedIs ==
  ASSUME NEW v, NEW s, IsTree(s), NEW u \in Typed(v, s)
  PROVE  /\ u \in Parts(v)
         /\ Kind(s) \in {"dyn", "primitive", "wrapper", "well_known", "list", "map", "type", "null", "message"}
         /\ Kind(s) = "primitive" => OfPrimitive(u, s.is[2])
         /\ Kind(s) = "wrapper" => Kind(u) = "null" \/ OfPrimitive(u, s.is[2])
         /\ Kind(s) = "well_known" =>
              \/ s.is[2] = "ANY"
              \/ (s.is[2] = "TIMESTAMP" /\ OfMessage(u, "google.protobuf.Timestamp"))
              \/ (s.is[2] = "DURATION" /\ OfMessage(u, "google.protobuf.Duration"))
         /\ Kind(s) = "list" /\ 1 \in DOMAIN s.of =>
              Kind(u) = "list" /\ \A i \in DOMAIN u.of : u.of[i] \in Typed(v, s.of[1])
         /\ Kind(s) = "map" /\ 1 \in DOMAIN s.of /\ 2 \in DOMAIN s.of =>
              /\ Kind(u) = "map"
              /\ \A i \in DOMAIN u.of : u.of[i].of[1] \in Typed(v, s.of[1]) /\ u.of[i].of[2] \in Typed(v, s.of[2])
         /\ Kind(s) \in {"type", "null"} => Kind(u) = Kind(s)
         /\ Kind(s) = "message" => OfMessage(u, s.is[2])
<1> DEFINE below == [i \in DOMAIN s.of |-> Typed(v, s.of[i])]
           k == Kind(s)
<1>1. u \in TypedNodes(Parts(v), s, below)
  BY ResultStep, MadeIs DEF Typed
<1>2. \A i \in DOMAIN s.of : below[i] = Typed(v, s.of[i])
  OBVIOUS
<1> HIDE DEF below
<1>3. u \in Parts(v) /\ k \in {"dyn", "primitive", "wrapper", "well_known", "list", "map", "type", "null", "message"}
  BY <1>1 DEF TypedNodes
<1>4. k = "primitive" => OfPrimitive(u, s.is[2])
  BY <1>1 DEF TypedNodes, OfPrimitive
<1>5. k = "wrapper" => Kind(u) = "null" \/ OfPrimitive(u, s.is[2])
  BY <1>1 DEF TypedNodes, OfPrimitive
<1>6. k = "well_known" =>
              \/ s.is[2] = "ANY"
              \/ (s.is[2] = "TIMESTAMP" /\ OfMessage(u, "google.protobuf.Timestamp"))
              \/ (s.is[2] = "DURATION" /\ OfMessage(u, "google.protobuf.Duration"))
  BY <1>1 DEF TypedNodes, OfMessage
<1>7. k = "list" => ListOf(u, below)
  BY <1>1 DEF TypedNodes, ListOf
<1>8. k = "map" => MapOf(u, below)
  BY <1>1 DEF TypedNodes, MapOf
<1>9. (k \in {"type", "null"} => Kind(u) = k) /\ (k = "message" => OfMessage(u, s.is[2]))
  BY <1>1 DEF TypedNodes, OfMessage
<1>10. k = "list" /\ 1 \in DOMAIN s.of =>
              Kind(u) = "list" /\ \A i \in DOMAIN u.of : u.of[i] \in Typed(v, s.of[1])
  BY <1>2, <1>7 DEF ListOf
<1>11. k = "map" /\ 1 \in DOMAIN s.of /\ 2 \in DOMAIN s.of =>
              /\ Kind(u) = "map"
              /\ \A i \in DOMAIN u.of : u.of[i].of[1] \in Typed(v, s.of[1]) /\ u.of[i].of[2] \in Typed(v, s.of[2])
  BY <1>2, <1>8 DEF MapOf
<1>12. QED BY <1>3, <1>4, <1>5, <1>6, <1>9, <1>10, <1>11

\* What is known of a node of a value and of what it is made into.
LEMMA MadeNode ==
  ASSUME NEW v, IsValue(v), NEW into, Faithful(v, into), NEW u \in Parts(v)
  PROVE  /\ Relabel(u, into) \in Parts(Relabel(v, into))
         /\ Kind(Relabel(u, into)) = tagged(u.is)[1] /\ tagged(u.is) # <<"fault">> /\ ValueLabel(u.is)
         /\ DOMAIN Relabel(u, into).of = DOMAIN u.of
         /\ \A i \in DOMAIN u.of : Relabel(u, into).of[i] = Relabel(u.of[i], into) /\ u.of[i] \in Parts(v)
<1>1. IsTree(v) /\ IsTree(u) /\ u.is \in Labels(v)
  BY PartsIn, LabelsOf DEF IsValue
<1>2. Relabel(u, into) \in Parts(Relabel(v, into))
  BY <1>1, RelabelParts
<1>3. /\ Kind(Relabel(u, into)) = into[u.is][1] /\ DOMAIN Relabel(u, into).of = DOMAIN u.of
      /\ \A i \in DOMAIN u.of : Relabel(u, into).of[i] = Relabel(u.of[i], into)
  BY <1>1, RelabelTree
<1>4. into[u.is][1] = tagged(u.is)[1] /\ ValueLabel(u.is) /\ tagged(u.is) # <<"fault">>
  BY <1>1, FaithfulLabel DEF Faithful
<1>5. \A i \in DOMAIN u.of : u.of[i] \in Parts(v)
  BY <1>1, ChildTree, PartsIn
<1>6. QED BY <1>2, <1>3, <1>4, <1>5

\* A node of a message type is inside the type that the table gives the message.
LEMMA MessageKept ==
  ASSUME NEW v, IsValue(v), NEW into, Faithful(v, into), NEW u \in Parts(v), NEW name, OfMessage(u, name)
  PROVE  Relabel(u, into) \in Inside(Relabel(v, into), wellKnownMessages(name))
<1> DEFINE r == Relabel(u, into)
           g == Relabel(v, into)
           t == wellKnownMessages(name)
<1>1. /\ r \in Parts(g) /\ Kind(r) = tagged(u.is)[1] /\ tagged(u.is) # <<"fault">> /\ ValueLabel(u.is)
      /\ DOMAIN r.of = DOMAIN u.of
      /\ \A i \in DOMAIN u.of : r.of[i] = Relabel(u.of[i], into) /\ u.of[i] \in Parts(v)
  BY MadeNode
<1>2. \A i \in DOMAIN u.of : r.of[i] \in Parts(g)
  BY <1>1, MadeNode
<1>3. u.is[1] = "object" /\ u.is[2] = name
  BY DEF OfMessage, Kind
<1>4. name \in WrapperNames
                 \cup {"google.protobuf.Timestamp", "google.protobuf.Duration", "google.protobuf.Value",
                       "google.protobuf.Struct", "google.protobuf.ListValue"}
  BY <1>1, <1>3, MessageKind
<1>5. CASE name \in WrapperNames
  <2> DEFINE k == tagged(u.is)[1]
  <2>1. t = Wrapper(k) /\ k \in {"int", "uint", "double", "bool", "string", "bytes"}
    <3>1. name \in SignedWrappers => t = Wrapper("int") /\ k = "int"
      BY <1>1, <1>3, MessageKind, MessageTypeIs
    <3>2. name \in UnsignedWrappers => t = Wrapper("uint") /\ k = "uint"
      BY <1>1, <1>3, MessageKind, MessageTypeIs
    <3>3. name \in FloatWrappers => t = Wrapper("double") /\ k = "double"
      BY <1>1, <1>3, MessageKind, MessageTypeIs
    <3>4. /\ name = "google.protobuf.BoolValue" => t = Wrapper("bool") /\ k = "bool"
          /\ name = "google.protobuf.StringValue" => t = Wrapper("string") /\ k = "string"
          /\ name = "google.protobuf.BytesValue" => t = Wrapper("bytes") /\ k = "bytes"
      BY <1>1, <1>3, MessageKind, MessageTypeIs
    <3> HIDE DEF t, k
    <3>5. QED BY <1>5, <3>1, <3>2, <3>3, <3>4 DEF WrapperNames
  <2> HIDE DEF t, k, r, g
  <2>2. r \in Inside(g, Wrapper(k))
    BY <1>1, <2>1, KindInside DEF k
  <2>3. QED BY <2>1, <2>2 DEF r, g, t
<1>6. CASE name = "google.protobuf.Timestamp"
  <2>1. t = kindOnly("timestamp") /\ Kind(r) = "timestamp"
    BY <1>1, <1>3, <1>6, MessageKind, MessageTypeIs
  <2> HIDE DEF t, r, g
  <2>2. r \in Inside(g, t)
    BY <1>1, <2>1, KindInside
  <2>3. QED BY <2>2 DEF r, g, t
<1>7. CASE name = "google.protobuf.Duration"
  <2>1. t = kindOnly("duration") /\ Kind(r) = "duration"
    BY <1>1, <1>3, <1>7, MessageKind, MessageTypeIs
  <2> HIDE DEF t, r, g
  <2>2. r \in Inside(g, t)
    BY <1>1, <2>1, KindInside
  <2>3. QED BY <2>2 DEF r, g, t
<1>8. CASE name = "google.protobuf.Value"
  <2>1. t = kindOnly("dyn")
    BY <1>8, MessageTypeIs
  <2> HIDE DEF t, r, g
  <2>2. r \in Inside(g, t)
    BY <1>1, <2>1, KindInside
  <2>3. QED BY <2>2 DEF r, g, t
<1>9. CASE name = "google.protobuf.ListValue"
  <2>1. t = Node(<<"list">>, <<kindOnly("dyn")>>) /\ Kind(r) = "list"
    BY <1>1, <1>3, <1>9, MessageKind, MessageTypeIs
  <2>2. IsTree(t) /\ Kind(t) = "list" /\ 1 \in DOMAIN t.of /\ t.of[1] = kindOnly("dyn")
    <3>1. <<"list">>[1] = "list" /\ 1 \in 1..1
      OBVIOUS
    <3>2. QED BY <2>1, <3>1, KindOnlyIs, OneIs
  <2> HIDE DEF t, r, g
  <2>3. \A i \in DOMAIN r.of : r.of[i] \in Inside(g, kindOnly("dyn"))
    BY <1>1, <1>2, KindInside
  <2>4. r \in Inside(g, t)
    BY <1>1, <2>1, <2>2, <2>3, InsideIs
  <2>5. QED BY <2>4 DEF r, g, t
<1>10. CASE name = "google.protobuf.Struct"
  <2>1. t = Node(<<"map">>, <<kindOnly("string"), kindOnly("dyn")>>) /\ Kind(r) = "map"
    BY <1>1, <1>3, <1>10, MessageKind, MessageTypeIs
  <2>2. IsTree(t) /\ Kind(t) = "map" /\ 1 \in DOMAIN t.of /\ 2 \in DOMAIN t.of
        /\ t.of[1] = kindOnly("string") /\ t.of[2] = kindOnly("dyn")
    <3>1. <<"map">>[1] = "map" /\ 1 \in 1..2 /\ 2 \in 1..2
      OBVIOUS
    <3>2. QED BY <2>1, <3>1, KindOnlyIs, PairIs
  <2>3. ASSUME NEW i \in DOMAIN u.of
        PROVE  r.of[i].of[1] \in Inside(g, kindOnly("string")) /\ r.of[i].of[2] \in Inside(g, kindOnly("dyn"))
    <3> DEFINE e == u.of[i]
    <3>1. u.is \notin Lists /\ u.is # <<"entry">>
      BY <1>3, <1>10 DEF Lists
    <3>2. u.is \in Maps /\ u.is # <<"map">>
      <4>1. u.of # <<>>
        OBVIOUS
      <4>2. u.is # <<"map">>
        BY <1>3
      <4>3. QED BY <3>1, <4>1, <4>2 DEF IsValue
    <3>3. e \in Parts(v) /\ e.is = <<"entry">> /\ JsonString(e.of[1].is) /\ r.of[i] = Relabel(e, into)
      <4>1. u.of[i].is = <<"entry">> /\ JsonString(u.of[i].of[1].is)
        BY <3>2 DEF IsValue, JsonString
      <4>2. QED BY <1>1, <4>1
    <3>4. IsTree(e) /\ DOMAIN e.of = 1..2
      <4>1. e.is \notin Maps
        BY <3>3 DEF Maps
      <4>2. Len(e.of) = 2
        BY <3>3, <4>1 DEF IsValue
      <4>3. IsTree(e)
        BY <3>3, PartsIn DEF IsValue
      <4>4. QED BY <4>2, <4>3, ChildTree
    <3> HIDE DEF e, r, g
    <3>5. 1 \in DOMAIN e.of /\ 2 \in DOMAIN e.of
      BY <3>4
    <3>6. /\ Relabel(e, into).of[1] = Relabel(e.of[1], into) /\ e.of[1] \in Parts(v)
          /\ Relabel(e, into).of[2] = Relabel(e.of[2], into) /\ e.of[2] \in Parts(v)
      BY <3>3, <3>5, MadeNode
    <3>7. /\ Relabel(e.of[1], into) \in Parts(g) /\ Kind(Relabel(e.of[1], into)) = tagged(e.of[1].is)[1]
          /\ Relabel(e.of[2], into) \in Parts(g)
      BY <3>6, MadeNode DEF g
    <3>8. tagged(e.of[1].is)[1] = "string"
      <4> DEFINE is == e.of[1].is
      <4>1. is = <<"json", <<"string", is[2][2]>>>>
        BY <3>3 DEF JsonString
      <4>2. is[1] = "json" /\ is[2] = <<"string", is[2][2]>>
        BY <4>1
      <4>3. tagged(is) = fromJSON(is[2])
        BY <4>2 DEF tagged
      <4> HIDE DEF is
      <4>4. fromJSON(is[2]) = is[2] /\ is[2][1] = "string"
        BY <4>2 DEF fromJSON
      <4>5. QED BY <4>3, <4>4 DEF is
    <3>9. QED BY <3>3, <3>6, <3>7, <3>8, KindInside
  <2> HIDE DEF t, r, g
  <2>4. r \in Inside(g, t)
    BY <1>1, <2>1, <2>2, <2>3, InsideIs
  <2>5. QED BY <2>4 DEF r, g, t
<1>11. QED BY <1>4, <1>5, <1>6, <1>7, <1>8, <1>9, <1>10

\* Whatever is of a declared type is inside the converted one.
Keeps(v, into, s) ==
  \A u \in Parts(v) : u \in Typed(v, s) /\ ~ Faulty(from(s)) => Relabel(u, into) \in Inside(Relabel(v, into), from(s))

LEMMA PrimitiveKept ==
  ASSUME NEW u, NEW p, p \in DOMAIN primitiveKinds, OfPrimitive(u, p)
  PROVE  /\ primitiveKinds[p] \in {"bool", "int", "uint", "double", "string", "bytes"}
         /\ tagged(u.is)[1] = primitiveKinds[p]
<1>1. p \in {"BOOL", "INT64", "UINT64", "DOUBLE", "STRING", "BYTES"}
  BY DEF primitiveKinds
<1>2. primitiveKinds[p] \in {"bool", "int", "uint", "double", "string", "bytes"} /\ u.is[1] = primitiveKinds[p]
  BY <1>1 DEF OfPrimitive, Kind, primitiveKinds
<1>3. QED BY <1>2, KindKept

LEMMA FaultIs == Faulty(Fault)
  BY LeafIs DEF Faulty, Fault

LEMMA FaultBelow ==
  ASSUME NEW t, IsTree(t), ~ Faulty(t), NEW i \in DOMAIN t.of
  PROVE  ~ Faulty(t.of[i])
  BY LabelsOf DEF Faulty

\* A declared type of which the parameters keep what is in them, kind by kind.
LEMMA KeepsNode ==
  ASSUME NEW v, IsValue(v), NEW into, Faithful(v, into), NEW t, IsDeclaredType(t), NEW s \in Parts(t),
         \A i \in DOMAIN s.of : Keeps(v, into, s.of[i]),
         NEW u \in Parts(v), u \in Typed(v, s), ~ Faulty(from(s))
  PROVE  Relabel(u, into) \in Inside(Relabel(v, into), from(s))
<1> DEFINE r == Relabel(u, into)
           g == Relabel(v, into)
           params == [i \in DOMAIN s.of |-> from(s.of[i])]
           x == from(s)
<1>1. /\ r \in Parts(g) /\ Kind(r) = tagged(u.is)[1] /\ tagged(u.is) # <<"fault">> /\ ValueLabel(u.is)
      /\ DOMAIN r.of = DOMAIN u.of
      /\ \A i \in DOMAIN u.of : r.of[i] = Relabel(u.of[i], into) /\ u.of[i] \in Parts(v)
  BY MadeNode
<1>2. IsTree(s) /\ IsTree(x) /\ x = TypeNode(s, params)
  BY PartsIn, FromTree, FromIs DEF IsDeclaredType
<1>3. Kind(s) \in {"dyn", "primitive", "wrapper", "well_known", "list", "map", "type", "null", "message"}
  BY <1>2, TypedIs
<1>4. x # Fault
  BY FaultIs
<1>5. CASE Kind(s) \in {"dyn", "null"}
  <2>1. x = Leaf(s.is)
    BY <1>2, <1>5 DEF TypeNode
  <2>2. Kind(x) = Kind(s)
    BY <2>1, LeafIs DEF Kind
  <2>3. Kind(s) = "null" => Kind(r) = "null"
    <3>1. Kind(s) = "null" => Kind(u) = "null"
      BY <1>2, TypedIs
    <3>2. QED BY <1>1, <3>1, KindKept DEF Kind
  <2> HIDE DEF r, g, x
  <2>4. QED BY <1>1, <1>2, <1>5, <2>2, <2>3, InsideIs DEF r, g, x
<1>6. CASE Kind(s) = "primitive"
  <2>1. x = IF s.is[2] \in DOMAIN primitiveKinds THEN kindOnly(primitiveKinds[s.is[2]]) ELSE Fault
    BY <1>2, <1>6 DEF TypeNode
  <2>2. s.is[2] \in DOMAIN primitiveKinds /\ x = kindOnly(primitiveKinds[s.is[2]])
    BY <1>4, <2>1
  <2>3. OfPrimitive(u, s.is[2])
    BY <1>2, <1>6, TypedIs
  <2> DEFINE k == primitiveKinds[s.is[2]]
  <2>4. k \in {"bool", "int", "uint", "double", "string", "bytes"} /\ Kind(r) = k
    BY <1>1, <2>2, <2>3, PrimitiveKept
  <2>5. x = kindOnly(k)
    BY <2>2
  <2> HIDE DEF r, g, x, k
  <2>6. r \in Inside(g, kindOnly(k))
    BY <1>1, <2>4, KindInside
  <2>7. QED BY <2>5, <2>6 DEF r, g, x
<1>7. CASE Kind(s) = "wrapper"
  <2>1. x = IF s.is[2] \in DOMAIN primitiveKinds THEN Wrapper(primitiveKinds[s.is[2]]) ELSE Fault
    BY <1>2, <1>7 DEF TypeNode
  <2>2. s.is[2] \in DOMAIN primitiveKinds /\ x = Wrapper(primitiveKinds[s.is[2]])
    BY <1>4, <2>1
  <2>3. Kind(u) = "null" \/ OfPrimitive(u, s.is[2])
    BY <1>2, <1>7, TypedIs
  <2> DEFINE k == primitiveKinds[s.is[2]]
  <2>4. k \in {"bool", "int", "uint", "double", "string", "bytes"}
    BY <2>2 DEF primitiveKinds
  <2>5. Kind(r) = k \/ Kind(r) = "null"
    <3>1. Kind(u) = "null" => Kind(r) = "null"
      BY <1>1, KindKept DEF Kind
    <3>2. OfPrimitive(u, s.is[2]) => Kind(r) = k
      BY <1>1, <2>2, PrimitiveKept
    <3> HIDE DEF k, r
    <3>3. QED BY <2>3, <3>1, <3>2
  <2>6. x = Wrapper(k)
    BY <2>2
  <2> HIDE DEF r, g, x, k
  <2>7. r \in Inside(g, Wrapper(k))
    BY <1>1, <2>4, <2>5, KindInside
  <2>8. QED BY <2>6, <2>7 DEF r, g, x
<1>8. CASE Kind(s) = "well_known"
  <2> DEFINE n == s.is[2]
  <2>1. \/ n = "ANY"
        \/ (n = "TIMESTAMP" /\ OfMessage(u, "google.protobuf.Timestamp"))
        \/ (n = "DURATION" /\ OfMessage(u, "google.protobuf.Duration"))
    BY <1>2, <1>8, TypedIs
  <2>2. x = IF n \in DOMAIN wellKnowns THEN kindOnly(wellKnowns[n]) ELSE Fault
    BY <1>2, <1>8 DEF TypeNode
  <2>3. CASE n = "ANY"
    <3>1. x = kindOnly("any")
      BY <2>2, <2>3 DEF wellKnowns
    <3> HIDE DEF r, g, x
    <3>2. r \in Inside(g, kindOnly("any"))
      BY <1>1, KindInside
    <3>3. QED BY <3>1, <3>2 DEF r, g, x
  <2>4. CASE n = "TIMESTAMP" /\ OfMessage(u, "google.protobuf.Timestamp")
    <3>1. x = kindOnly("timestamp")
      BY <2>2, <2>4 DEF wellKnowns
    <3>2. Kind(r) = "timestamp"
      BY <1>1, <2>4, MessageKind DEF OfMessage, Kind
    <3> HIDE DEF r, g, x
    <3>3. r \in Inside(g, kindOnly("timestamp"))
      BY <1>1, <3>2, KindInside
    <3>4. QED BY <3>1, <3>3 DEF r, g, x
  <2>5. CASE n = "DURATION" /\ OfMessage(u, "google.protobuf.Duration")
    <3>1. x = kindOnly("duration")
      BY <2>2, <2>5 DEF wellKnowns
    <3>2. Kind(r) = "duration"
      BY <1>1, <2>5, MessageKind DEF OfMessage, Kind
    <3> HIDE DEF r, g, x
    <3>3. r \in Inside(g, kindOnly("duration"))
      BY <1>1, <3>2, KindInside
    <3>4. QED BY <3>1, <3>3 DEF r, g, x
  <2>6. QED BY <2>1, <2>3, <2>4, <2>5
<1>9. CASE Kind(s) \in {"list", "map"}
  <2>1. x = Node(s.is, params)
    BY <1>2, <1>9 DEF TypeNode
  <2>2. x.of = params /\ Kind(x) = Kind(s)
    BY <2>1, NodeIs DEF Kind
  <2>3. DOMAIN s.of = 1..Len(s.of) /\ DOMAIN x.of = DOMAIN s.of /\ \A i \in DOMAIN s.of : x.of[i] = from(s.of[i])
    BY <1>2, <2>2, ChildTree
  <2>4. \A i \in DOMAIN s.of : ~ Faulty(from(s.of[i]))
    BY <1>2, <2>3, FaultBelow
  <2>5. ASSUME NEW i \in DOMAIN s.of, NEW w \in Parts(v), w \in Typed(v, s.of[i])
        PROVE  Relabel(w, into) \in Inside(g, x.of[i])
    <3>1. Keeps(v, into, s.of[i])
      OBVIOUS
    <3>2. QED BY <2>3, <2>4, <2>5, <3>1 DEF Keeps
  <2>6. Len(s.of) = IF Kind(s) = "list" THEN 1 ELSE 2
    BY <1>9 DEF IsDeclaredType
  <2>7. Kind(r) = Kind(u)
    <3>1. 1 \in DOMAIN s.of /\ (Kind(s) = "map" => 2 \in DOMAIN s.of)
      BY <2>3, <2>6
    <3>2. Kind(u) = Kind(s)
      BY <1>2, <1>9, <3>1, TypedIs
    <3>3. QED BY <1>1, <1>9, <3>2, KindKept DEF Kind
  <2>8. CASE Kind(s) = "list"
    <3>1. 1 \in DOMAIN s.of
      BY <2>3, <2>6, <2>8
    <3>2. Kind(u) = "list" /\ \A i \in DOMAIN u.of : u.of[i] \in Typed(v, s.of[1])
      BY <1>2, <2>8, <3>1, TypedIs
    <3>3. \A i \in DOMAIN u.of : Relabel(u.of[i], into) \in Inside(g, x.of[1])
      BY <1>1, <2>5, <3>1, <3>2
    <3>4. \A i \in DOMAIN r.of : r.of[i] \in Inside(g, x.of[1])
      BY <1>1, <3>3
    <3>5. 1 \in DOMAIN x.of /\ Kind(x) = "list" /\ Kind(r) = "list"
      BY <2>2, <2>3, <2>7, <2>8, <3>1, <3>2
    <3> HIDE DEF r, g, x
    <3>6. r \in Inside(g, x)
      BY <1>1, <1>2, <3>4, <3>5, InsideIs
    <3>7. QED BY <3>6 DEF r, g, x
  <2>9. CASE Kind(s) = "map"
    <3>1. 1 \in DOMAIN s.of /\ 2 \in DOMAIN s.of
      BY <2>3, <2>6, <2>9
    <3>2. /\ Kind(u) = "map"
          /\ \A i \in DOMAIN u.of : u.of[i].of[1] \in Typed(v, s.of[1]) /\ u.of[i].of[2] \in Typed(v, s.of[2])
      BY <1>2, <2>9, <3>1, TypedIs
    <3>3. ASSUME NEW i \in DOMAIN r.of
          PROVE  r.of[i].of[1] \in Inside(g, x.of[1]) /\ r.of[i].of[2] \in Inside(g, x.of[2])
      <4> DEFINE e == u.of[i]
      <4>1. i \in DOMAIN u.of /\ e \in Parts(v) /\ r.of[i] = Relabel(e, into)
        BY <1>1
      <4>2. u.is = <<"map">>
        BY <1>1, <3>2 DEF ValueLabel, IsPair, Kind
      <4>3. e.is = <<"entry">>
        BY <4>1, <4>2 DEF IsValue, Maps
      <4>4. IsTree(e) /\ DOMAIN e.of = 1..2
        <5>1. e.is \notin Maps
          BY <4>3 DEF Maps
        <5>2. Len(e.of) = 2
          BY <4>1, <4>3, <5>1 DEF IsValue
        <5>3. IsTree(e)
          BY <4>1, PartsIn DEF IsValue
        <5>4. QED BY <5>2, <5>3, ChildTree
      <4>5. e.of[1] \in Typed(v, s.of[1]) /\ e.of[2] \in Typed(v, s.of[2])
        BY <3>2, <4>1
      <4> HIDE DEF e, r, g, x
      <4>6. 1 \in DOMAIN e.of /\ 2 \in DOMAIN e.of
        BY <4>4
      <4>7. /\ Relabel(e, into).of[1] = Relabel(e.of[1], into) /\ e.of[1] \in Parts(v)
            /\ Relabel(e, into).of[2] = Relabel(e.of[2], into) /\ e.of[2] \in Parts(v)
        BY <4>1, <4>6, MadeNode
      <4>8. Relabel(e.of[1], into) \in Inside(g, x.of[1]) /\ Relabel(e.of[2], into) \in Inside(g, x.of[2])
        BY <2>5, <3>1, <4>5, <4>7
      <4>9. QED BY <4>1, <4>7, <4>8
    <3>4. 1 \in DOMAIN x.of /\ 2 \in DOMAIN x.of /\ Kind(x) = "map" /\ Kind(r) = "map"
      BY <2>2, <2>3, <2>7, <2>9, <3>1, <3>2
    <3> HIDE DEF r, g, x
    <3>5. r \in Inside(g, x)
      BY <1>1, <1>2, <3>3, <3>4, InsideIs
    <3>6. QED BY <3>5 DEF r, g, x
  <2>10. QED BY <1>9, <2>8, <2>9
<1>10. CASE Kind(s) = "type"
  <2>1. x \in {kindOnly("type"), Node(s.is, params)}
    BY <1>2, <1>10 DEF TypeNode
  <2>2. Kind(x) = "type"
    BY <1>10, <2>1, KindOnlyIs, NodeIs DEF Kind
  <2>3. Kind(r) = "type"
    <3>1. Kind(u) = "type"
      BY <1>2, <1>10, TypedIs
    <3>2. QED BY <1>1, <3>1, KindKept DEF Kind
  <2> HIDE DEF r, g, x
  <2>4. r \in Inside(g, x)
    BY <1>1, <1>2, <2>2, <2>3, InsideIs
  <2>5. QED BY <2>4 DEF r, g, x
<1>11. CASE Kind(s) = "message"
  <2>1. x = wellKnownMessages(s.is[2])
    BY <1>2, <1>11 DEF TypeNode
  <2>2. OfMessage(u, s.is[2])
    BY <1>2, <1>11, TypedIs
  <2>3. r \in Inside(g, wellKnownMessages(s.is[2]))
    BY <2>2, MessageKept
  <2>4. QED BY <2>1, <2>3
<1>12. QED BY <1>3, <1>5, <1>6, <1>7, <1>8, <1>9, <1>10, <1>11

LEMMA KeepsAll ==
  ASSUME NEW v, IsValue(v), NEW into, Faithful(v, into), NEW t, IsDeclaredType(t)
  PROVE  Keeps(v, into, t)
<1> DEFINE G == {s \in Parts(t) : Keeps(v, into, s)}
<1>1. ASSUME NEW s \in Parts(t), \A i \in DOMAIN s.of : s.of[i] \in G PROVE s \in G
  <2>1. \A i \in DOMAIN s.of : Keeps(v, into, s.of[i])
    BY <1>1
  <2>2. Keeps(v, into, s)
    BY <2>1, KeepsNode DEF Keeps
  <2>3. QED BY <2>2
<1>2. Parts(t) \subseteq G
  <2> HIDE DEF G
  <2> QED BY <1>1, OnParts DEF IsDeclaredType
<1>3. QED BY <1>2, TreeIs

LEMMA TypeKept ==
  ASSUME NEW v, IsValue(v), NEW into, Faithful(v, into), NEW t, IsDeclaredType(t), HasType(v, t), FromType(t) # Fault
  PROVE  Inhabits(Relabel(v, into), FromType(t))
<1>1. IsTree(t) /\ t \in Parts(t) /\ v \in Parts(v)
  BY TreeIs DEF IsDeclaredType
<1>2. FromType(t) = from(t) /\ ~ Faulty(from(t)) /\ IsTree(from(t))
  BY <1>1, FromTypeIs, FromTree DEF from
<1>3. v \in Typed(v, t)
  BY <1>1, HasTypeIs DEF Typed
<1>4. Keeps(v, into, t)
  BY KeepsAll
<1>5. Relabel(v, into) \in Inside(Relabel(v, into), from(t))
  BY <1>1, <1>2, <1>3, <1>4 DEF Keeps
<1>6. QED BY <1>2, <1>5, InhabitsIs DEF Inside

-----------------------------------------------------------------------------
(***************************************************************************)
(* A case: how far it is says what it has, of its inputs.                  *)
(***************************************************************************)
Past == {"converted", "answered", "refused", "compared"}

InputsOK ==
  /\ binding[1] = "value" => IsValue(binding[2])
  /\ IsValue(expected)
  /\ decl[1] = "ident" => IsDeclaredType(decl[2])

CaseOK ==
  /\ InputsOK
  /\ stage \in Past =>
       type = FromDecl(decl) /\ type # Fault /\ FromExprValue(binding) # Fault /\ ~ ContainsNulString
  /\ stage = "converted" => got = FromExprValue(binding)
  /\ stage \in {"answered", "compared"} => got = Stored(FromExprValue(binding))
  /\ stage = "refused" => ~ Storable(FromExprValue(binding))
  /\ stage = "compared" => verdict = (FromValue(expected) # Fault /\ Equal(FromValue(expected), got))

LEMMA InputsStart == Init => InputsOK
<1>1. SUFFICES ASSUME Init PROVE InputsOK
  OBVIOUS
<1>2. IsDeclaredType(Leaf(<<"dyn">>))
  <2> DEFINE t == Leaf(<<"dyn">>)
  <2>1. IsTree(t) /\ Kind(t) = "dyn" /\ t.of = <<>> /\ Parts(t) = {t}
    <3>1. IsTree(t) /\ Kind(t) = "dyn" /\ t.of = <<>>
      BY LeafIs
    <3>2. t.parts = {}
      BY DEF Leaf, Node
    <3>3. QED BY <3>1, <3>2 DEF Parts
  <2> HIDE DEF t
  <2>2. QED BY <2>1 DEF IsDeclaredType, t
<1>3. binding \in Bindings /\ expected \in Expectations \cup {Leaf(<<"null">>)}
      /\ (decl = <<"ident", Leaf(<<"dyn">>)>> \/ decl \in Declarations)
  BY <1>1 DEF Init
<1>4. (binding[1] = "value" => IsValue(binding[2])) /\ IsValue(expected)
  BY <1>3, InputAssumption
<1>5. decl[1] = "ident" => IsDeclaredType(decl[2])
  BY <1>2, <1>3, InputAssumption
<1>6. QED BY <1>4, <1>5 DEF InputsOK

LEMMA CaseStart == Init => CaseOK
  BY InputsStart DEF Init, CaseOK, Past

LEMMA CaseStep == CaseOK /\ [Next]_vars => CaseOK'
<1>1. SUFFICES ASSUME CaseOK, [Next]_vars PROVE CaseOK'
  OBVIOUS
<1>2. UNCHANGED <<binding, decl, expected>>
  BY <1>1 DEF Next, Skip, Convert, Ask, Compare, vars
<1>3. InputsOK' /\ (ContainsNulString' <=> ContainsNulString)
  <2>1. InputsOK'
    BY <1>1, <1>2 DEF CaseOK, InputsOK
  <2>2. ContainsNulString' <=> ContainsNulString
    BY <1>2 DEF ContainsNulString
  <2>3. QED BY <2>1, <2>2
<1>4. CASE Skip
  BY <1>3, <1>4 DEF CaseOK, Skip, Goes, Past
<1>5. CASE Convert
  <2>1. type' = FromDecl(decl) /\ got' = FromExprValue(binding) /\ ~ ContainsNulString
        /\ stage' = IF Fault \in {type', got'} THEN "failed" ELSE "converted"
    BY <1>5 DEF Convert, Goes
  <2>2. QED BY <1>2, <1>3, <2>1 DEF CaseOK, Past
<1>6. CASE Ask
  <2>1. stage = "converted" /\ got' = Stored(got) /\ type' = type
    BY <1>6 DEF Ask
  <2>2. /\ got = FromExprValue(binding) /\ type = FromDecl(decl) /\ type # Fault /\ FromExprValue(binding) # Fault
        /\ ~ ContainsNulString
    BY <1>1, <2>1 DEF CaseOK, Past
  <2>3. (Storable(got) => stage' = "answered") /\ (~ Storable(got) => stage' = "refused")
    BY <1>6 DEF Ask, Goes, Storable
  <2>4. CASE Storable(got)
    <3>1. stage' = "answered"
      BY <2>3, <2>4
    <3>2. QED BY <1>2, <1>3, <2>1, <2>2, <3>1 DEF CaseOK, Past
  <2>5. CASE ~ Storable(got)
    <3>1. stage' = "refused" /\ ~ Storable(FromExprValue(binding))
      BY <2>2, <2>3, <2>5
    <3>2. QED BY <1>2, <1>3, <2>1, <2>2, <3>1 DEF CaseOK, Past
  <2>6. QED BY <2>4, <2>5
<1>7. CASE Compare
  <2>1. stage = "answered" /\ got' = got /\ type' = type /\ stage' = "compared"
        /\ got = Stored(FromExprValue(binding))
        /\ type = FromDecl(decl) /\ type # Fault /\ FromExprValue(binding) # Fault /\ ~ ContainsNulString
    BY <1>1, <1>7 DEF CaseOK, Compare, Goes, Past
  <2>2. verdict' = (FromValue(expected) # Fault /\ Equal(FromValue(expected), got))
    BY <1>7 DEF Compare
  <2>3. QED BY <1>2, <1>3, <2>1, <2>2 DEF CaseOK, Past
<1>8. CASE UNCHANGED vars
  BY <1>1, <1>3, <1>8 DEF CaseOK, vars
<1>9. QED BY <1>1, <1>4, <1>5, <1>6, <1>7, <1>8 DEF Next

LEMMA AlwaysCase == Spec => []CaseOK
  BY CaseStart, CaseStep, PTL DEF Spec

-----------------------------------------------------------------------------
(***************************************************************************)
(* The properties.                                                         *)
(***************************************************************************)
\* For all values and expectations, nested to any depth: a value that went to
\* the database and back compares equal to an expectation exactly when both mean
\* the same (compare.go:9-18). The greedy matching of the entries of maps is
\* equality of bags, because equality of what is below is an equivalence.
THEOREM VerdictHolds == Spec => []SameMeaning
<1>1. CaseOK => SameMeaning
  <2>1. SUFFICES ASSUME CaseOK, stage = "compared", binding[1] = "value", InRange(binding[2]), InRange(expected),
                        FromValue(expected) # Fault
                 PROVE  verdict <=> Meaning(binding[2]) = Meaning(expected)
    BY DEF SameMeaning
  <2>2. FromExprValue(binding) = FromValue(binding[2])
    BY <2>1 DEF FromExprValue
  <2>3. IsValue(binding[2]) /\ IsValue(expected) /\ FromValue(binding[2]) # Fault
        /\ got = Stored(FromValue(binding[2])) /\ (verdict <=> Equal(FromValue(expected), got))
    BY <2>1, <2>2 DEF CaseOK, InputsOK, Past
  <2>4. QED BY <2>1, <2>3, VerdictMeans
<1>2. QED BY <1>1, AlwaysCase, PTL

\* For all cases: what the database refuses for a U+0000 was left in by the scan
\* only where the scan does not look (corpus.go:161-166).
THEOREM RefusalsHold == Spec => []RefusedOnlyUnseen
<1>1. CaseOK => RefusedOnlyUnseen
  <2>1. SUFFICES ASSUME CaseOK, stage = "refused", binding[1] # "error"
                 PROVE  \E is \in Labels(binding[2]) : is[1] = "object" \/ is = <<"type", NUL>>
    BY DEF RefusedOnlyUnseen
  <2>2. FromExprValue(binding) # Fault /\ ~ Storable(FromExprValue(binding)) /\ ~ exprValueHasNul(binding)
    BY <2>1 DEF CaseOK, Past, ContainsNulString
  <2>3. binding[1] # "unknown"
    <3>1. SUFFICES ASSUME binding[1] = "unknown" PROVE FALSE
      OBVIOUS
    <3>2. FromExprValue(binding) = Leaf(<<"unknown", binding[2]>>)
      BY <3>1 DEF FromExprValue
    <3>3. Labels(Leaf(<<"unknown", binding[2]>>)) = {<<"unknown", binding[2]>>}
      BY LeafIs
    <3>4. Storable(Leaf(<<"unknown", binding[2]>>))
      BY <3>3 DEF Storable
    <3>5. QED BY <2>2, <3>2, <3>4
  <2>4. binding[1] = "value" /\ FromExprValue(binding) = FromValue(binding[2])
    BY <2>1, <2>2, <2>3 DEF FromExprValue
  <2>5. IsValue(binding[2]) /\ ~ valueHasNul(binding[2])
    BY <2>1, <2>2, <2>4 DEF CaseOK, InputsOK, exprValueHasNul
  <2>6. QED BY <2>2, <2>4, <2>5, NulIsSeen
<1>2. QED BY <1>1, AlwaysCase, PTL

\* For all declared types and values of them, nested to any depth: a variable
\* holds what its converted declaration says (type.go:28-30).
THEOREM TypesHold == Spec => []KeepsItsType
<1>1. CaseOK => KeepsItsType
  <2>1. SUFFICES ASSUME CaseOK, stage \in {"converted", "answered", "compared"}, decl[1] = "ident",
                        binding[1] = "value", HasType(binding[2], decl[2])
                 PROVE  Inhabits(got, type)
    BY DEF KeepsItsType
  <2>2. FromExprValue(binding) = FromValue(binding[2]) /\ FromDecl(decl) = FromType(decl[2])
    BY <2>1 DEF FromExprValue, FromDecl
  <2>3. /\ IsValue(binding[2]) /\ IsDeclaredType(decl[2]) /\ FromValue(binding[2]) # Fault
        /\ type = FromType(decl[2]) /\ type # Fault
        /\ got = FromValue(binding[2]) \/ got = Stored(FromValue(binding[2]))
    BY <2>1, <2>2 DEF CaseOK, InputsOK, Past
  <2>4. PICK into : Faithful(binding[2], into) /\ got = Relabel(binding[2], into)
    BY <2>3, ConvertedIs
  <2>5. QED BY <2>1, <2>3, <2>4, TypeKept
<1>2. QED BY <1>1, AlwaysCase, PTL

=============================================================================
