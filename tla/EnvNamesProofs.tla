--------------------------- MODULE EnvNamesProofs ---------------------------
(***************************************************************************)
(* Proofs about cel._env_names: for any set of environments, any include   *)
(* relation and any argument, the work list only ever returns the least    *)
(* closed set EnvUnion asks for, and raises only where EnvUnion does.      *)
(***************************************************************************)
EXTENDS EnvNames, FiniteSetTheorems, TLAPS

-----------------------------------------------------------------------------
\* A nonempty set of natural numbers has a least element.
LEMMA LeastOf ==
  ASSUME NEW T, T \subseteq Nat, T # {}
  PROVE  \E x \in T : \A y \in T : x <= y
<1>1. \A x, y \in Nat : <<y, x>> \in OpToRel(<, Nat) <=> y < x
  BY DEF OpToRel
<1>2. \E R : /\ IsWellFoundedOn(R, Nat)
             /\ \A x, y \in Nat : <<y, x>> \in R <=> y < x
  BY <1>1, NatLessThanWellFounded
<1>3. PICK R : /\ IsWellFoundedOn(R, Nat)
               /\ \A x, y \in Nat : <<y, x>> \in R <=> y < x
  BY <1>2
<1>4. \E x \in T : \A y \in T : ~ (<<y, x>> \in R)
  BY <1>3, WFMin
<1>5. PICK x \in T : \A y \in T : ~ (<<y, x>> \in R)
  BY <1>4
<1>6. ASSUME NEW y \in T PROVE x <= y
  <2>1. x \in Nat /\ y \in Nat /\ <<y, x>> \notin R
    BY <1>5
  <2>2. ~ (y < x)
    BY <1>3, <2>1
  <2>3. QED BY <2>1, <2>2
<1>7. QED BY <1>6

-----------------------------------------------------------------------------
\* What a sequence operation does to the names on a list.
LEMMA AmongEmpty == Among(<<>>) = {}
  BY DEF Among

LEMMA AmongAppend ==
  ASSUME NEW S, NEW s \in Seq(S), NEW x \in S
  PROVE  Among(Append(s, x)) = Among(s) \cup {x}
<1>1. Append(s, x) \in Seq(S) /\ Len(Append(s, x)) = Len(s) + 1
  OBVIOUS
<1>2. \A i \in 1..(Len(s) + 1) : Append(s, x)[i] = IF i <= Len(s) THEN s[i] ELSE x
  OBVIOUS
<1>3. Among(Append(s, x)) \subseteq Among(s) \cup {x}
  BY <1>1, <1>2 DEF Among
<1>4. Among(s) \subseteq Among(Append(s, x))
  <2>1. SUFFICES ASSUME NEW i \in 1..Len(s) PROVE s[i] \in Among(Append(s, x))
    BY DEF Among
  <2>2. i \in 1..(Len(s) + 1) /\ Append(s, x)[i] = s[i]
    BY <1>2
  <2> QED
    BY <1>1, <2>2 DEF Among
<1>5. x \in Among(Append(s, x))
  BY <1>1, <1>2, Len(s) + 1 \in 1..(Len(s) + 1) DEF Among
<1> QED
  BY <1>3, <1>4, <1>5

LEMMA AmongHead ==
  ASSUME NEW S, NEW s \in Seq(S), s # <<>>
  PROVE  /\ Head(s) \in S /\ Tail(s) \in Seq(S)
         /\ Among(s) = {Head(s)} \cup Among(Tail(s))
<1>1. Head(s) \in S /\ Tail(s) \in Seq(S) /\ Len(Tail(s)) = Len(s) - 1 /\ Len(s) >= 1
  OBVIOUS
<1>2. Head(s) = s[1] /\ \A i \in 1..(Len(s) - 1) : Tail(s)[i] = s[i + 1]
  OBVIOUS
<1>3. Among(s) \subseteq {Head(s)} \cup Among(Tail(s))
  <2>1. SUFFICES ASSUME NEW i \in 1..Len(s), i # 1 PROVE s[i] \in Among(Tail(s))
    BY <1>2 DEF Among
  <2>2. i - 1 \in 1..(Len(s) - 1) /\ Tail(s)[i - 1] = s[i]
    BY <2>1, <1>2
  <2> QED
    BY <1>1, <2>2 DEF Among
<1>4. Among(Tail(s)) \subseteq Among(s)
  <2>1. SUFFICES ASSUME NEW i \in 1..(Len(s) - 1) PROVE Tail(s)[i] \in Among(s)
    BY <1>1 DEF Among
  <2>2. i + 1 \in 1..Len(s)
    BY <1>1
  <2> QED
    BY <1>2, <2>2 DEF Among
<1>5. Head(s) \in Among(s)
  BY <1>1, <1>2, 1 \in 1..Len(s) DEF Among
<1> QED
  BY <1>1, <1>3, <1>4, <1>5

LEMMA AmongConcat ==
  ASSUME NEW S, NEW s \in Seq(S), NEW t \in Seq(S)
  PROVE  Among(s \o t) = Among(s) \cup Among(t)
<1>1. s \o t \in Seq(S) /\ Len(s \o t) = Len(s) + Len(t)
  OBVIOUS
<1>2. \A i \in 1..(Len(s) + Len(t)) :
        (s \o t)[i] = IF i <= Len(s) THEN s[i] ELSE t[i - Len(s)]
  OBVIOUS
<1>3. Among(s \o t) \subseteq Among(s) \cup Among(t)
  <2>1. SUFFICES ASSUME NEW i \in 1..(Len(s) + Len(t))
                 PROVE  (s \o t)[i] \in Among(s) \cup Among(t)
    BY <1>1 DEF Among
  <2>2. CASE i <= Len(s)
    BY <1>2, <2>2, i \in 1..Len(s) DEF Among
  <2>3. CASE ~ (i <= Len(s))
    BY <1>2, <2>3, i - Len(s) \in 1..Len(t) DEF Among
  <2> QED
    BY <2>2, <2>3
<1>4. Among(s) \subseteq Among(s \o t)
  <2>1. SUFFICES ASSUME NEW i \in 1..Len(s) PROVE s[i] \in Among(s \o t)
    BY DEF Among
  <2>2. i \in 1..(Len(s) + Len(t)) /\ (s \o t)[i] = s[i]
    BY <1>2
  <2> QED
    BY <1>1, <2>2 DEF Among
<1>5. Among(t) \subseteq Among(s \o t)
  <2>1. SUFFICES ASSUME NEW i \in 1..Len(t) PROVE t[i] \in Among(s \o t)
    BY DEF Among
  <2>2. i + Len(s) \in 1..(Len(s) + Len(t)) /\ (s \o t)[i + Len(s)] = t[i]
    BY <1>2
  <2> QED
    BY <1>1, <2>2 DEF Among
<1> QED
  BY <1>3, <1>4, <1>5

\* Whatever order an aggregate returns, it returns the rows and only those.
LEMMA OrdersComplete ==
  ASSUME NEW S \in SUBSET Names, NEW p \in Orders(S)
  PROVE  p \in Seq(Names) /\ Among(p) = S
<1>1. IsFiniteSet(S)
  BY NamesAssumption, FS_Subset
<1>2. Cardinality(S) \in Nat
  BY <1>1, FS_CardinalityType
<1>3. p \in [1..Cardinality(S) -> S]
  BY DEF Orders
<1>4. p \in Seq(S) /\ Len(p) = Cardinality(S)
  BY <1>2, <1>3
<1>5. p \in Seq(Names)
  BY <1>4
<1> QED
  BY <1>3, <1>4, <1>5 DEF Among, Orders

-----------------------------------------------------------------------------
\* Every variable keeps its type, for any environments, include relation and
\* argument length (cel._env_names).
THEOREM TypeCorrect == Spec => []TypeOK
<1>1. Init => TypeOK
  <2>1. SUFFICES ASSUME Init PROVE TypeOK
    OBVIOUS
  <2>2. PICK n \in 0..MaxGiven : given \in [1..n -> Names]
    BY <2>1 DEF Init, Arguments
  <2>3. given \in Seq(Names)
    <3>1. n \in Nat
      BY <2>2
    <3> QED
      BY <2>2, <3>1
  <2> QED
    BY <2>1, <2>3 DEF Init, TypeOK
<1>2. TypeOK /\ [Next]_vars => TypeOK'
  <2> SUFFICES ASSUME TypeOK, [Next]_vars PROVE TypeOK'
    OBVIOUS
  <2> USE DEF TypeOK
  <2>1. CASE Empty
    BY <2>1 DEF Empty
  <2>2. CASE Skip
    BY <2>2, AmongHead DEF Skip
  <2>3. CASE Visit
    <3>1. Head(pending) \in Known /\ Tail(pending) \in Seq(Names)
      BY <2>3, AmongHead DEF Visit
    <3>2. includes[Head(pending)] \in SUBSET Names
      BY <3>1, GraphAssumption
    <3>3. PICK extra \in Orders(includes[Head(pending)]) : pending' = Tail(pending) \o extra
      BY <2>3 DEF Visit
    <3>4. pending' \in Seq(Names)
      <4>1. extra \in Seq(Names)
        BY <3>2, <3>3, OrdersComplete
      <4> QED
        BY <3>1, <3>3, <4>1
    <3>5. seen' \in Seq(Known)
      BY <2>3, <3>1 DEF Visit
    <3> QED
      BY <2>3, <3>4, <3>5 DEF Visit
  <2>4. CASE Unresolved
    BY <2>4 DEF Unresolved
  <2>5. CASE Return
    BY <2>5 DEF Return
  <2>6. CASE UNCHANGED vars
    BY <2>6 DEF vars
  <2> QED
    BY <2>1, <2>2, <2>3, <2>4, <2>5, <2>6 DEF Next
<1> QED
  BY <1>1, <1>2, PTL DEF Spec

-----------------------------------------------------------------------------
\* The inductive invariant: the list of pending names is what separates the
\* seen ones from a closed set, and neither ever leaves the reach of the
\* argument.
InReach == Among(pending) \subseteq Union!Reach /\ Among(seen) \subseteq Union!Reach

Frontier ==
  /\ Among(given) \subseteq Among(seen) \cup Among(pending)
  /\ \A e \in Among(seen) : includes[e] \subseteq Among(seen) \cup Among(pending)

ListInv == TypeOK /\ InReach /\ Frontier /\ NoDuplicates

\* Reach has the argument and, with a known name, what that one includes.
LEMMA ReachClosed ==
  ASSUME TypeOK
  PROVE  /\ Among(given) \subseteq Union!Reach
         /\ \A e \in Union!Reach \cap Known : includes[e] \subseteq Union!Reach
<1>1. Among(given) \subseteq Names
  BY DEF TypeOK, Among
<1>2. \A e \in Known : includes[e] \subseteq Names
  BY GraphAssumption DEF TypeOK
<1>3. Union!Names = Names
  BY DEF Union!Names, Names
<1>4. Among(given) \subseteq Union!Reach
  BY <1>1, <1>3 DEF Union!Reach
<1>5. ASSUME NEW e \in Union!Reach \cap Known, NEW n \in includes[e]
      PROVE  n \in Union!Reach
  <2>1. n \in Names
    BY <1>2, <1>5
  <2>2. ASSUME NEW S \in SUBSET Names, Among(given) \subseteq S, Union!Closed(S)
        PROVE  n \in S
    <3>1. e \in S
      BY <1>3, <1>5, <2>2 DEF Union!Reach
    <3> QED
      BY <1>5, <2>2, <3>1 DEF Union!Closed
  <2> QED
    BY <1>3, <2>1, <2>2 DEF Union!Reach
<1> QED
  BY <1>4, <1>5

\* Once nothing is pending, the seen names are closed.
LEMMA SeenIsReach ==
  ASSUME ListInv, pending = <<>>
  PROVE  Union!Reach = Among(seen) /\ Among(seen) \subseteq Known
<1>1. Among(pending) = {}
  BY AmongEmpty
<1>2. Among(seen) \subseteq Known
  BY DEF ListInv, TypeOK, Among
<1>3. Union!Closed(Among(seen))
  BY <1>1 DEF ListInv, Frontier, Union!Closed
<1>4. Among(given) \subseteq Among(seen)
  BY <1>1 DEF ListInv, Frontier
<1>5. Among(seen) \in SUBSET Union!Names
  BY <1>2 DEF Union!Names
<1>6. Union!Reach \subseteq Among(seen)
  BY <1>3, <1>4, <1>5 DEF Union!Reach
<1> QED
  BY <1>2, <1>6 DEF ListInv, InReach

LEMMA ListInvariant == Spec => []ListInv
<1>1. Init /\ TypeOK => ListInv
  <2> SUFFICES ASSUME Init, TypeOK PROVE ListInv
    OBVIOUS
  <2>1. InReach
    BY ReachClosed, AmongEmpty DEF Init, InReach
  <2>2. Frontier
    BY AmongEmpty DEF Init, Frontier
  <2>3. NoDuplicates
    BY DEF Init, NoDuplicates
  <2> QED
    BY <2>1, <2>2, <2>3 DEF ListInv
<1>2. ListInv /\ TypeOK' /\ [Next]_vars => ListInv'
  <2> SUFFICES ASSUME ListInv, TypeOK', [Next]_vars PROVE ListInv'
    OBVIOUS
  <2>1. TypeOK
    BY DEF ListInv
  <2>2. includes' = includes /\ given' = given
    BY DEF Next, Empty, Skip, Visit, Unresolved, Return, vars
  <2>3. Union!Reach' = Union!Reach
    BY <2>2 DEF Union!Reach, Union!Closed, Among
  <2>4. CASE UNCHANGED <<pending, seen>>
    BY <2>2, <2>3, <2>4 DEF ListInv, InReach, Frontier, NoDuplicates, Among
  <2>5. CASE Skip
    <3>1. Among(pending) = {Head(pending)} \cup Among(pending')
      BY <2>1, <2>5, AmongHead DEF Skip, TypeOK
    <3>2. Among(seen') = Among(seen) /\ seen' = seen /\ Head(pending) \in Among(seen)
      BY <2>5 DEF Skip
    <3>3. InReach'
      BY <2>3, <3>1, <3>2 DEF ListInv, InReach, Among
    <3>4. Frontier'
      BY <2>2, <3>1, <3>2 DEF ListInv, Frontier, Among
    <3>5. NoDuplicates'
      BY <3>2 DEF ListInv, NoDuplicates
    <3> QED
      BY <3>3, <3>4, <3>5 DEF ListInv
  <2>6. CASE Visit
    <3> DEFINE e == Head(pending)
    <3>1. e \in Known /\ e \notin Among(seen) /\ seen' = Append(seen, e) /\ pending # <<>>
      BY <2>6 DEF Visit
    <3>2. Tail(pending) \in Seq(Names) /\ Among(pending) = {e} \cup Among(Tail(pending))
      BY <2>1, <3>1, AmongHead DEF TypeOK
    <3>3. includes[e] \in SUBSET Names
      BY <2>1, <3>1, GraphAssumption DEF TypeOK
    <3>4. PICK extra \in Orders(includes[e]) : pending' = Tail(pending) \o extra
      BY <2>6 DEF Visit
    <3>5. Among(pending') = Among(Tail(pending)) \cup includes[e]
      <4>1. extra \in Seq(Names) /\ Among(extra) = includes[e]
        BY <3>3, OrdersComplete
      <4>2. Among(Tail(pending) \o extra) = Among(Tail(pending)) \cup Among(extra)
        <5>1. \A s, t \in Seq(Names) : Among(s \o t) = Among(s) \cup Among(t)
          BY AmongConcat, Zenon
        <5> QED
          BY <3>2, <4>1, <5>1
      <4>3. Among(pending') = Among(Tail(pending) \o extra)
        BY <3>4 DEF Among
      <4> QED
        BY <4>1, <4>2, <4>3
    <3>6. Among(seen') = Among(seen) \cup {e}
      BY <2>1, <3>1, AmongAppend DEF TypeOK
    <3>7. e \in Union!Reach
      BY <3>2 DEF ListInv, InReach
    <3>8. includes[e] \subseteq Union!Reach
      BY <2>1, <3>1, <3>7, ReachClosed
    <3>9. InReach'
      <4>1. Among(pending') \subseteq Union!Reach
        BY <3>2, <3>5, <3>8 DEF ListInv, InReach
      <4>2. Among(seen') \subseteq Union!Reach
        BY <3>6, <3>7 DEF ListInv, InReach
      <4> QED
        BY <2>3, <4>1, <4>2 DEF InReach, Among
    <3>10. Frontier'
      <4>1. Among(given) \subseteq Among(seen') \cup Among(pending')
        BY <3>2, <3>5, <3>6 DEF ListInv, Frontier
      <4>2. \A x \in Among(seen') : includes[x] \subseteq Among(seen') \cup Among(pending')
        BY <3>2, <3>5, <3>6 DEF ListInv, Frontier
      <4> QED
        BY <2>2, <4>1, <4>2 DEF Frontier, Among
    <3>11. NoDuplicates'
      <4>1. seen \in Seq(Known) /\ Len(seen') = Len(seen) + 1
        BY <2>1, <3>1 DEF TypeOK
      <4>2. \A i \in 1..(Len(seen) + 1) : seen'[i] = IF i <= Len(seen) THEN seen[i] ELSE e
        BY <2>1, <3>1 DEF TypeOK
      <4>3. \A i \in 1..Len(seen) : seen[i] # e
        BY <3>1 DEF Among
      <4> QED
        BY <4>1, <4>2, <4>3 DEF ListInv, NoDuplicates
    <3> QED
      BY <3>9, <3>10, <3>11 DEF ListInv
  <2> QED
    BY <2>4, <2>5, <2>6 DEF Next, Empty, Unresolved, Return, vars
<1> QED
  BY <1>1, <1>2, TypeCorrect, PTL DEF Spec

\* The answer never lists an environment twice (cel._env_names, the test
\* against seen).
THEOREM NamesDistinct == Spec => []NoDuplicates
<1>1. ListInv => NoDuplicates
  BY DEF ListInv
<1> QED
  BY <1>1, ListInvariant, PTL

-----------------------------------------------------------------------------
(***************************************************************************)
(* The order of the answer. The names of the argument are taken off the    *)
(* list before anything that is queued behind them, so the answer starts   *)
(* with them, each at its first occurrence, and the included ones follow.  *)
(***************************************************************************)
FirstAt(i) == \A j \in 1..(i - 1) : given[j] # given[i]

GivenFirst ==
  \A k, l \in 1..Len(seen) : k < l /\ seen[l] \in Among(given) => seen[k] \in Among(given)

GivenOrder ==
  \A i, j \in 1..Len(given), k, l \in 1..Len(seen) :
    /\ FirstAt(i) /\ FirstAt(j) /\ i < j
    /\ seen[k] = given[i] /\ seen[l] = given[j]
    => k < l

\* The first t names of the argument are off the list, and nothing else is
\* while others of them are left.
Taken(t) ==
  /\ Len(given) - t <= Len(pending)
  /\ \A i \in 1..(Len(given) - t) : pending[i] = given[t + i]
  /\ \A i \in 1..t : given[i] \in Among(seen)
  /\ t < Len(given) => \A k \in 1..Len(seen) : \E i \in 1..t : seen[k] = given[i]

OrderInv ==
  /\ GivenFirst /\ GivenOrder
  /\ \E t \in 0..Len(given) : Taken(t)
  /\ outcome = "returned" => pending = <<>>

\* The list after its head is gone and extra is queued.
LEMMA Requeued ==
  ASSUME NEW s \in Seq(Names), s # <<>>, NEW extra \in Seq(Names)
  PROVE  /\ Len(s) \in Nat /\ Len(s) >= 1 /\ Head(s) = s[1]
         /\ Len(Tail(s) \o extra) >= Len(s) - 1
         /\ \A i \in 1..(Len(s) - 1) : (Tail(s) \o extra)[i] = s[i + 1]
<1>1. Tail(s) \in Seq(Names) /\ Len(Tail(s)) = Len(s) - 1 /\ Len(s) \in Nat /\ Len(s) >= 1
  OBVIOUS
<1>2. \A i \in 1..(Len(s) - 1) : Tail(s)[i] = s[i + 1]
  OBVIOUS
<1>3. Len(extra) \in Nat /\ Len(Tail(s) \o extra) = Len(Tail(s)) + Len(extra)
  BY <1>1
<1>4. \A i \in 1..Len(Tail(s)) : (Tail(s) \o extra)[i] = Tail(s)[i]
  BY <1>1
<1>5. QED BY <1>1, <1>2, <1>3, <1>4

\* What one turn of the loop does to the names still to be taken.
LEMMA TakenNext ==
  ASSUME NEW m \in Nat, NEW p, NEW q, NEW t \in 0..m,
         Len(p) \in Nat, Len(q) \in Nat, Len(q) >= Len(p) - 1, Len(p) >= 1,
         \A i \in 1..(Len(p) - 1) : q[i] = p[i + 1],
         m - t <= Len(p), NEW g, \A i \in 1..(m - t) : p[i] = g[t + i]
  PROVE  /\ t < m => /\ p[1] = g[t + 1] /\ m - (t + 1) <= Len(q)
                     /\ \A i \in 1..(m - (t + 1)) : q[i] = g[(t + 1) + i]
         /\ t = m => m - t <= Len(q) /\ \A i \in 1..(m - t) : q[i] = g[t + i]
<1>1. ASSUME t < m
      PROVE  /\ p[1] = g[t + 1] /\ m - (t + 1) <= Len(q)
             /\ \A i \in 1..(m - (t + 1)) : q[i] = g[(t + 1) + i]
  <2>1. 1 \in 1..(m - t)
    BY <1>1
  <2>2. p[1] = g[t + 1]
    BY <2>1
  <2>3. ASSUME NEW i \in 1..(m - (t + 1)) PROVE q[i] = g[(t + 1) + i]
    <3>1. i \in 1..(Len(p) - 1) /\ i + 1 \in 1..(m - t) /\ t + (i + 1) = (t + 1) + i
      BY <1>1
    <3>2. QED BY <3>1
  <2>4. QED BY <1>1, <2>2, <2>3
<1>2. QED BY <1>1

LEMMA OrderPrimed ==
  ASSUME given' = given,
         \A i, j \in 1..Len(given), k, l \in 1..Len(seen') :
           FirstAt(i) /\ FirstAt(j) /\ i < j /\ seen'[k] = given[i] /\ seen'[l] = given[j]
           => k < l
  PROVE  GivenOrder'
<1>1. \A i \in 1..Len(given) : FirstAt(i)' <=> FirstAt(i)
  BY DEF FirstAt
<1>2. QED BY <1>1 DEF GivenOrder

LEMMA OrderSkip ==
  ASSUME TypeOK, OrderInv, Skip
  PROVE  OrderInv'
<1>1. pending \in Seq(Names) /\ pending # <<>> /\ Head(pending) \in Among(seen)
      /\ pending' = Tail(pending) /\ seen' = seen /\ given' = given /\ outcome' = outcome
      /\ outcome = "running" /\ Len(given) \in Nat
  BY DEF Skip, TypeOK
<1>2. /\ Len(pending) \in Nat /\ Len(pending) >= 1 /\ Head(pending) = pending[1]
      /\ Len(pending') = Len(pending) - 1
      /\ Len(pending') \in Nat /\ Len(pending') >= Len(pending) - 1
      /\ \A i \in 1..(Len(pending) - 1) : pending'[i] = pending[i + 1]
  BY <1>1
<1>3. GivenFirst' /\ GivenOrder'
  BY <1>1 DEF OrderInv, GivenFirst, GivenOrder, FirstAt, Among
<1>4. PICK t \in 0..Len(given) : Taken(t)
  BY DEF OrderInv
<1>5. /\ Len(given) - t <= Len(pending)
      /\ \A i \in 1..(Len(given) - t) : pending[i] = given[t + i]
  BY <1>4 DEF Taken
<1>6. /\ Len(pending) \in Nat /\ Len(pending') \in Nat /\ Len(pending) >= 1
      /\ Len(pending') >= Len(pending) - 1
      /\ \A i \in 1..(Len(pending) - 1) : pending'[i] = pending[i + 1]
  BY <1>2
<1>7. CASE t < Len(given)
  <2>1. /\ pending[1] = given[t + 1]
        /\ Len(given) - (t + 1) <= Len(pending')
        /\ \A i \in 1..(Len(given) - (t + 1)) : pending'[i] = given[(t + 1) + i]
    BY <1>1, <1>7, <1>5, <1>6, TakenNext
  <2>2. \A i \in 1..(t + 1) : given[i] \in Among(seen)
    <3>1. \A i \in 1..(t + 1) : i \in 1..t \/ i = t + 1
      BY <1>1
    <3>2. QED BY <1>1, <1>2, <1>4, <2>1, <3>1 DEF Taken
  <2>3. \A k \in 1..Len(seen) : \E i \in 1..(t + 1) : seen[k] = given[i]
    <3>1. \A i \in 1..t : i \in 1..(t + 1)
      BY <1>1
    <3>2. QED BY <1>4, <1>7, <3>1 DEF Taken
  <2>4. Taken(t + 1)'
    BY <1>1, <2>1, <2>2, <2>3 DEF Taken, Among
  <2>5. t + 1 \in 0..Len(given')
    BY <1>1, <1>7
  <2>6. QED BY <1>1, <1>3, <2>4, <2>5 DEF OrderInv
<1>8. CASE t = Len(given)
  <2>1. Taken(t)'
    <3>1. ~ (t < Len(given)) /\ \A i \in 1..t : given[i] \in Among(seen)
      BY <1>1, <1>4, <1>8 DEF Taken
    <3>2. Len(given) - t <= Len(pending') /\ \A i \in 1..(Len(given) - t) : pending'[i] = given[t + i]
      BY <1>1, <1>8, <1>6
    <3>3. QED BY <1>1, <3>1, <3>2 DEF Taken, Among
  <2>2. QED BY <1>1, <1>3, <2>1 DEF OrderInv
<1>9. QED BY <1>1, <1>7, <1>8

LEMMA OrderVisit ==
  ASSUME TypeOK, OrderInv, Visit
  PROVE  OrderInv'
<1> DEFINE e == Head(pending)
           n == Len(seen)
<1>1. /\ pending \in Seq(Names) /\ pending # <<>> /\ e \in Known /\ e \notin Among(seen)
      /\ seen \in Seq(Known) /\ seen' = Append(seen, e) /\ given' = given
      /\ outcome = "running" /\ outcome' = outcome /\ Len(given) \in Nat /\ n \in Nat
  BY DEF Visit, TypeOK
<1>2. PICK extra \in Orders(includes[e]) : pending' = Tail(pending) \o extra
  BY DEF Visit
<1>3. extra \in Seq(Names)
  <2>1. includes[e] \in SUBSET Names
    BY <1>1, GraphAssumption DEF TypeOK
  <2>2. QED BY <2>1, OrdersComplete
<1>4. /\ Len(pending) \in Nat /\ Len(pending) >= 1 /\ e = pending[1]
      /\ Len(pending') >= Len(pending) - 1 /\ Len(pending') \in Nat
      /\ \A i \in 1..(Len(pending) - 1) : pending'[i] = pending[i + 1]
  BY <1>1, <1>2, <1>3, Requeued
<1>5. /\ Len(seen') = n + 1 /\ seen'[n + 1] = e
      /\ \A k \in 1..n : seen'[k] = seen[k]
      /\ \A k \in 1..(n + 1) : k \in 1..n \/ k = n + 1
      /\ Among(seen') = Among(seen) \cup {e}
      /\ Among(given') = Among(given)
  BY <1>1, AmongAppend
<1>6. \A k \in 1..n : seen[k] \in Among(seen) /\ seen[k] # e
  BY <1>1 DEF Among
<1>7. PICK t \in 0..Len(given) : Taken(t)
  BY DEF OrderInv
<1>8. CASE t < Len(given)
  <2>1. /\ e = given[t + 1]
        /\ Len(given) - (t + 1) <= Len(pending')
        /\ \A i \in 1..(Len(given) - (t + 1)) : pending'[i] = given[(t + 1) + i]
    <3>1. /\ Len(given) - t <= Len(pending)
          /\ \A i \in 1..(Len(given) - t) : pending[i] = given[t + i]
      BY <1>7 DEF Taken
    <3>2. /\ Len(pending) \in Nat /\ Len(pending') \in Nat /\ Len(pending) >= 1
          /\ Len(pending') >= Len(pending) - 1
          /\ \A i \in 1..(Len(pending) - 1) : pending'[i] = pending[i + 1]
      BY <1>4
    <3>3. Len(given) \in Nat
      BY <1>1
    <3>4. /\ pending[1] = given[t + 1]
          /\ Len(given) - (t + 1) <= Len(pending')
          /\ \A i \in 1..(Len(given) - (t + 1)) : pending'[i] = given[(t + 1) + i]
      <4>1. t \in 0..Len(given) /\ t < Len(given)
        BY <1>8
      <4>2. Len(pending) - 1 >= Len(given) - (t + 1) /\ 1 \in 1..(Len(given) - t)
        BY <3>1, <3>2, <3>3, <4>1
      <4>3. ASSUME NEW i \in 1..(Len(given) - (t + 1))
            PROVE  pending'[i] = given[(t + 1) + i]
        <5>1. i \in 1..(Len(pending) - 1) /\ i + 1 \in 1..(Len(given) - t)
              /\ t + (i + 1) = (t + 1) + i
          BY <3>2, <3>3, <4>1, <4>2
        <5>2. pending'[i] = pending[i + 1]
          BY <3>2, <5>1
        <5>3. pending[i + 1] = given[t + (i + 1)]
          BY <3>1, <5>1
        <5>4. QED BY <5>1, <5>2, <5>3
      <4>4. pending[1] = given[t + 1]
        BY <3>1, <4>2
      <4>5. QED BY <3>2, <3>3, <4>1, <4>2, <4>3, <4>4
    <3>5. QED BY <1>4, <3>4
  <2>2. /\ \A i \in 1..(t + 1) : i \in 1..t \/ i = t + 1
        /\ \A i \in 1..t : i \in 1..(t + 1) /\ i \in 1..Len(given)
        /\ t + 1 \in 1..Len(given) /\ t + 1 \in 1..(t + 1) /\ t \in Nat
    BY <1>1, <1>8
  <2>3. /\ \A i \in 1..t : given[i] \in Among(seen)
        /\ \A k \in 1..n : \E i \in 1..t : seen[k] = given[i]
    BY <1>7, <1>8 DEF Taken
  <2>4. Taken(t + 1)'
    <3>1. \A i \in 1..(t + 1) : given[i] \in Among(seen')
      BY <1>5, <2>1, <2>2, <2>3
    <3>2. \A k \in 1..(n + 1) : \E i \in 1..(t + 1) : seen'[k] = given[i]
      BY <1>5, <2>1, <2>2, <2>3
    <3>3. QED BY <1>1, <1>5, <2>1, <3>1, <3>2 DEF Taken
  <2>5. GivenFirst'
    <3>1. \A k \in 1..n : seen[k] \in Among(given)
      BY <2>2, <2>3 DEF Among
    <3>2. e \in Among(given)
      BY <2>1, <2>2 DEF Among
    <3>3. \A k \in 1..Len(seen') : seen'[k] \in Among(given')
      BY <1>5, <3>1, <3>2
    <3>4. QED BY <3>3 DEF GivenFirst
  <2>6. GivenOrder'
    <3> SUFFICES \A i, j \in 1..Len(given), k, l \in 1..Len(seen') :
                   FirstAt(i) /\ FirstAt(j) /\ i < j /\ seen'[k] = given[i] /\ seen'[l] = given[j]
                   => k < l
      BY <1>1, OrderPrimed
    <3> SUFFICES ASSUME NEW i \in 1..Len(given), NEW j \in 1..Len(given),
                        NEW k \in 1..(n + 1), NEW l \in 1..(n + 1),
                        FirstAt(i), FirstAt(j), i < j,
                        seen'[k] = given[i], seen'[l] = given[j]
                 PROVE  k < l
      BY <1>5
    <3>1. given[i] # given[j]
      <4>1. i \in 1..(j - 1)
        BY <1>1
      <4>2. QED BY <4>1 DEF FirstAt
    <3>2. CASE k \in 1..n /\ l \in 1..n
      BY <1>5, <3>2 DEF OrderInv, GivenOrder
    <3>3. CASE k \in 1..n /\ l = n + 1
      BY <1>1, <3>3
    <3>4. CASE k = n + 1
      <4>1. l \in 1..n /\ given[i] = e
        BY <1>5, <3>1, <3>4
      <4>2. PICK x \in 1..t : seen[l] = given[x]
        BY <2>3, <4>1
      <4>3. given[x] = given[j] /\ ~ (x < j)
        <5>1. given[x] = given[j]
          BY <1>5, <4>1, <4>2
        <5>2. x < j => x \in 1..(j - 1)
          BY <1>1, <2>2
        <5>3. QED BY <5>1, <5>2 DEF FirstAt
      <4>4. i \in 1..t
        BY <1>1, <2>2, <4>2, <4>3
      <4>5. QED BY <1>1, <2>3, <4>1, <4>4
    <3>5. QED BY <1>5, <3>2, <3>3, <3>4
  <2>7. QED BY <1>1, <2>2, <2>4, <2>5, <2>6 DEF OrderInv
<1>9. CASE t = Len(given)
  <2>1. \A i \in 1..Len(given) : given[i] \in Among(seen)
    BY <1>7, <1>9 DEF Taken
  <2>2. e \notin Among(given)
    BY <1>1, <2>1 DEF Among
  <2>3. Taken(t)'
    <3>1. Len(given) - t <= Len(pending') /\ \A i \in 1..(Len(given) - t) : pending'[i] = given[t + i]
      BY <1>1, <1>4, <1>9
    <3>2. \A i \in 1..t : given[i] \in Among(seen')
      BY <1>5, <1>9, <2>1
    <3>3. ~ (t < Len(given'))
      BY <1>1, <1>9
    <3>4. QED BY <1>1, <3>1, <3>2, <3>3 DEF Taken
  <2>4. GivenFirst'
    <3> SUFFICES ASSUME NEW k \in 1..(n + 1), NEW l \in 1..(n + 1), k < l,
                        seen'[l] \in Among(given)
                 PROVE  seen'[k] \in Among(given)
      BY <1>5 DEF GivenFirst
    <3>1. l \in 1..n
      BY <1>5, <2>2
    <3>2. k \in 1..n
      BY <1>1, <3>1
    <3>3. QED BY <1>5, <3>1, <3>2 DEF OrderInv, GivenFirst
  <2>5. GivenOrder'
    <3> SUFFICES \A i, j \in 1..Len(given), k, l \in 1..Len(seen') :
                   FirstAt(i) /\ FirstAt(j) /\ i < j /\ seen'[k] = given[i] /\ seen'[l] = given[j]
                   => k < l
      BY <1>1, OrderPrimed
    <3> SUFFICES ASSUME NEW i \in 1..Len(given), NEW j \in 1..Len(given),
                        NEW k \in 1..(n + 1), NEW l \in 1..(n + 1),
                        FirstAt(i), FirstAt(j), i < j,
                        seen'[k] = given[i], seen'[l] = given[j]
                 PROVE  k < l
      BY <1>5
    <3>1. given[i] \in Among(given) /\ given[j] \in Among(given)
      BY DEF Among
    <3>2. k \in 1..n /\ l \in 1..n
      BY <1>5, <2>2, <3>1
    <3>3. QED BY <1>5, <3>2 DEF OrderInv, GivenOrder
  <2>6. QED BY <1>1, <2>3, <2>4, <2>5 DEF OrderInv
<1>10. QED BY <1>1, <1>8, <1>9

LEMMA OrderInvariant == Spec => []OrderInv
<1>1. Init /\ TypeOK => OrderInv
  <2> SUFFICES ASSUME Init, TypeOK PROVE OrderInv
    OBVIOUS
  <2>1. /\ pending = given /\ seen = <<>> /\ Len(seen) = 0 /\ outcome = "running"
        /\ Len(given) \in Nat
    BY DEF Init, TypeOK
  <2>2. Taken(0)
    BY <2>1 DEF Taken
  <2>3. 0 \in 0..Len(given)
    BY <2>1
  <2>4. GivenFirst /\ GivenOrder
    BY <2>1 DEF GivenFirst, GivenOrder
  <2>5. QED BY <2>1, <2>2, <2>3, <2>4 DEF OrderInv
<1>2. TypeOK /\ OrderInv /\ [Next]_vars => OrderInv'
  <2> SUFFICES ASSUME TypeOK, OrderInv, [Next]_vars PROVE OrderInv'
    OBVIOUS
  <2>1. CASE Skip
    BY <2>1, OrderSkip
  <2>2. CASE Visit
    BY <2>2, OrderVisit
  <2>3. CASE UNCHANGED <<given, pending, seen>> /\ (outcome' = "returned" => pending = <<>>)
    BY <2>3 DEF OrderInv, GivenFirst, GivenOrder, FirstAt, Taken, Among
  <2>4. CASE Empty \/ Unresolved \/ Return \/ UNCHANGED vars
    BY <2>3, <2>4 DEF Empty, Unresolved, Return, vars, OrderInv
  <2>5. QED BY <2>1, <2>2, <2>4 DEF Next
<1>3. QED BY <1>1, <1>2, TypeCorrect, PTL DEF Spec

\* Which environment decides a flag (cel._env_flags over cel._env_names): an
\* included one before any of the caller's own, and of the caller's own the
\* one first named last; for any argument and any include relation.
THEOREM PrecedenceHolds == Spec => []FlagPrecedence
<1>1. TypeOK /\ OrderInv => FlagPrecedence
  <2> DEFINE own == {i \in 1..Len(given) : given[i] \in Setters}
             first == {i \in own : \A j \in own : given[j] = given[i] => i <= j}
             included == (Among(seen) \cap Setters) \ Among(given)
             at == {i \in 1..Len(seen) : seen[i] \in Setters}
  <2> SUFFICES ASSUME TypeOK, OrderInv, outcome = "returned",
                      NEW m \in at, \A k \in at : k <= m
               PROVE  seen[m] \in IF included # {} THEN included
                                  ELSE {given[i] : i \in {j \in first : \A k \in first : k <= j}}
    BY DEF FlagPrecedence, FlagFrom
  <2>1. Len(given) \in Nat /\ Len(seen) \in Nat /\ seen[m] \in Among(seen) \cap Setters
    BY DEF TypeOK, Among
  <2>2. PICK t \in 0..Len(given) : Taken(t)
    BY DEF OrderInv
  <2>3. \A i \in 1..Len(given) : given[i] \in Among(seen)
    <3>1. pending = <<>> /\ Len(pending) = 0
      BY DEF OrderInv
    <3>2. t = Len(given)
      BY <2>1, <2>2, <3>1 DEF Taken
    <3>3. QED BY <2>2, <3>2 DEF Taken
  <2>4. CASE included # {}
    <3>1. PICK l \in at : seen[l] \notin Among(given)
      <4>1. PICK y : y \in included
        BY <2>4
      <4>2. PICK l \in 1..Len(seen) : y = seen[l]
        BY <4>1 DEF Among
      <4>3. QED BY <4>1, <4>2
    <3>2. l = m \/ l < m
      BY <2>1, <3>1
    <3>3. seen[m] \notin Among(given)
      BY <3>1, <3>2 DEF OrderInv, GivenFirst
    <3>4. QED BY <2>1, <2>4, <3>3
  <2>5. CASE included = {}
    <3> DEFINE same == {i \in 1..Len(given) : given[i] = seen[m]}
    <3>1. seen[m] \in Among(given)
      BY <2>1, <2>5
    <3>2. same # {} /\ same \subseteq Nat
      BY <3>1 DEF Among
    <3>3. PICK i \in same : \A j \in same : i <= j
      <4> HIDE DEF same
      <4>1. QED BY <3>2, LeastOf
    <3>4. i \in own /\ given[i] = seen[m] /\ i \in 1..Len(given)
      BY <2>1, <3>3
    <3>5. i \in first
      BY <3>3, <3>4
    <3>6. FirstAt(i)
      <4>1. \A j \in 1..(i - 1) : j \in 1..Len(given) /\ ~ (i <= j)
        BY <2>1, <3>4
      <4>2. QED BY <3>3, <3>4, <4>1 DEF FirstAt
    <3>7. ASSUME NEW k \in first PROVE k <= i
      <4>1. k \in 1..Len(given) /\ given[k] \in Setters
        OBVIOUS
      <4>2. FirstAt(k)
        <5>1. \A j \in 1..(k - 1) : j \in 1..Len(given) /\ ~ (k <= j)
          BY <2>1, <4>1
        <5>2. QED BY <4>1, <5>1 DEF FirstAt
      <4>3. PICK l \in 1..Len(seen) : seen[l] = given[k]
        BY <2>3, <4>1 DEF Among
      <4>4. l <= m /\ ~ (m < l)
        BY <2>1, <4>1, <4>3
      <4>5. ~ (i < k)
        BY <3>4, <3>6, <4>1, <4>2, <4>3, <4>4 DEF OrderInv, GivenOrder
      <4>6. QED BY <2>1, <3>4, <4>1, <4>5
    <3>8. QED BY <2>5, <3>4, <3>5, <3>7
  <2>6. QED BY <2>4, <2>5
<1>2. QED BY <1>1, OrderInvariant, TypeCorrect, PTL

-----------------------------------------------------------------------------
\* The safety part of ComputesUnion, for every include relation and argument:
\* what the work list returns is the least closed set, and it raises only
\* when the argument is empty or reaches an unknown name.
UnionSafety == Union!Init /\ [][Union!Next]_(Union!vars)

THEOREM ImplementsUnion == Spec => UnionSafety
<1>1. Init /\ TypeOK => Union!Init
  <2> SUFFICES ASSUME Init, TypeOK PROVE Union!Init
    OBVIOUS
  <2>1. Among(given) \in SUBSET Union!Names
    BY DEF TypeOK, Among, Union!Names, Names
  <2>2. includes \in [Known -> SUBSET Union!Names]
    BY GraphAssumption DEF Init, Union!Names, Names
  <2> QED
    BY <2>1, <2>2 DEF Init, Union!Init
<1>2. ListInv /\ [Next]_vars => [Union!Next]_(Union!vars)
  <2> SUFFICES ASSUME ListInv, [Next]_vars PROVE [Union!Next]_(Union!vars)
    OBVIOUS
  <2>1. includes' = includes /\ given' = given
    BY DEF Next, Empty, Skip, Visit, Unresolved, Return, vars
  <2>2. Among(given') = Among(given)
    BY <2>1
  <2>3. CASE Empty
    <3>1. Among(given) = {} /\ outcome = "running" /\ outcome' = "raised"
      BY <2>3, AmongEmpty DEF Empty
    <3>2. Union!Raise
      BY <2>1, <3>1 DEF Union!Raise, Among
    <3> QED
      BY <3>2 DEF Union!Next
  <2>4. CASE Unresolved
    <3>1. Head(pending) \in Among(pending) /\ Head(pending) \notin Known
      BY <2>4, AmongHead DEF Unresolved, ListInv, TypeOK
    <3>2. ~ Union!Reach \subseteq Known
      BY <3>1 DEF ListInv, InReach
    <3>3. outcome = "running" /\ outcome' = "raised"
      BY <2>4 DEF Unresolved
    <3>4. Union!Raise
      BY <2>1, <3>2, <3>3 DEF Union!Raise, Among
    <3> QED
      BY <3>4 DEF Union!Next
  <2>5. CASE Return
    <3>1. pending = <<>> /\ given # <<>> /\ outcome = "running" /\ outcome' = "returned"
          /\ seen' = seen
      BY <2>5 DEF Return
    <3>2. Union!Reach = Among(seen) /\ Among(seen) \subseteq Known
      BY <3>1, SeenIsReach
    <3>3. Among(given) # {}
      <4>1. given \in Seq(Names)
        BY DEF ListInv, TypeOK
      <4>2. Among(given) = {Head(given)} \cup Among(Tail(given))
        BY <3>1, <4>1, AmongHead
      <4> QED
        BY <4>2
    <3>4. Union!Return
      BY <2>1, <3>1, <3>2, <3>3 DEF Union!Return, Among
    <3> QED
      BY <3>4 DEF Union!Next
  <2>6. CASE Skip \/ Visit
    <3>1. outcome = "running" /\ outcome' = outcome
      BY <2>6 DEF Skip, Visit
    <3> QED
      BY <2>1, <2>2, <3>1 DEF Union!vars
  <2>7. CASE UNCHANGED vars
    BY <2>1, <2>2, <2>7 DEF vars, Union!vars, Among
  <2> QED
    BY <2>3, <2>4, <2>5, <2>6, <2>7 DEF Next
<1> QED
  BY <1>1, <1>2, TypeCorrect, ListInvariant, PTL DEF Spec, UnionSafety
=============================================================================
