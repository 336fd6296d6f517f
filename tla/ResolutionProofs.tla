------------------------- MODULE ResolutionProofs -------------------------
(***************************************************************************)
(* Proofs about Resolution, for every alphabet of segments, every depth of *)
(* container and nesting, and every set of declared and bound names. The   *)
(* two searches are first reduced to one notion, the reading of m segments *)
(* p deep in the container; the invariant then says of which kind the node *)
(* is, and how far the evaluator has looked.                               *)
(***************************************************************************)
EXTENDS Resolution, WellFoundedInduction, SequenceTheorems, TLAPS

-----------------------------------------------------------------------------
(***************************************************************************)
(* Induction over an interval of the natural numbers, as facts about sets: *)
(* the induction theorems of the library take an operator, these take the  *)
(* set of the numbers for which the claim holds.                           *)
(***************************************************************************)
\* A nonempty set of natural numbers has a least element.
LEMMA LeastOf ==
  ASSUME NEW T, T \subseteq Nat, T # {}
  PROVE  \E x \in T : \A y \in T : x <= y
<1>1. \A x, y \in Nat : <<y, x>> \in OpToRel(<, Nat) <=> y < x
  BY DEF OpToRel
<1>2. \E R : /\ IsWellFoundedOn(R, Nat)
             /\ \A x, y \in Nat : <<y, x>> \in R <=> y < x
  BY <1>1, NatLessThanWellFounded
<1>3. PICK R : /\ IsWellFoundedOn(R, Nat)
               /\ \A x, y \in Nat : <<y, x>> \in R <=> y < x
  BY <1>2
<1>4. \E x \in T : \A y \in T : ~ (<<y, x>> \in R)
  BY <1>3, WFMin
<1>5. PICK x \in T : \A y \in T : ~ (<<y, x>> \in R)
  BY <1>4
<1>6. ASSUME NEW y \in T PROVE x <= y
  <2>1. x \in Nat /\ y \in Nat /\ <<y, x>> \notin R
    BY <1>5
  <2>2. ~ (y < x)
    BY <1>3, <2>1
  <2>3. QED BY <2>1, <2>2
<1>7. QED BY <1>6

\* Induction from 0 to h; G is where the claim holds.
LEMMA UpTo ==
  ASSUME NEW h \in Nat, NEW G, 0 \in G,
         \A j \in 0..(h - 1) : j \in G => j + 1 \in G
  PROVE  \A j \in 0..h : j \in G
<1> DEFINE Bad == {j \in 0..h : j \notin G}
<1>1. Bad \subseteq Nat
  OBVIOUS
<1>2. SUFFICES ASSUME Bad # {} PROVE FALSE
  OBVIOUS
<1>3. PICK w \in Bad : \A y \in Bad : w <= y
  <2> HIDE DEF Bad
  <2> QED BY <1>1, <1>2, LeastOf
<1>4. w \in 0..h /\ w \notin G /\ w # 0
  OBVIOUS
<1>5. w - 1 \in 0..(h - 1) /\ w - 1 \in 0..h
  BY <1>4
<1>6. w - 1 \notin Bad
  <2>1. w - 1 < w
    BY <1>4
  <2>2. QED BY <1>3, <1>4, <1>5, <2>1
<1>7. w - 1 \in G
  BY <1>5, <1>6
<1>8. (w - 1) + 1 \in G
  BY <1>5, <1>7
<1>9. QED BY <1>4, <1>8

\* A nonempty set of numbers up to h has a greatest element.
LEMMA GreatestOf ==
  ASSUME NEW h \in Nat, NEW S, S \subseteq 0..h, S # {}
  PROVE  \E x \in S : \A y \in S : y <= x
<1> DEFINE T == {i \in 0..h : h - i \in S}
<1>1. T \subseteq Nat
  OBVIOUS
<1>2. T # {}
  <2>1. PICK s \in S : TRUE
    OBVIOUS
  <2>2. h - s \in 0..h /\ h - (h - s) = s
    BY <2>1
  <2>3. QED BY <2>2
<1>3. PICK x \in T : \A y \in T : x <= y
  <2> HIDE DEF T
  <2> QED BY <1>1, <1>2, LeastOf
<1>4. h - x \in S
  OBVIOUS
<1>5. ASSUME NEW y \in S PROVE y <= h - x
  <2>1. h - y \in 0..h /\ h - (h - y) = y
    OBVIOUS
  <2>2. h - y \in T
    BY <2>1
  <2>3. QED BY <1>3, <2>1, <2>2
<1>6. QED BY <1>4, <1>5

\* The recursive function that concatenates g[1] to g[h], defined as TLA+
\* defines it, satisfies its defining equation.
Concats(g, h) == CHOOSE f : f = [j \in 0..h |-> IF j = 0 THEN <<>> ELSE f[j - 1] \o g[j]]

LEMMA ConcatsUnfold ==
  ASSUME NEW g, NEW h \in Nat
  PROVE  Concats(g, h) = [j \in 0..h |-> IF j = 0 THEN <<>> ELSE Concats(g, h)[j - 1] \o g[j]]
<1> DEFINE Solves(f, w) == f = [j \in 0..w |-> IF j = 0 THEN <<>> ELSE f[j - 1] \o g[j]]
           G == {w \in 0..h : \E f : Solves(f, w)}
<1>1. 0 \in G
  <2>1. Solves([j \in 0..0 |-> <<>>], 0)
    OBVIOUS
  <2>2. 0 \in 0..h
    OBVIOUS
  <2>3. QED BY <2>1, <2>2
<1>2. ASSUME NEW w \in 0..(h - 1), w \in G PROVE w + 1 \in G
  <2>1. PICK f : Solves(f, w)
    BY <1>2
  <2> DEFINE d == [j \in 0..(w + 1) |-> IF j = w + 1 THEN f[w] \o g[w + 1] ELSE f[j]]
  <2>2. w \in Nat /\ w + 1 \in 0..h
    OBVIOUS
  <2>3. ASSUME NEW j \in 0..(w + 1)
        PROVE  d[j] = IF j = 0 THEN <<>> ELSE d[j - 1] \o g[j]
    <3>1. CASE j = w + 1
      <4>1. j # 0 /\ j - 1 = w /\ w \in 0..(w + 1) /\ w # w + 1
        BY <2>2, <3>1
      <4>2. d[j - 1] = f[w]
        BY <4>1
      <4>3. QED BY <3>1, <4>1, <4>2
    <3>2. CASE j # w + 1
      <4>1. j \in 0..w
        BY <2>2, <3>2
      <4>2. d[j] = f[j] /\ f[j] = (IF j = 0 THEN <<>> ELSE f[j - 1] \o g[j])
        BY <2>1, <3>2, <4>1
      <4>3. j # 0 => j - 1 \in 0..(w + 1) /\ j - 1 # w + 1
        BY <2>2, <4>1
      <4>4. j # 0 => d[j - 1] = f[j - 1]
        BY <4>3
      <4>5. QED BY <4>2, <4>4
    <3>3. QED BY <3>1, <3>2
  <2>4. Solves(d, w + 1)
    BY <2>3
  <2>5. QED BY <2>2, <2>4
<1>3. \A w \in 0..h : w \in G
  <2> HIDE DEF G
  <2> QED BY <1>1, <1>2, UpTo
<1>4. \E f : Solves(f, h)
  <2>1. h \in 0..h
    OBVIOUS
  <2>2. QED BY <1>3, <2>1
<1>5. QED BY <1>4 DEF Concats

LEMMA ConcatsAt ==
  ASSUME NEW g, NEW h \in Nat
  PROVE  /\ Concats(g, h)[0] = <<>>
         /\ \A j \in 0..(h - 1) : Concats(g, h)[j + 1] = Concats(g, h)[j] \o g[j + 1]
<1> DEFINE F == Concats(g, h)
<1>1. F = [j \in 0..h |-> IF j = 0 THEN <<>> ELSE F[j - 1] \o g[j]]
  BY ConcatsUnfold
<1> HIDE DEF F
<1>2. 0 \in 0..h /\ \A j \in 0..(h - 1) : j + 1 \in 0..h /\ j + 1 # 0 /\ (j + 1) - 1 = j
  OBVIOUS
<1>3. F[0] = <<>>
  BY <1>1, <1>2
<1>4. ASSUME NEW j \in 0..(h - 1) PROVE F[j + 1] = F[j] \o g[j + 1]
  <2>1. F[j + 1] = F[(j + 1) - 1] \o g[j + 1]
    BY <1>1, <1>2
  <2>2. QED BY <1>2, <2>1
<1>5. QED BY <1>3, <1>4 DEF F

-----------------------------------------------------------------------------
(***************************************************************************)
(* Readings: what the candidates are, and the meaning of the chain.        *)
(***************************************************************************)
\* First finds nothing exactly when no candidate is in the set, and otherwise
\* the first that is.
LEMMA FirstNone ==
  ASSUME NEW S, NEW cands, Len(cands) \in Nat, <<>> \notin S
  PROVE  First(cands, S) = <<>> <=> \A k \in 1..Len(cands) : cands[k] \notin S
<1> DEFINE hits == {k \in 1..Len(cands) : cands[k] \in S}
<1>1. CASE hits = {}
  BY <1>1 DEF First
<1>2. CASE hits # {}
  <2>1. PICK k \in hits : \A j \in hits : k <= j
    <3>1. hits \subseteq Nat
      OBVIOUS
    <3> HIDE DEF hits
    <3> QED BY <1>2, <3>1, LeastOf
  <2>2. (CHOOSE i \in hits : \A j \in hits : i <= j) \in hits
    <3> HIDE DEF hits
    <3> QED BY <2>1
  <2>3. First(cands, S) \in S
    BY <1>2, <2>2 DEF First
  <2>4. QED BY <1>2, <2>3
<1>3. QED BY <1>1, <1>2

LEMMA FirstIs ==
  ASSUME NEW S, NEW cands, Len(cands) \in Nat, NEW k \in 1..Len(cands), cands[k] \in S,
         \A j \in 1..(k - 1) : cands[j] \notin S
  PROVE  First(cands, S) = cands[k]
<1> DEFINE hits == {i \in 1..Len(cands) : cands[i] \in S}
<1>1. k \in hits /\ hits # {} /\ hits \subseteq Nat
  OBVIOUS
<1>2. \A j \in hits : k <= j
  OBVIOUS
<1>3. (CHOOSE i \in hits : \A j \in hits : i <= j) = k
  <2>1. \A i \in hits : (\A j \in hits : i <= j) => i = k
    <3> HIDE DEF hits
    <3> QED BY <1>1, <1>2
  <2> HIDE DEF hits
  <2> QED BY <1>1, <1>2, <2>1
<1>4. First(cands, S) = cands[CHOOSE i \in hits : \A j \in hits : i <= j]
  BY <1>1 DEF First
<1>5. QED BY <1>3, <1>4

\* What the assumptions on the constants say of the inputs.
InputsOK ==
  /\ chain \in Dotted
  /\ absolute \in BOOLEAN
  /\ scope \in Seq(Comprehension)
  /\ declared \in [vars : SUBSET Dotted, types : SUBSET Dotted]
  /\ bound \in SUBSET Dotted
  /\ container \in Seq(Segments)

\* Reading the first m segments of the chain p deep in the container; the
\* depth to start from; the candidates for those segments.
Depth == IF absolute THEN 0 ELSE Len(container)
Reading(p, m) == SubSeq(container, 1, p) \o SubSeq(chain, 1, m)
CandidatesOf(m) == Candidates(SubSeq(chain, 1, m), absolute, container)

LEMMA ChainType ==
  ASSUME InputsOK
  PROVE  /\ chain \in Seq(Segments) /\ Len(chain) \in Nat /\ Len(chain) >= 1
         /\ chain[1] \in Segments
         /\ Len(container) \in Nat /\ Depth \in Nat /\ Depth <= Len(container)
         /\ Len(scope) \in Nat
BY DEF InputsOK, Dotted, Depth

LEMMA ReadingType ==
  ASSUME InputsOK, NEW m \in 1..Len(chain), NEW p \in 0..Depth
  PROVE  /\ Reading(p, m) \in Seq(Segments) /\ Len(Reading(p, m)) = p + m
         /\ \A k \in 1..m : Reading(p, m)[p + k] = chain[k]
<1>1. /\ SubSeq(container, 1, p) \in Seq(Segments) /\ Len(SubSeq(container, 1, p)) = p
  <2>1. container \in Seq(Segments) /\ p \in Nat /\ p <= Len(container)
    BY ChainType DEF InputsOK
  <2>2. QED BY <2>1
<1>2. /\ SubSeq(chain, 1, m) \in Seq(Segments) /\ Len(SubSeq(chain, 1, m)) = m
      /\ \A k \in 1..m : SubSeq(chain, 1, m)[k] = chain[k]
  BY ChainType
<1>3. QED BY <1>1, <1>2 DEF Reading

\* The candidates are the readings, the deepest first.
LEMMA CandidatesAre ==
  ASSUME InputsOK, NEW m \in 1..Len(chain)
  PROVE  /\ Len(CandidatesOf(m)) = Depth + 1
         /\ \A k \in 1..(Depth + 1) : CandidatesOf(m)[k] = Reading(Depth + 1 - k, m)
<1>1. CASE absolute \/ container = <<>>
  <2>1. Depth = 0
    BY <1>1 DEF Depth, InputsOK
  <2>2. CandidatesOf(m) = <<SubSeq(chain, 1, m)>>
    BY <1>1 DEF CandidatesOf, Candidates
  <2>3. Reading(0, m) = SubSeq(chain, 1, m)
    <3>1. SubSeq(container, 1, 0) = <<>> /\ SubSeq(chain, 1, m) \in Seq(Segments)
      BY ChainType DEF InputsOK
    <3>2. QED BY <3>1 DEF Reading
  <2>4. QED BY <2>1, <2>2, <2>3
<1>2. CASE ~ (absolute \/ container = <<>>)
  <2>1. Depth = Len(container) /\ Len(container) \in Nat
    BY <1>2, ChainType DEF Depth, InputsOK
  <2>2. CandidatesOf(m) = [k \in 1..(Len(container) + 1) |->
                             SubSeq(container, 1, Len(container) + 1 - k) \o SubSeq(chain, 1, m)]
    BY <1>2 DEF CandidatesOf, Candidates
  <2>3. Len(CandidatesOf(m)) = Len(container) + 1
    BY <2>1, <2>2
  <2>4. \A k \in 1..(Len(container) + 1) :
          CandidatesOf(m)[k] = SubSeq(container, 1, Len(container) + 1 - k) \o SubSeq(chain, 1, m)
    BY <2>2
  <2>5. QED BY <2>1, <2>3, <2>4 DEF Reading
<1>3. QED BY <1>1, <1>2

\* The search over the candidates finds the deepest reading there is.
LEMMA NoReading ==
  ASSUME InputsOK, NEW m \in 1..Len(chain), NEW names, <<>> \notin names
  PROVE  First(CandidatesOf(m), names) = <<>>
           <=> \A p \in 0..Depth : Reading(p, m) \notin names
<1>1. <<>> \notin names
  BY DEF Dotted
<1>2. First(CandidatesOf(m), names) = <<>>
        <=> \A k \in 1..(Depth + 1) : CandidatesOf(m)[k] \notin names
  BY <1>1, CandidatesAre, ChainType, FirstNone
<1>3. \A p \in 0..Depth : /\ Depth + 1 - p \in 1..(Depth + 1)
                          /\ Depth + 1 - (Depth + 1 - p) = p
  BY ChainType
<1>4. \A k \in 1..(Depth + 1) : Depth + 1 - k \in 0..Depth
  BY ChainType
<1>5. ASSUME \A k \in 1..(Depth + 1) : CandidatesOf(m)[k] \notin names, NEW p \in 0..Depth
      PROVE  Reading(p, m) \notin names
  BY <1>3, <1>5, CandidatesAre
<1>6. ASSUME \A p \in 0..Depth : Reading(p, m) \notin names, NEW k \in 1..(Depth + 1)
      PROVE  CandidatesOf(m)[k] \notin names
  BY <1>4, <1>6, CandidatesAre
<1>7. QED BY <1>2, <1>5, <1>6

LEMMA NearestReading ==
  ASSUME InputsOK, NEW m \in 1..Len(chain), NEW names, <<>> \notin names,
         NEW p \in 0..Depth, Reading(p, m) \in names,
         \A q \in (p + 1)..Depth : Reading(q, m) \notin names
  PROVE  First(CandidatesOf(m), names) = Reading(p, m)
<1> DEFINE k == Depth + 1 - p
<1>1. k \in 1..(Depth + 1) /\ Depth + 1 - k = p
  BY ChainType
<1>2. CandidatesOf(m)[k] = Reading(p, m)
  BY <1>1, CandidatesAre
<1>3. ASSUME NEW j \in 1..(k - 1) PROVE CandidatesOf(m)[j] \notin names
  <2>1. j \in Nat /\ Depth \in Nat /\ p \in Nat /\ 1 <= j /\ j < Depth + 1 - p
    BY ChainType
  <2>2. j \in 1..(Depth + 1) /\ Depth + 1 - j \in (p + 1)..Depth
    BY <2>1
  <2>3. QED BY <2>2, CandidatesAre
<1>4. Len(CandidatesOf(m)) \in Nat /\ k \in 1..Len(CandidatesOf(m))
  BY <1>1, CandidatesAre, ChainType
<1> HIDE DEF k
<1>5. QED BY <1>2, <1>3, <1>4, FirstIs

LEMMA SomeReading ==
  ASSUME InputsOK, NEW m \in 1..Len(chain), NEW names, <<>> \notin names,
         First(CandidatesOf(m), names) # <<>>
  PROVE  \E p \in 0..Depth : /\ Reading(p, m) \in names
                             /\ \A q \in (p + 1)..Depth : Reading(q, m) \notin names
                             /\ First(CandidatesOf(m), names) = Reading(p, m)
<1> DEFINE S == {p \in 0..Depth : Reading(p, m) \in names}
<1>1. S # {} /\ S \subseteq 0..Depth
  BY NoReading
<1>2. PICK p \in S : \A q \in S : q <= p
  <2> HIDE DEF S
  <2> QED BY <1>1, GreatestOf, ChainType
<1>3. ASSUME NEW q \in (p + 1)..Depth PROVE Reading(q, m) \notin names
  <2>1. q \in 0..Depth /\ ~ (q <= p)
    BY <1>2, ChainType
  <2>2. QED BY <1>2, <2>1
<1>4. QED BY <1>2, <1>3, NearestReading

\* The comprehensions that have the first segment for a variable, and what it
\* stands for in each.
Around == {k \in 1..Len(scope) : chain[1] \in Visible(scope[k])}
LocalAt(k) == Local(k, IF scope[k].at = "loop" /\ chain[1] \in scope[k].iters THEN "iter" ELSE "accu")
Readings(names) == {r \in (0..Depth) \X (1..Len(chain)) : Reading(r[1], r[2]) \in names}

\* The meaning of the chain when a local variable is in the way, when it has
\* no reading, and when m segments are the longest that have one.
LEMMA MeaningLocal ==
  ASSUME InputsOK, NEW names, ~ absolute, NEW k \in Around, \A j \in Around : j <= k
  PROVE  Meaning(names) = [root |-> LocalAt(k), fields |-> SubSeq(chain, 2, Len(chain))]
<1>1. Greatest(Around) = k
  <2>1. Around \subseteq Nat
    BY ChainType DEF Around
  <2>2. \A i \in Around : (\A j \in Around : j <= i) => i = k
    BY <2>1
  <2>3. QED BY <2>2 DEF Greatest
<1>2. Tail(chain) = SubSeq(chain, 2, Len(chain))
  BY ChainType
<1>3. Around # {}
  OBVIOUS
<1> DEFINE readings == {r \in (0..Depth) \X (1..Len(chain)) :
                          SubSeq(container, 1, r[1]) \o SubSeq(chain, 1, r[2]) \in names}
<1>4. Meaning(names) =
        [root |-> Local(Greatest(Around),
                        IF scope[Greatest(Around)].at = "loop"
                             /\ chain[1] \in scope[Greatest(Around)].iters THEN "iter" ELSE "accu"),
         fields |-> Tail(chain)]
  BY <1>3 DEF Meaning, Around
<1>5. QED BY <1>1, <1>2, <1>4 DEF LocalAt

LEMMA MeaningGlobal ==
  ASSUME InputsOK, NEW names, absolute \/ Around = {}
  PROVE  Meaning(names) =
           LET best == CHOOSE r \in Readings(names) : \A q \in Readings(names) :
                         q[2] < r[2] \/ (q[2] = r[2] /\ q[1] <= r[1])
               name == Reading(best[1], best[2])
           IN IF Readings(names) = {} THEN None
              ELSE [root |-> Global(name),
                    fields |-> SubSeq(chain, best[2] + 1, Len(chain))]
BY DEF Meaning, Around, Readings, Reading, Depth

LEMMA MeaningNone ==
  ASSUME InputsOK, NEW names, <<>> \notin names, absolute \/ Around = {},
         \A m \in 1..Len(chain) : First(CandidatesOf(m), names) = <<>>
  PROVE  Meaning(names) = None
<1>1. Readings(names) = {}
  BY NoReading DEF Readings
<1>2. QED BY <1>1, MeaningGlobal

LEMMA MeaningRead ==
  ASSUME InputsOK, NEW names, <<>> \notin names, absolute \/ Around = {},
         NEW m \in 1..Len(chain), First(CandidatesOf(m), names) # <<>>,
         \A j \in (m + 1)..Len(chain) : First(CandidatesOf(j), names) = <<>>
  PROVE  LET name == First(CandidatesOf(m), names)
         IN Meaning(names) = [root |-> Global(name),
                              fields |-> SubSeq(chain, m + 1, Len(chain))]
<1> DEFINE better(r, q) == q[2] < r[2] \/ (q[2] = r[2] /\ q[1] <= r[1])
<1>1. PICK p \in 0..Depth : /\ Reading(p, m) \in names
                            /\ \A q \in (p + 1)..Depth : Reading(q, m) \notin names
                            /\ First(CandidatesOf(m), names) = Reading(p, m)
  BY SomeReading
<1>2. <<p, m>> \in Readings(names)
  BY <1>1 DEF Readings
<1>3. ASSUME NEW q \in Readings(names) PROVE better(<<p, m>>, q)
  <2>1. q[1] \in 0..Depth /\ q[2] \in 1..Len(chain) /\ Reading(q[1], q[2]) \in names
    BY DEF Readings
  <2>2. ~ (q[2] > m)
    <3>1. q[2] > m => q[2] \in (m + 1)..Len(chain)
      BY <2>1, ChainType
    <3>2. q[2] > m => First(CandidatesOf(q[2]), names) = <<>>
      BY <3>1
    <3>3. QED BY <2>1, <3>2, NoReading
  <2>3. q[2] = m => ~ (q[1] > p)
    <3>1. q[1] > p => q[1] \in (p + 1)..Depth
      BY <2>1, ChainType
    <3>2. QED BY <1>1, <2>1, <3>1
  <2>4. q[1] \in Nat /\ q[2] \in Nat /\ p \in Nat /\ m \in Nat
    BY <2>1, ChainType
  <2>5. QED BY <2>2, <2>3, <2>4
<1>4. ASSUME NEW r \in Readings(names), \A q \in Readings(names) : better(r, q) PROVE r = <<p, m>>
  <2>1. r[1] \in 0..Depth /\ r[2] \in 1..Len(chain) /\ r = <<r[1], r[2]>>
    BY DEF Readings
  <2>2. better(r, <<p, m>>) /\ better(<<p, m>>, r)
    <3> HIDE DEF better
    <3> QED BY <1>2, <1>3, <1>4
  <2>3. r[1] \in Nat /\ r[2] \in Nat /\ p \in Nat /\ m \in Nat
    BY <2>1, ChainType
  <2>4. r[1] = p /\ r[2] = m
    BY <2>2, <2>3
  <2>5. QED BY <2>1, <2>4
<1>5. (CHOOSE r \in Readings(names) : \A q \in Readings(names) : better(r, q)) = <<p, m>>
  <2> HIDE DEF better
  <2> QED BY <1>2, <1>3, <1>4
<1>6. Readings(names) # {}
  BY <1>2
<1> DEFINE best == CHOOSE r \in Readings(names) : \A q \in Readings(names) : better(r, q)
<1>7. Meaning(names) = [root |-> Global(Reading(best[1], best[2])),
                        fields |-> SubSeq(chain, best[2] + 1, Len(chain))]
  BY <1>6, MeaningGlobal
<1>8. best = <<p, m>>
  BY <1>5
<1> HIDE DEF best
<1>9. best[1] = p /\ best[2] = m
  BY <1>8
<1>10. QED BY <1>1, <1>7, <1>9

-----------------------------------------------------------------------------
(***************************************************************************)
(* The checker's frames.                                                   *)
(***************************************************************************)
\* The checker's frames are those of the comprehensions one after another.
LEMMA CheckFramesUnfold ==
  ASSUME NEW s
  PROVE CheckFrames(s) = Concats([k \in 1..Len(s) |-> OwnFrames(s,k)], Len(s))[Len(s)]
  BY DEF CheckFrames, Concats

\* In a list of frames, innermost last: no frame has v, or the innermost
\* that has it gives x.
Hides(fs, v) == \A p \in 1..Len(fs) : v \notin DOMAIN fs[p]
Shows(fs, v, x) ==
  \E p \in 1..Len(fs) : /\ v \in DOMAIN fs[p] /\ fs[p][v] = x
                        /\ \A q \in (p + 1)..Len(fs) : v \notin DOMAIN fs[q]

\* The inner of two lists of frames decides.
LEMMA AppendFrames ==
  ASSUME NEW T, NEW fs \in Seq(T), NEW gs \in Seq(T), NEW v
  PROVE  /\ Hides(fs, v) /\ Hides(gs, v) => Hides(fs \o gs, v)
         /\ \A x : Shows(fs, v, x) /\ Hides(gs, v) => Shows(fs \o gs, v, x)
         /\ \A x : Shows(gs, v, x) => Shows(fs \o gs, v, x)
<1> DEFINE all == fs \o gs
<1>1. /\ Len(all) = Len(fs) + Len(gs) /\ Len(fs) \in Nat /\ Len(gs) \in Nat
      /\ \A p \in 1..Len(fs) : all[p] = fs[p]
      /\ \A p \in 1..Len(gs) : all[Len(fs) + p] = gs[p]
  OBVIOUS
<1>2. \A p \in 1..Len(all) : \/ p \in 1..Len(fs)
                             \/ p - Len(fs) \in 1..Len(gs) /\ Len(fs) + (p - Len(fs)) = p
  BY <1>1
<1> HIDE DEF all
<1>3. Hides(fs, v) /\ Hides(gs, v) => Hides(all, v)
  BY <1>1, <1>2 DEF Hides
<1>4. ASSUME NEW x, Shows(fs, v, x), Hides(gs, v) PROVE Shows(all, v, x)
  <2>1. PICK p \in 1..Len(fs) : /\ v \in DOMAIN fs[p] /\ fs[p][v] = x
                                /\ \A q \in (p + 1)..Len(fs) : v \notin DOMAIN fs[q]
    BY <1>4 DEF Shows
  <2>2. p \in 1..Len(all) /\ all[p] = fs[p]
    BY <1>1
  <2>3. ASSUME NEW q \in (p + 1)..Len(all) PROVE v \notin DOMAIN all[q]
    <3>1. q \in 1..Len(all) /\ q > p
      BY <1>1
    <3>2. CASE q \in 1..Len(fs)
      <4>1. q \in (p + 1)..Len(fs) /\ all[q] = fs[q]
        BY <1>1, <3>1, <3>2
      <4>2. QED BY <2>1, <4>1
    <3>3. CASE q - Len(fs) \in 1..Len(gs) /\ Len(fs) + (q - Len(fs)) = q
      <4>1. all[q] = gs[q - Len(fs)]
        BY <1>1, <3>3
      <4>2. QED BY <1>4, <3>3, <4>1 DEF Hides
    <3>4. QED BY <1>2, <3>1, <3>2, <3>3
  <2>4. QED BY <2>1, <2>2, <2>3 DEF Shows
<1>5. ASSUME NEW x, Shows(gs, v, x) PROVE Shows(all, v, x)
  <2>1. PICK p \in 1..Len(gs) : /\ v \in DOMAIN gs[p] /\ gs[p][v] = x
                                /\ \A q \in (p + 1)..Len(gs) : v \notin DOMAIN gs[q]
    BY <1>5 DEF Shows
  <2>2. Len(fs) + p \in 1..Len(all) /\ all[Len(fs) + p] = gs[p]
    BY <1>1
  <2>3. ASSUME NEW q \in (Len(fs) + p + 1)..Len(all) PROVE v \notin DOMAIN all[q]
    <3>1. /\ q - Len(fs) \in (p + 1)..Len(gs) /\ q - Len(fs) \in 1..Len(gs)
          /\ Len(fs) + (q - Len(fs)) = q
      BY <1>1
    <3>2. all[q] = gs[q - Len(fs)]
      BY <1>1, <3>1
    <3>3. QED BY <2>1, <3>1, <3>2
  <2>4. QED BY <2>1, <2>2, <2>3 DEF Shows
<1>6. QED BY <1>3, <1>4, <1>5 DEF all

\* The frames the checker makes.
Frame ==
  {[x \in {scope[k].accu} |-> Local(k, "accu")] : k \in 1..Len(scope)}
    \cup {[x \in scope[k].iters |-> Local(k, "iter")] : k \in 1..Len(scope)}

\* The frames the checker keeps for one comprehension give its variables.
LEMMA OwnFramesAre ==
  ASSUME InputsOK, NEW k \in 1..Len(scope)
  PROVE  /\ OwnFrames(scope, k) \in Seq(Frame)
         /\ k \in Around => Shows(OwnFrames(scope, k), chain[1], LocalAt(k))
         /\ k \notin Around => Hides(OwnFrames(scope, k), chain[1])
<1> DEFINE v == chain[1]
           c == scope[k]
           fa == [x \in {c.accu} |-> Local(k, "accu")]
           fi == [x \in c.iters |-> Local(k, "iter")]
           own == OwnFrames(scope, k)
<1>1. /\ c.accu \in Segments \cup {Hidden} /\ c.iters \in SUBSET Segments
      /\ c.at \in {"loop", "result"}
  <2>1. c \in Comprehension
    BY DEF InputsOK
  <2>2. QED BY <2>1 DEF Comprehension
<1>2. fa \in Frame /\ fi \in Frame
  BY DEF Frame
<1>3. k \in Around <=> v = c.accu \/ (c.at = "loop" /\ v \in c.iters)
  BY <1>1 DEF Around, Visible
<1>4. v = c.accu => fa[v] = Local(k, "accu")
  OBVIOUS
<1>5. v \in c.iters => fi[v] = Local(k, "iter")
  OBVIOUS
<1>6. v \in DOMAIN fa <=> v = c.accu
  OBVIOUS
<1>7. v \in DOMAIN fi <=> v \in c.iters
  OBVIOUS
<1>8. CASE c.at = "result"
  <2>1. own = <<fa>>
    <3>1. own = <<fa>> \o <<>>
      BY <1>8 DEF OwnFrames
    <3>2. QED BY <1>2, <3>1
  <2>2. LocalAt(k) = Local(k, "accu")
    BY <1>8 DEF LocalAt
  <2> HIDE DEF own, fa, fi, v
  <2>3. Len(own) = 1 /\ own[1] = fa /\ own \in Seq(Frame)
    BY <1>2, <2>1
  <2>4. v = c.accu => Shows(own, v, Local(k, "accu"))
    BY <1>4, <1>6, <2>3 DEF Shows
  <2>5. v # c.accu => Hides(own, v)
    BY <1>6, <2>3 DEF Hides
  <2>6. QED BY <1>3, <1>8, <2>2, <2>3, <2>4, <2>5 DEF own, v
<1>9. CASE c.at = "loop"
  <2>1. own = <<fa>> \o <<fi>>
    BY <1>9 DEF OwnFrames
  <2>2. LocalAt(k) = Local(k, IF v \in c.iters THEN "iter" ELSE "accu")
    BY <1>9 DEF LocalAt
  <2> HIDE DEF own, fa, fi, v
  <2>3. Len(own) = 2 /\ own[1] = fa /\ own[2] = fi /\ own \in Seq(Frame)
    <3>1. <<fa>> \in Seq(Frame) /\ <<fi>> \in Seq(Frame)
      BY <1>2
    <3>2. QED BY <2>1, <3>1
  <2>4. v \in c.iters => Shows(own, v, Local(k, "iter"))
    BY <1>5, <1>7, <2>3 DEF Shows
  <2>5. v = c.accu /\ v \notin c.iters => Shows(own, v, Local(k, "accu"))
    <3>1. ASSUME v = c.accu, v \notin c.iters PROVE Shows(own, v, Local(k, "accu"))
      <4>1. \A q \in (1 + 1)..Len(own) : own[q] = fi
        BY <2>3
      <4>2. QED BY <1>4, <1>6, <1>7, <2>3, <3>1, <4>1 DEF Shows
    <3>2. QED BY <3>1
  <2>6. v # c.accu /\ v \notin c.iters => Hides(own, v)
    <3>1. \A p \in 1..Len(own) : own[p] = fa \/ own[p] = fi
      BY <2>3
    <3>2. QED BY <1>6, <1>7, <3>1 DEF Hides
  <2>7. QED BY <1>3, <1>9, <2>2, <2>3, <2>4, <2>5, <2>6 DEF own, v
<1>10. QED BY <1>1, <1>8, <1>9

\* The checker looks a name up in the innermost comprehension that has it,
\* the iteration variable before the accumulator.
LEMMA CheckLocalIs ==
  ASSUME InputsOK
  PROVE  /\ Around = {} => CheckLocal(chain[1]) = <<"none">>
         /\ \A k \in Around : (\A j \in Around : j <= k) => CheckLocal(chain[1]) = LocalAt(k)
<1> DEFINE N == Len(scope)
           own == [k \in 1..N |-> OwnFrames(scope, k)]
           F == Concats(own, N)
           v == chain[1]
           Holds(m) == /\ F[m] \in Seq(Frame)
                       /\ (\A k \in Around : ~ (k <= m)) => Hides(F[m], v)
                       /\ \A k \in Around : k <= m /\ (\A j \in Around : j <= m => j <= k)
                            => Shows(F[m], v, LocalAt(k))
           G == {m \in 0..N : Holds(m)}
<1>1. N \in Nat
  BY ChainType
<1>2. F[0] = <<>> /\ \A k \in 0..(N - 1) : F[k + 1] = F[k] \o own[k + 1]
  <2> HIDE DEF own, N, Holds, G
  <2> QED BY <1>1, ConcatsAt
<1>3. \A k \in 0..(N - 1) : F[k + 1] = F[k] \o OwnFrames(scope, k + 1)
  <2>1. ASSUME NEW k \in 0..(N - 1) PROVE own[k + 1] = OwnFrames(scope, k + 1)
    <3>1. k + 1 \in 1..N
      BY <1>1
    <3>2. QED BY <3>1
  <2> HIDE DEF F, own, N
  <2>2. QED BY <1>2, <2>1
<1> HIDE DEF F
<1>4. Around \subseteq 1..N
  BY DEF Around
<1>5. 0 \in G
  <2>1. F[0] = <<>> /\ 0 \in 0..N
    BY <1>1, <1>2
  <2>2. Hides(<<>>, v) /\ <<>> \in Seq(Frame)
    BY DEF Hides
  <2>3. \A k \in Around : ~ (k <= 0)
    BY <1>1, <1>4
  <2>4. QED BY <2>1, <2>2, <2>3
<1>6. ASSUME NEW m \in 0..(N - 1), m \in G PROVE m + 1 \in G
  <2>1. Holds(m) /\ m + 1 \in 1..N /\ m + 1 \in 0..N /\ m \in Nat
    BY <1>1, <1>6
  <2> DEFINE o == OwnFrames(scope, m + 1)
  <2>2. F[m + 1] = F[m] \o o
    BY <1>3
  <2>3. /\ o \in Seq(Frame)
        /\ m + 1 \in Around => Shows(o, v, LocalAt(m + 1))
        /\ m + 1 \notin Around => Hides(o, v)
    BY <2>1, OwnFramesAre
  <2> HIDE DEF o, v, N
  <2>4. F[m + 1] \in Seq(Frame)
    BY <2>1, <2>2, <2>3
  <2>5. \A k \in Around : k \in Nat /\ (k <= m + 1 <=> k <= m \/ k = m + 1)
    BY <1>1, <1>4, <2>1
  <2>6. (\A k \in Around : ~ (k <= m + 1)) => Hides(F[m + 1], v)
    <3>1. SUFFICES ASSUME \A k \in Around : ~ (k <= m + 1) PROVE Hides(F[m + 1], v)
      OBVIOUS
    <3>2. m + 1 \notin Around /\ \A k \in Around : ~ (k <= m)
      BY <2>1, <2>5, <3>1
    <3>3. QED BY <2>1, <2>2, <2>3, <3>2, AppendFrames
  <2>7. ASSUME NEW k \in Around, k <= m + 1, \A j \in Around : j <= m + 1 => j <= k
        PROVE  Shows(F[m + 1], v, LocalAt(k))
    <3>1. CASE k = m + 1
      BY <2>1, <2>2, <2>3, <3>1, AppendFrames
    <3>2. CASE k # m + 1
      <4>1. k <= m /\ \A j \in Around : j <= m => j <= k
        BY <2>5, <2>7, <3>2
      <4>2. m + 1 \notin Around
        <5>1. m + 1 \in Around => m + 1 <= k
          BY <2>1, <2>7
        <5>2. QED BY <2>1, <2>5, <4>1, <5>1
      <4>3. Shows(F[m], v, LocalAt(k)) /\ Hides(o, v)
        BY <2>1, <2>3, <4>1, <4>2
      <4>4. QED BY <2>1, <2>2, <2>3, <4>3, AppendFrames
    <3>3. QED BY <3>1, <3>2
  <2>8. QED BY <2>1, <2>4, <2>6, <2>7
<1>7. \A m \in 0..N : m \in G
  <2> HIDE DEF G, N
  <2> QED BY <1>1, <1>5, <1>6, UpTo
<1>8. Holds(N)
  <2>1. N \in 0..N
    BY <1>1
  <2>2. QED BY <1>7, <2>1
<1>9. CheckFrames(scope) = F[N]
  BY CheckFramesUnfold DEF F
<1>10. Around = {} => CheckLocal(v) = <<"none">>
  <2>1. SUFFICES ASSUME Around = {} PROVE CheckLocal(v) = <<"none">>
    OBVIOUS
  <2>2. Hides(F[N], v)
    BY <1>8, <2>1
  <2>3. QED BY <1>9, <2>2 DEF CheckLocal, Hides
<1>11. ASSUME NEW k \in Around, \A j \in Around : j <= k PROVE CheckLocal(v) = LocalAt(k)
  <2>1. Shows(F[N], v, LocalAt(k)) /\ F[N] \in Seq(Frame)
    BY <1>1, <1>4, <1>8, <1>11
  <2> DEFINE fs == CheckFrames(scope)
             hits == {p \in 1..Len(fs) : v \in DOMAIN fs[p]}
  <2>2. PICK p \in 1..Len(fs) : /\ v \in DOMAIN fs[p] /\ fs[p][v] = LocalAt(k)
                                /\ \A q \in (p + 1)..Len(fs) : v \notin DOMAIN fs[q]
    BY <1>9, <2>1 DEF Shows
  <2>3. Len(fs) \in Nat
    BY <1>9, <2>1
  <2>4. p \in hits /\ hits \subseteq Nat
    BY <2>2
  <2>5. \A q \in hits : q <= p
    <3>1. \A q \in 1..Len(fs) : ~ (q <= p) => q \in (p + 1)..Len(fs)
      BY <2>3
    <3>2. QED BY <2>2, <3>1
  <2>6. CheckLocal(v) = fs[CHOOSE i \in hits : \A j \in hits : j <= i][v]
    BY <2>4 DEF CheckLocal
  <2>7. (CHOOSE i \in hits : \A j \in hits : j <= i) = p
    <3>1. \A i \in hits : (\A j \in hits : j <= i) => i = p
      <4> HIDE DEF hits
      <4> QED BY <2>4, <2>5
    <3> HIDE DEF hits
    <3> QED BY <2>4, <2>5, <3>1
  <2>8. QED BY <2>2, <2>6, <2>7
<1>12. QED BY <1>10, <1>11

\* A chain is shadowed where some comprehension has its first segment.
LEMMA ShadowedIs ==
  ASSUME InputsOK
  PROVE  Shadowed <=> Around # {}
<1>1. Around = {} => ~ Shadowed
  BY CheckLocalIs DEF Shadowed
<1>2. ASSUME Around # {} PROVE Shadowed
  <2>1. Around \subseteq 0..Len(scope)
    BY DEF Around
  <2>2. PICK k \in Around : \A j \in Around : j <= k
    BY <1>2, <2>1, GreatestOf, ChainType
  <2>3. CheckLocal(chain[1]) = LocalAt(k)
    BY <2>2, CheckLocalIs
  <2>4. LocalAt(k) # <<"none">>
    BY DEF LocalAt, Local
  <2>5. QED BY <2>3, <2>4 DEF Shadowed
<1>3. QED BY <1>1, <1>2

-----------------------------------------------------------------------------
(***************************************************************************)
(* The parts of the node.                                                  *)
(***************************************************************************)
\* The parts of a node whose first part is a name that stands for the first m
\* segments of the chain.
PartsOf(name, m) == <<name>> \o [k \in 1..(Len(chain) - m) |-> <<chain[m + k]>>]

LEMMA Prepended ==
  ASSUME NEW T, NEW x \in T, NEW r \in Seq(T)
  PROVE  /\ <<x>> \o r \in Seq(T) /\ Len(<<x>> \o r) = Len(r) + 1 /\ (<<x>> \o r)[1] = x
         /\ \A j \in 1..Len(r) : (<<x>> \o r)[j + 1] = r[j]
<1>1. <<x>> \in Seq(T) /\ Len(<<x>>) = 1 /\ <<x>>[1] = x /\ Len(r) \in Nat
  OBVIOUS
<1> DEFINE s == <<x>>
<1> HIDE DEF s
<1>2. /\ s \o r \in Seq(T) /\ Len(s \o r) = Len(s) + Len(r)
      /\ \A j \in 1..(Len(s) + Len(r)) : (s \o r)[j] = IF j <= Len(s) THEN s[j] ELSE r[j - Len(s)]
  BY <1>1 DEF s
<1>3. \A j \in 1..Len(r) : (j + 1) - 1 = j /\ j + 1 \in 1..(1 + Len(r)) /\ ~ (j + 1 <= 1)
  BY <1>1
<1>4. QED BY <1>1, <1>2, <1>3 DEF s

LEMMA PartsAre ==
  ASSUME InputsOK, NEW m \in 1..Len(chain), NEW name \in Seq(Segments)
  PROVE  /\ PartsOf(name, m) \in Seq(Seq(Segments))
         /\ Len(PartsOf(name, m)) = Len(chain) - m + 1
         /\ PartsOf(name, m)[1] = name
         /\ \A j \in 1..(Len(chain) - m) : PartsOf(name, m)[j + 1] = <<chain[m + j]>>
<1> DEFINE rest == [k \in 1..(Len(chain) - m) |-> <<chain[m + k]>>]
<1>1. Len(chain) - m \in Nat
  BY ChainType
<1>2. \A k \in 1..(Len(chain) - m) : <<chain[m + k]>> \in Seq(Segments)
  BY ChainType
<1>3. rest \in Seq(Seq(Segments)) /\ Len(rest) = Len(chain) - m
  BY <1>1, <1>2
<1>4. PartsOf(name, m) = <<name>> \o rest
  BY DEF PartsOf
<1>5. \A j \in 1..(Len(chain) - m) : rest[j] = <<chain[m + j]>>
  OBVIOUS
<1> HIDE DEF rest
<1>6. /\ <<name>> \o rest \in Seq(Seq(Segments))
      /\ Len(<<name>> \o rest) = Len(rest) + 1 /\ (<<name>> \o rest)[1] = name
      /\ \A j \in 1..Len(rest) : (<<name>> \o rest)[j + 1] = rest[j]
  <2> DEFINE T == Seq(Segments)
  <2>1. name \in T /\ rest \in Seq(T)
    BY <1>3
  <2> HIDE DEF T
  <2>2. /\ <<name>> \o rest \in Seq(T)
        /\ Len(<<name>> \o rest) = Len(rest) + 1 /\ (<<name>> \o rest)[1] = name
        /\ \A j \in 1..Len(rest) : (<<name>> \o rest)[j + 1] = rest[j]
    BY <2>1, Prepended
  <2>3. QED BY <2>2 DEF T
<1>7. QED BY <1>3, <1>4, <1>5, <1>6

\* The first k parts as one name are the name and the segments after it.
LEMMA JoinedIs ==
  ASSUME InputsOK, NEW m \in 1..Len(chain), NEW name \in Seq(Segments), parts = PartsOf(name, m),
         NEW k \in 1..(Len(chain) - m + 1)
  PROVE  Joined(k) = name \o SubSeq(chain, m + 1, m + k - 1)
<1> DEFINE F == Concats(parts, k)
           G == {j \in 0..k : j = 0 \/ F[j] = name \o SubSeq(chain, m + 1, m + j - 1)}
<1>1. Joined(k) = F[k]
  BY DEF Joined, Concats
<1>2. k \in Nat /\ m \in Nat /\ Len(chain) \in Nat /\ k >= 1 /\ m >= 1 /\ m + k - 1 <= Len(chain)
  BY ChainType
<1>3. k \in Nat
  BY <1>2
<1>4. F[0] = <<>> /\ \A j \in 0..(k - 1) : F[j + 1] = F[j] \o parts[j + 1]
  <2> HIDE DEF G
  <2> QED BY <1>3, ConcatsAt
<1> HIDE DEF F
<1>5. 0 \in G
  BY <1>2
<1>6. ASSUME NEW j \in 0..(k - 1), j \in G PROVE j + 1 \in G
  <2> HIDE DEF G
  <2>1. j \in Nat /\ j <= k - 1 /\ j + 1 \in 0..k
    BY <1>2
  <2>2. F[j + 1] = F[j] \o parts[j + 1]
    BY <1>4
  <2>3. F[j + 1] = name \o SubSeq(chain, m + 1, m + j)
    <3>1. CASE j = 0
      <4>1. parts[j + 1] = name
        <5>1. j + 1 = 1
          BY <3>1
        <5>2. parts[1] = name
          BY PartsAre
        <5>3. QED BY <5>1, <5>2
      <4>2. F[j + 1] = <<>> \o name
        BY <1>4, <2>2, <3>1, <4>1
      <4>3. SubSeq(chain, m + 1, m + j) = <<>>
        <5>1. m + j = m /\ chain \in Seq(Segments)
          BY <1>2, <3>1, ChainType
        <5>2. QED BY <1>2, <5>1
      <4>4. QED BY <4>2, <4>3, ConcatEmptySeq
    <3>2. CASE j # 0
      <4>1. /\ j \in 1..(Len(chain) - m) /\ m + 1 \in Nat /\ m + j \in Nat /\ 1 <= m + 1
            /\ m + 1 <= m + j /\ m + j <= Len(chain) /\ m + j >= 1
        BY <1>2, <2>1, <3>2
      <4>2. parts[j + 1] = <<chain[m + j]>>
        BY <4>1, PartsAre
      <4>3. F[j] = name \o SubSeq(chain, m + 1, m + j - 1)
        BY <1>6, <3>2 DEF G
      <4>4. chain \in Seq(Segments)
        BY ChainType
      <4>5. SubSeq(chain, m + 1, m + j) = SubSeq(chain, m + 1, m + j - 1) \o <<chain[m + j]>>
        <5>1. m + 1 \in 1..Len(chain) /\ m + j \in (m + 1)..Len(chain)
          BY <4>1
        <5>2. QED BY <4>4, <5>1, SubSeqRecursiveSecond
      <4>6. chain[m + j] \in Segments
        BY <4>1, <4>4
      <4>7. SubSeq(chain, m + 1, m + j - 1) \in Seq(Segments) /\ <<chain[m + j]>> \in Seq(Segments)
        <5>1. \A i \in (m + 1)..(m + j - 1) : i \in 1..Len(chain)
          BY <1>2, <4>1
        <5>2. QED BY <1>2, <4>1, <4>4, <4>6, <5>1
      <4> DEFINE A == SubSeq(chain, m + 1, m + j - 1)
                 B == <<chain[m + j]>>
      <4>8. F[j] = name \o A /\ F[j + 1] = F[j] \o B /\ A \in Seq(Segments) /\ B \in Seq(Segments)
        BY <2>2, <4>2, <4>3, <4>7
      <4>9. SubSeq(chain, m + 1, m + j) = A \o B
        BY <4>5
      <4> HIDE DEF A, B
      <4>10. A \in Seq(Segments) /\ B \in Seq(Segments) /\ name \in Seq(Segments)
        BY <4>8, <1>1
      <4>12. (name \o A) \o B = name \o (A \o B)
        BY <4>10, ConcatAssociative, SMTT(30)
      <4>11. QED BY <4>8, <4>9, <4>12
    <3>3. QED BY <3>1, <3>2
  <2>4. m + (j + 1) - 1 = m + j
    BY <1>2, <2>1
  <2>5. QED BY <2>1, <2>3, <2>4 DEF G
<1>7. \A j \in 0..k : j \in G
  <2> HIDE DEF G
  <2>1. k \in Nat
    BY <1>2
  <2>2. QED BY <1>5, <1>6, <2>1, UpTo
<1>8. k \in 0..k /\ k # 0
  BY <1>2
<1>9. F[k] = name \o SubSeq(chain, m + 1, m + k - 1)
  BY <1>7, <1>8
<1>10. QED BY <1>1, <1>9

\* What is left of the chain after the first k parts.
LEMMA FieldsAre ==
  ASSUME InputsOK, NEW m \in 1..Len(chain), NEW name \in Seq(Segments), parts = PartsOf(name, m),
         NEW k \in 1..(Len(chain) - m + 1)
  PROVE  FieldsAfter(k) = SubSeq(chain, m + k, Len(chain))
<1>1. Len(parts) = Len(chain) - m + 1
  BY PartsAre
<1>2. Len(chain) - (Len(parts) - k) + 1 = m + k
  BY <1>1, ChainType
<1>3. QED BY <1>2 DEF FieldsAfter

\* A parsed node is such a node: its name is the first segment.
LEMMA ParsedParts ==
  ASSUME InputsOK
  PROVE  [k \in 1..Len(chain) |-> <<chain[k]>>] = PartsOf(<<chain[1]>>, 1)
<1> DEFINE p == PartsOf(<<chain[1]>>, 1)
           q == [k \in 1..Len(chain) |-> <<chain[k]>>]
<1>1. <<chain[1]>> \in Seq(Segments) /\ 1 \in 1..Len(chain)
  BY ChainType
<1>2. /\ p \in Seq(Seq(Segments)) /\ Len(p) = Len(chain) - 1 + 1 /\ p[1] = <<chain[1]>>
      /\ \A j \in 1..(Len(chain) - 1) : p[j + 1] = <<chain[1 + j]>>
  BY <1>1, PartsAre
<1>3. \A k \in 1..Len(chain) : k = 1 \/ (k - 1 \in 1..(Len(chain) - 1) /\ (k - 1) + 1 = k /\ 1 + (k - 1) = k)
  BY ChainType
<1> HIDE DEF p
<1>4. \A k \in 1..Len(chain) : p[k] = <<chain[k]>>
  <2>1. TAKE k \in 1..Len(chain)
  <2>2. CASE k = 1
    BY <1>2, <2>2
  <2>3. CASE k # 1
    BY <1>2, <1>3, <2>3
  <2>4. QED BY <2>2, <2>3
<1>5. Len(p) = Len(chain) /\ Len(chain) \in Nat
  BY <1>2, ChainType
<1>6. p = [k \in 1..Len(chain) |-> p[k]]
  BY <1>2, <1>5
<1>7. QED BY <1>4, <1>6 DEF p

-----------------------------------------------------------------------------
(***************************************************************************)
(* The invariant.                                                          *)
(***************************************************************************)
\* The chain may be read as a global name: no local variable is in the way.
Open == absolute \/ Around = {}

\* No more than m segments of the chain are declared as one name; what the
\* checker leaves when the first m are.
DeclaredNames == declared.vars \cup declared.types
NoLonger(m) == \A j \in (m + 1)..Len(chain) : First(CandidatesOf(j), DeclaredNames) = <<>>
RefTo(name, m) ==
  [root |-> Global(name),
   fields |-> SubSeq(chain, m + 1, Len(chain))]

\* While the checker works, and when it rejects the chain.
Checking ==
  pc \in {"check", "rejected"} =>
    /\ ref = None
    /\ Open => NoLonger(n)
    /\ pc = "rejected" => Open /\ NoLonger(0)

\* The evaluator has not passed a comprehension that has the variable.
Innermost == \A k \in Around : k <= frame

\* The node after the checker resolved a local variable, a declared name, or
\* as parsed; with how far the evaluator is and what it has found.
CheckedLocal ==
  /\ ~ absolute /\ Around # {}
  /\ ref = [root |-> CheckLocal(chain[1]), fields |-> SubSeq(chain, 2, Len(chain))]
  /\ parts = PartsOf(<<chain[1]>>, 1) /\ ctr = <<>> /\ ~ dot
  /\ pc # "types"
  /\ pc = "eval" => Innermost
  /\ pc = "done" => got = ref

\* The declared name that the first n parts of the chain are.
Named == First(CandidatesOf(n), DeclaredNames)

CheckedGlobal ==
  /\ Open /\ NoLonger(n) /\ Named # <<>>
  /\ ref = RefTo(Named, n)
  /\ parts = PartsOf(Named, n) /\ ctr = <<>>
  /\ Around # {} => frame = 0
  /\ RunsAsResolved

Parsed ==
  /\ ref = None
  /\ parts = PartsOf(<<chain[1]>>, 1) /\ ctr = container /\ dot = absolute
  /\ absolute => frame = 0
  /\ pc = "eval" /\ ~ absolute => Innermost
  /\ pc = "types" => Open
  /\ UncheckedAgrees

Inv ==
  /\ InputsOK
  /\ n \in 1..Len(chain) /\ frame \in 0..Len(scope)
  /\ pc \in {"check", "eval", "types", "done", "rejected"}
  /\ Checking
  /\ pc # "done" => got = None
  /\ pc \in {"eval", "types", "done"} => CheckedLocal \/ CheckedGlobal \/ Parsed
  /\ pc = "types" => frame = 0 /\ Hits(0) = {}

-----------------------------------------------------------------------------
(***************************************************************************)
(* What is found in a frame.                                               *)
(***************************************************************************)
LEMMA GlobalRefIs ==
  ASSUME InputsOK, n \in 1..Len(chain)
  PROVE  /\ GlobalRef = Global(Named)
         /\ GlobalRef[2] = Named
BY DEF GlobalRef, Named, CandidatesOf, DeclaredNames, Global, Type, Var

LEMMA NoEmptyName ==
  ASSUME InputsOK
  PROVE  /\ <<>> \notin DeclaredNames /\ <<>> \notin bound
         /\ \A f \in 0..Len(scope) : <<>> \notin FrameNames(f)
<1>1. <<>> \notin DeclaredNames /\ <<>> \notin bound
  BY DEF InputsOK, DeclaredNames, Dotted
<1>2. \A f \in 0..Len(scope) : <<>> \notin FrameNames(f)
  BY <1>1 DEF FrameNames
<1>3. QED BY <1>1, <1>2

\* The names of an inner frame, and what the first segment stands for in it.
LEMMA InnerNames ==
  ASSUME InputsOK, NEW f \in 1..Len(scope)
  PROVE  /\ FrameNames(f) = {<<v>> : v \in Visible(scope[f])}
         /\ f \in Around => /\ <<chain[1]>> \in FrameNames(f)
                            /\ InFrame(f, <<chain[1]>>) = LocalAt(f)
<1>1. f # 0
  OBVIOUS
<1>2. DOMAIN EvalFrame(f) = Visible(scope[f])
  BY DEF EvalFrame, Visible
<1>3. FrameNames(f) = {<<v>> : v \in Visible(scope[f])}
  BY <1>1, <1>2 DEF FrameNames
<1>4. ASSUME f \in Around PROVE /\ <<chain[1]>> \in FrameNames(f)
                                /\ InFrame(f, <<chain[1]>>) = LocalAt(f)
  <2>1. chain[1] \in Visible(scope[f])
    BY <1>4 DEF Around
  <2>2. EvalFrame(f)[chain[1]] = LocalAt(f)
    <3>1. chain[1] \in (IF scope[f].at = "loop" THEN scope[f].iters ELSE {}) \cup {scope[f].accu}
      BY <2>1 DEF Visible
    <3>2. QED BY <3>1 DEF EvalFrame, LocalAt
  <2>3. QED BY <1>1, <1>3, <2>1, <2>2 DEF InFrame
<1>5. QED BY <1>3, <1>4

\* In an inner frame only one segment can be found, the first of the chain.
LEMMA InnerReading ==
  ASSUME InputsOK, NEW f \in 1..Len(scope), NEW m \in 1..Len(chain), NEW p \in 0..Depth,
         Reading(p, m) \in FrameNames(f)
  PROVE  p = 0 /\ m = 1 /\ Reading(p, m) = <<chain[1]>> /\ f \in Around
<1>1. PICK v \in Visible(scope[f]) : Reading(p, m) = <<v>>
  BY InnerNames
<1>2. Len(Reading(p, m)) = p + m /\ \A k \in 1..m : Reading(p, m)[p + k] = chain[k]
  BY ReadingType
<1>3. p \in Nat /\ m \in Nat /\ m >= 1 /\ p + m = 1
  BY <1>1, <1>2, ChainType
<1>4. p = 0 /\ m = 1
  BY <1>3
<1>5. Reading(p, m)[1] = chain[1]
  BY <1>2, <1>4
<1>6. v = chain[1]
  BY <1>1, <1>5
<1>7. QED BY <1>1, <1>4, <1>6 DEF Around

\* A reading followed by the next segments of the chain is a longer reading.
LEMMA ReadingExtends ==
  ASSUME InputsOK, NEW m \in 1..Len(chain), NEW p \in 0..Depth, NEW k \in 1..(Len(chain) - m + 1)
  PROVE  Reading(p, m) \o SubSeq(chain, m + 1, m + k - 1) = Reading(p, m + k - 1)
<1>1. /\ 1 \in 1..(Len(chain) + 1) /\ m \in (1 - 1)..Len(chain) /\ m + k - 1 \in m..Len(chain)
      /\ m \in Nat /\ k \in Nat /\ chain \in Seq(Segments) /\ m + k - 1 \in Nat
  BY ChainType
<1>2. SubSeq(chain, 1, m) \o SubSeq(chain, m + 1, m + k - 1) = SubSeq(chain, 1, m + k - 1)
  BY <1>1, ConcatAdjacentSubSeq
<1>3. SubSeq(container, 1, p) \in Seq(Segments)
  <2>1. container \in Seq(Segments) /\ p \in Nat /\ p <= Len(container)
    BY ChainType DEF InputsOK
  <2>2. QED BY <2>1
<1>4. SubSeq(chain, 1, m) \in Seq(Segments)
  BY <1>1
<1>5. SubSeq(chain, m + 1, m + k - 1) \in Seq(Segments)
  BY <1>1
<1> DEFINE A == SubSeq(container, 1, p)
           B == SubSeq(chain, 1, m)
           C == SubSeq(chain, m + 1, m + k - 1)
<1> HIDE DEF A, B, C
<1>6. (A \o B) \o C = A \o (B \o C)
  <2>1. A \in Seq(Segments) /\ B \in Seq(Segments) /\ C \in Seq(Segments)
    BY <1>3, <1>4, <1>5 DEF A, B, C
  <2>2. QED BY <2>1, ConcatAssociative, SMTT(30)
<1>7. QED BY <1>2, <1>6 DEF A, B, C, Reading

LEMMA FirstSegment ==
  ASSUME InputsOK
  PROVE  /\ \A m \in 1..Len(chain) : Reading(0, m) = SubSeq(chain, 1, m)
         /\ Reading(0, 1) = <<chain[1]>>
<1>1. SubSeq(container, 1, 0) = <<>>
  BY DEF InputsOK
<1>2. \A m \in 1..Len(chain) : SubSeq(chain, 1, m) \in Seq(Segments)
  BY ChainType
<1>3. \A m \in 1..Len(chain) : Reading(0, m) = SubSeq(chain, 1, m)
  BY <1>1, <1>2 DEF Reading
<1>4. SubSeq(chain, 1, 1) = <<chain[1]>>
  <2>1. 1 \in 1..Len(chain) /\ chain \in Seq(Segments)
    BY ChainType
  <2>2. SubSeq(chain, 1, 1) = SubSeq(chain, 1, 1 - 1) \o <<chain[1]>>
    <3>1. 1 \in 1..Len(chain) /\ 1 \in 1..Len(chain) /\ 1 <= 1
      BY <2>1
    <3>2. QED BY <2>1, <3>1, SubSeqRecursiveSecond
  <2>3. SubSeq(chain, 1, 1 - 1) = <<>>
    BY <2>1
  <2>4. <<chain[1]>> \in Seq(Segments)
    BY <2>1
  <2>5. QED BY <2>2, <2>3, <2>4, ConcatEmptySeq
<1>5. 1 \in 1..Len(chain)
  BY ChainType
<1>6. QED BY <1>3, <1>4, <1>5

\* The names a checked node is looked up by, and a parsed one.
LEMMA CheckedNames ==
  ASSUME InputsOK, NEW m \in 1..Len(chain), NEW p \in 0..Depth,
         parts = PartsOf(Reading(p, m), m), ctr = <<>>
  PROVE  /\ Len(parts) = Len(chain) - m + 1
         /\ \A k \in 1..Len(parts) : Candidates(Joined(k), dot, ctr) = <<Reading(p, m + k - 1)>>
<1>1. Reading(p, m) \in Seq(Segments)
  BY ReadingType
<1>2. Len(parts) = Len(chain) - m + 1
  BY <1>1, PartsAre
<1>3. ASSUME NEW k \in 1..Len(parts) PROVE Joined(k) = Reading(p, m + k - 1)
  BY <1>1, <1>2, JoinedIs, ReadingExtends
<1>4. QED BY <1>2, <1>3 DEF Candidates

LEMMA FirstOfOne ==
  ASSUME NEW S, NEW x
  PROVE  First(<<x>>, S) = IF x \in S THEN x ELSE <<>>
<1>1. CASE x \in S
  <2>1. Len(<<x>>) \in Nat /\ 1 \in 1..Len(<<x>>) /\ <<x>>[1] \in S
    BY <1>1
  <2>2. \A j \in 1..(1 - 1) : <<x>>[j] \notin S
    OBVIOUS
  <2>3. First(<<x>>, S) = <<x>>[1]
    BY <2>1, <2>2, FirstIs
  <2>4. QED BY <1>1, <2>3
<1>2. CASE x \notin S
  <2>1. {k \in 1..Len(<<x>>) : <<x>>[k] \in S} = {}
    BY <1>2
  <2>2. QED BY <1>2, <2>1 DEF First
<1>3. QED BY <1>1, <1>2

LEMMA CheckedHits ==
  ASSUME InputsOK, NEW m \in 1..Len(chain), NEW p \in 0..Depth,
         parts = PartsOf(Reading(p, m), m), ctr = <<>>, NEW f \in 0..Len(scope)
  PROVE  /\ Hits(f) = {k \in 1..Len(parts) : Reading(p, m + k - 1) \in FrameNames(f)}
         /\ \A k \in Hits(f) :
              First(Candidates(Joined(k), dot, ctr), FrameNames(f)) = Reading(p, m + k - 1)
         /\ \A k \in 1..Len(parts) : TypeNames(k) = {Reading(p, m + k - 1)} \cap declared.types
<1>1. <<>> \notin FrameNames(f)
  BY NoEmptyName
<1>2. ASSUME NEW k \in 1..Len(parts)
      PROVE  /\ First(Candidates(Joined(k), dot, ctr), FrameNames(f))
                  = IF Reading(p, m + k - 1) \in FrameNames(f) THEN Reading(p, m + k - 1) ELSE <<>>
             /\ TypeNames(k) = {Reading(p, m + k - 1)} \cap declared.types
  <2>1. Candidates(Joined(k), dot, ctr) = <<Reading(p, m + k - 1)>>
    BY CheckedNames
  <2>2. First(<<Reading(p, m + k - 1)>>, FrameNames(f))
          = IF Reading(p, m + k - 1) \in FrameNames(f) THEN Reading(p, m + k - 1) ELSE <<>>
    BY FirstOfOne
  <2>3. TypeNames(k) = {<<Reading(p, m + k - 1)>>[j] : j \in 1..1} \cap declared.types
    BY <2>1 DEF TypeNames
  <2>4. QED BY <2>1, <2>2, <2>3
<1>3. QED BY <1>1, <1>2 DEF Hits

LEMMA ParsedHits ==
  ASSUME InputsOK, parts = PartsOf(<<chain[1]>>, 1), ctr = container, dot = absolute,
         NEW f \in 0..Len(scope)
  PROVE  /\ Len(parts) = Len(chain)
         /\ \A k \in 1..Len(chain) : Candidates(Joined(k), dot, ctr) = CandidatesOf(k)
         /\ Hits(f) = {k \in 1..Len(chain) : First(CandidatesOf(k), FrameNames(f)) # <<>>}
<1>1. 1 \in 1..Len(chain) /\ 0 \in 0..Depth /\ <<chain[1]>> \in Seq(Segments)
  BY ChainType
<1>2. Len(parts) = Len(chain)
  <2>1. Len(parts) = Len(chain) - 1 + 1
    BY <1>1, PartsAre
  <2>2. QED BY <2>1, ChainType
<1>3. ASSUME NEW k \in 1..Len(chain) PROVE Joined(k) = SubSeq(chain, 1, k)
  <2>1. k \in 1..(Len(chain) - 1 + 1) /\ 1 + k - 1 = k
    BY ChainType
  <2>2. Joined(k) = <<chain[1]>> \o SubSeq(chain, 1 + 1, 1 + k - 1)
    BY <1>1, <2>1, JoinedIs
  <2>3. Reading(0, 1) \o SubSeq(chain, 1 + 1, 1 + k - 1) = Reading(0, 1 + k - 1)
    BY <1>1, <2>1, ReadingExtends
  <2>4. QED BY <2>1, <2>2, <2>3, FirstSegment
<1>4. \A k \in 1..Len(chain) : Candidates(Joined(k), dot, ctr) = CandidatesOf(k)
  BY <1>3 DEF CandidatesOf
<1>5. QED BY <1>2, <1>4 DEF Hits

\* In an inner frame a node is found by its first segment or not at all.
LEMMA InnerHitsLocal ==
  ASSUME InputsOK, parts = PartsOf(<<chain[1]>>, 1),
         (ctr = <<>> /\ ~ dot) \/ (ctr = container /\ dot = absolute),
         NEW f \in 1..Len(scope)
  PROVE  /\ Hits(f) # {} <=> f \in Around
         /\ \A k \in Hits(f) :
              /\ k = 1
              /\ First(Candidates(Joined(k), dot, ctr), FrameNames(f)) = <<chain[1]>>
<1>1. 1 \in 1..Len(chain) /\ 0 \in 0..Depth /\ f \in 0..Len(scope) /\ Len(chain) \in Nat
  BY ChainType
<1>2. Reading(0, 1) = <<chain[1]>>
  BY FirstSegment
<1>3. CASE ctr = <<>>
  <2>1. /\ Len(parts) = Len(chain) - 1 + 1
        /\ Hits(f) = {k \in 1..Len(parts) : Reading(0, 1 + k - 1) \in FrameNames(f)}
        /\ \A k \in Hits(f) :
              First(Candidates(Joined(k), dot, ctr), FrameNames(f)) = Reading(0, 1 + k - 1)
    BY <1>1, <1>2, <1>3, CheckedNames, CheckedHits
  <2>2. \A k \in 1..Len(parts) : k \in 1..Len(chain) /\ 1 + k - 1 = k
    BY <1>1, <2>1
  <2>3. ASSUME NEW k \in Hits(f) PROVE k = 1 /\ f \in Around
    BY <1>1, <2>1, <2>2, InnerReading
  <2>4. f \in Around => 1 \in Hits(f)
    BY <1>1, <1>2, <2>1, <2>2, InnerNames
  <2>5. QED BY <1>2, <2>1, <2>2, <2>3, <2>4
<1>4. CASE ctr = container /\ dot = absolute
  <2>1. /\ Hits(f) = {k \in 1..Len(chain) : First(CandidatesOf(k), FrameNames(f)) # <<>>}
        /\ \A k \in 1..Len(chain) : Candidates(Joined(k), dot, ctr) = CandidatesOf(k)
    BY <1>1, <1>4, ParsedHits
  <2>2. <<>> \notin FrameNames(f)
    BY <1>1, NoEmptyName
  <2>3. ASSUME NEW k \in Hits(f)
        PROVE  k = 1 /\ f \in Around /\ First(CandidatesOf(k), FrameNames(f)) = <<chain[1]>>
    <3>1. k \in 1..Len(chain) /\ First(CandidatesOf(k), FrameNames(f)) # <<>>
      BY <2>1
    <3>2. PICK p \in 0..Depth : /\ Reading(p, k) \in FrameNames(f)
                                /\ First(CandidatesOf(k), FrameNames(f)) = Reading(p, k)
      BY <2>2, <3>1, SomeReading
    <3>3. QED BY <3>1, <3>2, InnerReading
  <2>4. f \in Around => 1 \in Hits(f)
    <3>1. SUFFICES ASSUME f \in Around PROVE 1 \in Hits(f)
      OBVIOUS
    <3>2. Reading(0, 1) \in FrameNames(f)
      BY <1>2, <3>1, InnerNames
    <3>3. First(CandidatesOf(1), FrameNames(f)) # <<>>
      BY <1>1, <2>2, <3>2, NoReading
    <3>4. QED BY <1>1, <2>1, <3>3
  <2>5. QED BY <2>1, <2>3, <2>4
<1>5. QED BY <1>3, <1>4

\* A declared name is found in no inner frame unless a local variable is in
\* the way.
LEMMA InnerHitsGlobal ==
  ASSUME InputsOK, NEW m \in 1..Len(chain), NEW p \in 0..Depth,
         parts = PartsOf(Reading(p, m), m), ctr = <<>>, NEW f \in 1..Len(scope), Around = {}
  PROVE  Hits(f) = {}
<1>1. SUFFICES ASSUME NEW k \in Hits(f) PROVE FALSE
  OBVIOUS
<1>2. f \in 0..Len(scope) /\ Len(chain) \in Nat /\ m \in Nat
  BY ChainType
<1>3. Len(parts) = Len(chain) - m + 1
  BY CheckedNames
<1>4. k \in 1..Len(parts) /\ Reading(p, m + k - 1) \in FrameNames(f)
  BY <1>2, CheckedHits
<1>5. m + k - 1 \in 1..Len(chain)
  BY <1>2, <1>3, <1>4
<1>6. QED BY <1>4, <1>5, InnerReading

-----------------------------------------------------------------------------
(***************************************************************************)
(* The steps.                                                              *)
(***************************************************************************)
LEMMA GreatestIs ==
  ASSUME NEW m \in Nat, NEW S, S \subseteq 0..m, S # {}
  PROVE  Greatest(S) \in S /\ \A j \in S : j <= Greatest(S)
<1>1. \E x \in S : \A y \in S : y <= x
  BY GreatestOf
<1>2. QED BY <1>1 DEF Greatest

\* What depends on the inputs alone does not change.
LEMMA InputsKept ==
  ASSUME InputsOK, UNCHANGED inputs
  PROVE  /\ InputsOK'
         /\ Around' = Around /\ Open' = Open /\ DeclaredNames' = DeclaredNames
         /\ CheckLocal(chain[1])' = CheckLocal(chain[1])
         /\ \A m : /\ NoLonger(m)' = NoLonger(m)
                   /\ CandidatesOf(m)' = CandidatesOf(m)
         /\ \A name, m : /\ PartsOf(name, m)' = PartsOf(name, m)
                         /\ RefTo(name, m)' = RefTo(name, m)
         /\ \A names : Meaning(names)' = Meaning(names)
         /\ n' = n => /\ Named' = Named
                      /\ NoLonger(n)' = NoLonger(n)
                      /\ PartsOf(Named, n)' = PartsOf(Named, n)
                      /\ RefTo(Named, n)' = RefTo(Named, n)
<1>1. /\ chain' = chain /\ absolute' = absolute /\ scope' = scope /\ declared' = declared
      /\ bound' = bound /\ container' = container
  BY DEF inputs
<1>2. InputsOK'
  BY <1>1 DEF InputsOK
<1>3. Around' = Around
  BY <1>1 DEF Around
<1>4. Open' = Open
  BY <1>1, <1>3 DEF Open
<1>5. DeclaredNames' = DeclaredNames
  BY <1>1 DEF DeclaredNames
<1>6. CheckLocal(chain[1])' = CheckLocal(chain[1])
  BY <1>1 DEF CheckLocal, CheckFrames, OwnFrames, Local
<1>7. \A m : CandidatesOf(m)' = CandidatesOf(m)
  BY <1>1 DEF CandidatesOf, Candidates
<1>8. \A m : NoLonger(m)' = NoLonger(m)
  BY <1>1, <1>5, <1>7 DEF NoLonger, First
<1>9. \A name, m : PartsOf(name, m)' = PartsOf(name, m)
  BY <1>1 DEF PartsOf
<1>10. \A name, m : RefTo(name, m)' = RefTo(name, m)
  BY <1>1 DEF RefTo, Global, Type, Var
<1>11. \A names : Meaning(names)' = Meaning(names)
  BY <1>1 DEF Meaning, Greatest, Visible, None, Global, Type, Var, Local
<1>12. n' = n => Named' = Named
  BY <1>1 DEF Named, CandidatesOf, Candidates, DeclaredNames, First
<1>13. n' = n => /\ NoLonger(n)' = NoLonger(n)
                 /\ PartsOf(Named, n)' = PartsOf(Named, n)
                 /\ RefTo(Named, n)' = RefTo(Named, n)
  BY <1>8, <1>9, <1>10, <1>12
<1>14. QED BY <1>2, <1>3, <1>4, <1>5, <1>6, <1>7, <1>8, <1>9, <1>10, <1>11, <1>12, <1>13

LEMMA InitInv == Init => Inv
<1> SUFFICES ASSUME Init PROVE Inv
  OBVIOUS
<1> USE ResolutionAssumption
<1>1. InputsOK
  <2>1. chain \in Dotted /\ absolute \in BOOLEAN /\ container \in Seq(Segments)
    BY DEF Init
  <2>2. scope \in Seq(Comprehension)
    BY DEF Init
  <2>3. declared \in [vars : SUBSET Dotted, types : SUBSET Dotted]
    BY DEF Init
  <2>4. bound \in SUBSET Dotted
    BY DEF Init
  <2>5. QED BY <2>1, <2>2, <2>3, <2>4 DEF InputsOK
<1>2. n \in 1..Len(chain) /\ n = Len(chain) /\ frame \in 0..Len(scope)
  BY <1>1, ChainType DEF Init
<1>3. ref = None /\ got = None /\ pc \in {"check", "eval"}
  BY DEF Init
<1>4. Checking
  <2>1. NoLonger(n)
    BY <1>1, <1>2, ChainType DEF NoLonger
  <2>2. QED BY <1>3, <2>1 DEF Checking
<1>5. pc = "eval" => Parsed
  <2>1. SUFFICES ASSUME pc = "eval" PROVE Parsed
    OBVIOUS
  <2>2. /\ parts = [k \in 1..Len(chain) |-> <<chain[k]>>] /\ dot = absolute /\ ctr = container
        /\ frame = IF absolute THEN 0 ELSE Len(scope)
    BY <2>1 DEF Init
  <2>3. parts = PartsOf(<<chain[1]>>, 1)
    BY <1>1, <2>2, ParsedParts
  <2>4. ~ absolute => Innermost
    BY <1>1, <2>2, ChainType DEF Innermost, Around
  <2>5. UncheckedAgrees
    BY <2>1 DEF UncheckedAgrees
  <2>6. QED BY <1>3, <2>1, <2>2, <2>3, <2>4, <2>5 DEF Parsed
<1>6. QED BY <1>1, <1>2, <1>3, <1>4, <1>5 DEF Inv

LEMMA RewrittenKeeps ==
  ASSUME NEW root, NEW name, NEW dotted, Rewritten(root, name, dotted)
  PROVE  /\ UNCHANGED inputs /\ n' = n /\ got' = got /\ pc' = "eval"
         /\ ref' = [root |-> root, fields |-> SubSeq(chain, n + 1, Len(chain))]
         /\ parts' = PartsOf(name, n)
         /\ dot' = dotted /\ ctr' = <<>>
         /\ frame' = IF dotted THEN 0 ELSE Len(scope)
BY DEF Rewritten, PartsOf

LEMMA AsGlobalStep ==
  ASSUME Inv, pc = "check", Shadowed => absolute, AsGlobal
  PROVE  Inv'
<1>1. InputsOK /\ n \in 1..Len(chain) /\ Open /\ NoLonger(n) /\ got = None
  BY ShadowedIs DEF Inv, Checking, Open
<1>2. /\ GlobalRef = Global(Named)
      /\ GlobalRef[2] = Named /\ Named # <<>>
  BY <1>1, GlobalRefIs DEF AsGlobal
<1>3. Rewritten(GlobalRef, Named, Shadowed)
  BY <1>2 DEF AsGlobal
<1>4. /\ UNCHANGED inputs /\ n' = n /\ got' = None /\ pc' = "eval"
      /\ ref' = RefTo(Named, n)
      /\ parts' = PartsOf(Named, n)
      /\ dot' = Shadowed /\ ctr' = <<>>
      /\ frame' = IF Shadowed THEN 0 ELSE Len(scope)
  BY <1>1, <1>2, <1>3, RewrittenKeeps DEF RefTo
<1>5. scope' = scope /\ chain' = chain
  BY <1>4 DEF inputs
<1>6. CheckedGlobal'
  <2>1. Open' /\ NoLonger(n)' /\ Named' # <<>>
    BY <1>1, <1>2, <1>4, InputsKept
  <2>2. ref' = RefTo(Named, n)' /\ parts' = PartsOf(Named, n)'
    BY <1>1, <1>4, InputsKept
  <2>3. (Around # {} => frame = 0)'
    BY <1>1, <1>4, InputsKept, ShadowedIs
  <2>4. RunsAsResolved'
    BY <1>4 DEF RunsAsResolved
  <2>5. QED BY <1>4, <2>1, <2>2, <2>3, <2>4 DEF CheckedGlobal
<1>7. InputsOK' /\ Checking'
  BY <1>1, <1>4, InputsKept DEF Checking
<1>8. n' \in 1..Len(chain') /\ frame' \in 0..Len(scope')
  BY <1>1, <1>4, <1>5, ChainType
<1>9. QED BY <1>4, <1>6, <1>7, <1>8 DEF Inv

LEMMA FieldStep == ASSUME Inv, Field PROVE Inv'
<1>1. /\ InputsOK /\ n \in 1..Len(chain) /\ n > 1 /\ pc = "check" /\ ref = None /\ got = None
      /\ Open => NoLonger(n)
      /\ frame \in 0..Len(scope)
  BY DEF Inv, Checking, Field
<1>2. /\ UNCHANGED inputs /\ n' = n - 1 /\ pc' = pc /\ ref' = ref /\ got' = got /\ frame' = frame
  BY DEF Field
<1>3. chain' = chain /\ scope' = scope
  BY <1>2 DEF inputs
<1>4. Open => NoLonger(n - 1)
  <2>1. SUFFICES ASSUME Open PROVE NoLonger(n - 1)
    OBVIOUS
  <2>2. Named = <<>>
    BY <1>1, <2>1, GlobalRefIs, ShadowedIs DEF Field, Open
  <2>3. \A j \in ((n - 1) + 1)..Len(chain) : j = n \/ j \in (n + 1)..Len(chain)
    BY <1>1, ChainType
  <2>4. QED BY <1>1, <2>1, <2>2, <2>3 DEF NoLonger, Named
<1>5. Checking'
  BY <1>1, <1>2, <1>4, InputsKept DEF Checking
<1>6. n' \in 1..Len(chain') /\ frame' \in 0..Len(scope')
  BY <1>1, <1>2, <1>3, ChainType
<1>7. QED BY <1>1, <1>2, <1>5, <1>6, InputsKept DEF Inv

LEMMA UndeclaredStep == ASSUME Inv, Undeclared PROVE Inv'
<1>1. /\ InputsOK /\ n = 1 /\ n \in 1..Len(chain) /\ ref = None /\ got = None
      /\ Open /\ NoLonger(n)
      /\ frame \in 0..Len(scope) /\ Named = <<>>
  BY ShadowedIs, GlobalRefIs DEF Inv, Checking, Undeclared, Open
<1>2. /\ UNCHANGED inputs /\ n' = n /\ pc' = "rejected" /\ ref' = ref /\ got' = got /\ frame' = frame
  BY DEF Undeclared
<1>3. chain' = chain /\ scope' = scope
  BY <1>2 DEF inputs
<1>4. NoLonger(0)
  <2>1. \A j \in (0 + 1)..Len(chain) : j = n \/ j \in (n + 1)..Len(chain)
    BY <1>1, ChainType
  <2>2. QED BY <1>1, <2>1 DEF NoLonger, Named
<1>5. Checking'
  BY <1>1, <1>2, <1>4, InputsKept DEF Checking
<1>6. QED BY <1>1, <1>2, <1>3, <1>5, InputsKept DEF Inv

LEMMA IdentLocalStep == ASSUME Inv, IdentLocal PROVE Inv'
<1>1. /\ InputsOK /\ n = 1 /\ n \in 1..Len(chain) /\ got = None
      /\ ~ absolute /\ Around # {}
      /\ Rewritten(CheckLocal(chain[1]), <<chain[1]>>, FALSE)
  BY ShadowedIs DEF Inv, IdentLocal
<1>2. /\ UNCHANGED inputs /\ n' = n /\ got' = None /\ pc' = "eval"
      /\ ref' = [root |-> CheckLocal(chain[1]), fields |-> SubSeq(chain, 2, Len(chain))]
      /\ parts' = PartsOf(<<chain[1]>>, 1)
      /\ dot' = FALSE /\ ctr' = <<>>
      /\ frame' = Len(scope)
  <2>1. n + 1 = 2
    BY <1>1
  <2>2. QED BY <1>1, <2>1, RewrittenKeeps
<1>3. chain' = chain /\ scope' = scope /\ absolute' = absolute
  BY <1>2 DEF inputs
<1>4. CheckedLocal'
  <2>1. ~ absolute' /\ Around' # {} /\ CheckLocal(chain[1])' = CheckLocal(chain[1])
    BY <1>1, <1>2, <1>3, InputsKept
  <2>2. parts' = PartsOf(<<chain[1]>>, 1)'
    BY <1>1, <1>2, <1>3 DEF PartsOf
  <2>3. Innermost'
    <3>1. \A k \in Around : k <= Len(scope)
      BY <1>1, ChainType DEF Around
    <3>2. QED BY <1>1, <1>2, <3>1, InputsKept DEF Innermost
  <2>4. QED BY <1>2, <1>3, <2>1, <2>2, <2>3 DEF CheckedLocal
<1>5. InputsOK' /\ Checking'
  BY <1>1, <1>2, InputsKept DEF Checking
<1>6. n' \in 1..Len(chain') /\ frame' \in 0..Len(scope')
  BY <1>1, <1>2, <1>3, ChainType
<1>7. QED BY <1>2, <1>4, <1>5, <1>6 DEF Inv

\* A longer reading extends the reference to a shorter one.
LEMMA ReadsOn ==
  ASSUME InputsOK, NEW m \in 1..Len(chain), NEW p \in 0..Depth, NEW k \in 2..(Len(chain) - m + 1)
  PROVE  Extends([root |-> Var(Reading(p, m + k - 1)), fields |-> SubSeq(chain, m + k, Len(chain))],
                 RefTo(Reading(p, m), m))
<1> DEFINE L == Len(chain)
           fs == SubSeq(chain, m + 1, L)
<1>1. /\ m \in Nat /\ k \in Nat /\ L \in Nat /\ 1 <= m /\ 2 <= k /\ m + k - 1 <= L
      /\ chain \in Seq(Segments)
  BY ChainType
<1>2. fs \in Seq(Segments) /\ Len(fs) = L - m
  BY <1>1
<1>3. SubSeq(fs, 1, k - 1) = SubSeq(chain, m + 1, m + k - 1)
  <2>1. m + 1 \in 1..L /\ L \in 1..L /\ 1 \in 1..(L - (m + 1) + 1) /\ k - 1 \in 1..(L - (m + 1) + 1)
    BY <1>1
  <2>2. SubSeq(fs, 1, k - 1) = SubSeq(chain, (m + 1) + 1 - 1, (m + 1) + (k - 1) - 1)
    BY <1>1, <2>1, SubSeqOfSubSeq
  <2>3. (m + 1) + 1 - 1 = m + 1 /\ (m + 1) + (k - 1) - 1 = m + k - 1
    BY <1>1
  <2>4. QED BY <2>2, <2>3
<1>4. SubSeq(fs, (k - 1) + 1, Len(fs)) = SubSeq(chain, m + k, L)
  <2>1. CASE m + k - 1 = L
    <3>1. (k - 1) + 1 > Len(fs) /\ m + k > L /\ k \in Int /\ Len(fs) \in Int
      BY <1>1, <1>2, <2>1
    <3>2. SubSeq(fs, (k - 1) + 1, Len(fs)) = <<>>
      BY <1>2, <3>1, SubSeqEmpty
    <3>3. SubSeq(chain, m + k, L) = <<>>
      BY <1>1, <3>1, SubSeqEmpty
    <3>4. QED BY <3>2, <3>3
  <2>2. CASE m + k - 1 # L
    <3>1. /\ m + 1 \in 1..L /\ L \in 1..L /\ k \in 1..(L - (m + 1) + 1)
          /\ L - m \in 1..(L - (m + 1) + 1)
      BY <1>1, <2>2
    <3>2. SubSeq(fs, k, L - m) = SubSeq(chain, (m + 1) + k - 1, (m + 1) + (L - m) - 1)
      BY <1>1, <3>1, SubSeqOfSubSeq
    <3>3. (m + 1) + k - 1 = m + k /\ (m + 1) + (L - m) - 1 = L /\ (k - 1) + 1 = k
      BY <1>1
    <3>4. QED BY <1>2, <3>2, <3>3
  <2>3. QED BY <2>1, <2>2
<1>5. Reading(p, m) \o SubSeq(fs, 1, k - 1) = Reading(p, m + k - 1)
  <2>1. k \in 1..(Len(chain) - m + 1)
    BY <1>1
  <2>2. QED BY <1>3, <2>1, ReadingExtends
<1> HIDE DEF fs
<1>6. RefTo(Reading(p, m), m).fields = fs /\ RefTo(Reading(p, m), m).root[2] = Reading(p, m)
  BY DEF RefTo, Global, Type, Var, fs
<1>7. k - 1 \in 1..Len(fs)
  BY <1>1, <1>2
<1>8. QED BY <1>4, <1>5, <1>6, <1>7 DEF Extends

LEMMA FoundIs ==
  ASSUME InputsOK, frame \in 0..Len(scope), Len(parts) \in Nat, Found
  PROVE  \E k \in Hits(frame) :
           /\ \A j \in Hits(frame) : j <= k
           /\ got' = [root |-> InFrame(frame, First(Candidates(Joined(k), dot, ctr), FrameNames(frame))),
                      fields |-> FieldsAfter(k)]
<1>1. Hits(frame) \subseteq 0..Len(parts) /\ Hits(frame) # {}
  BY DEF Hits, Found
<1>2. Greatest(Hits(frame)) \in Hits(frame) /\ \A j \in Hits(frame) : j <= Greatest(Hits(frame))
  BY <1>1, GreatestIs
<1>3. QED BY <1>2 DEF Found

\* What a step of the evaluator leaves alone.
LEMMA EvalKeeps ==
  ASSUME InputsOK, UNCHANGED <<inputs, n, ref, parts, dot, ctr>>
  PROVE  /\ InputsOK' /\ Around' = Around /\ (Open <=> Open')
         /\ Hits(0)' = Hits(0)
         /\ CheckedLocal' <=>
              /\ ~ absolute /\ Around # {}
              /\ ref = [root |-> CheckLocal(chain[1]), fields |-> SubSeq(chain, 2, Len(chain))]
              /\ parts = PartsOf(<<chain[1]>>, 1) /\ ctr = <<>> /\ ~ dot
              /\ pc' # "types"
              /\ pc' = "eval" => \A k \in Around : k <= frame'
              /\ pc' = "done" => got' = ref
         /\ CheckedGlobal' <=>
              /\ Open /\ NoLonger(n) /\ Named # <<>>
              /\ ref = RefTo(Named, n)
              /\ parts = PartsOf(Named, n) /\ ctr = <<>>
              /\ Around # {} => frame' = 0
              /\ RunsAsResolved'
         /\ Parsed' <=>
              /\ ref = None
              /\ parts = PartsOf(<<chain[1]>>, 1) /\ ctr = container /\ dot = absolute
              /\ absolute => frame' = 0
              /\ pc' = "eval" /\ ~ absolute => \A k \in Around : k <= frame'
              /\ pc' = "types" => Open
              /\ UncheckedAgrees'
<1>1. /\ UNCHANGED inputs /\ n' = n /\ ref' = ref /\ parts' = parts /\ dot' = dot /\ ctr' = ctr
      /\ chain' = chain /\ absolute' = absolute /\ scope' = scope /\ bound' = bound
      /\ container' = container
  BY DEF inputs
<1>2. /\ InputsOK' /\ Around' = Around /\ (Open <=> Open')
      /\ CheckLocal(chain[1])' = CheckLocal(chain[1])
      /\ Named' = Named /\ NoLonger(n)' = NoLonger(n)
      /\ PartsOf(Named, n)' = PartsOf(Named, n) /\ RefTo(Named, n)' = RefTo(Named, n)
  BY <1>1, InputsKept
<1>3. PartsOf(<<chain[1]>>, 1)' = PartsOf(<<chain[1]>>, 1)
  BY <1>1 DEF PartsOf
<1>4. Hits(0)' = Hits(0)
  BY <1>1 DEF Hits, FrameNames, Joined, First, Candidates
<1>5. QED BY <1>1, <1>2, <1>3, <1>4 DEF CheckedLocal, CheckedGlobal, Parsed, Innermost

\* What is found for each kind of node.
LEMMA FoundLocal ==
  ASSUME Inv, Found, CheckedLocal
  PROVE  CheckedLocal'
<1>1. /\ InputsOK /\ frame \in 0..Len(scope) /\ pc = "eval" /\ Innermost
      /\ ~ absolute /\ Around # {} /\ ctr = <<>> /\ ~ dot
      /\ parts = PartsOf(<<chain[1]>>, 1)
      /\ ref = [root |-> CheckLocal(chain[1]), fields |-> SubSeq(chain, 2, Len(chain))]
  BY DEF Inv, Found, CheckedLocal
<1>2. <<chain[1]>> \in Seq(Segments) /\ 1 \in 1..Len(chain) /\ 1 \in 1..(Len(chain) - 1 + 1) /\ Len(chain) \in Nat
  BY <1>1, ChainType
<1>3. Len(parts) \in Nat
  <2>1. Len(parts) = Len(chain) - 1 + 1
    BY <1>1, <1>2, PartsAre
  <2>2. QED BY <1>2, <2>1
<1>4. frame \in 1..Len(scope)
  <2>1. PICK j \in Around : TRUE
    BY <1>1
  <2>2. j >= 1 /\ j <= frame /\ j \in Nat
    BY <1>1 DEF Innermost, Around
  <2>3. QED BY <1>1, <2>2, ChainType
<1>5. PICK k \in Hits(frame) :
         got' = [root |-> InFrame(frame, First(Candidates(Joined(k), dot, ctr), FrameNames(frame))),
                 fields |-> FieldsAfter(k)]
  BY <1>1, <1>3, FoundIs
<1>6. frame \in Around /\ k = 1 /\ First(Candidates(Joined(k), dot, ctr), FrameNames(frame)) = <<chain[1]>>
  BY <1>1, <1>4, InnerHitsLocal
<1>7. InFrame(frame, <<chain[1]>>) = LocalAt(frame)
  BY <1>1, <1>4, <1>6, InnerNames
<1>8. LocalAt(frame) = CheckLocal(chain[1])
  BY <1>1, <1>6, CheckLocalIs DEF Innermost
<1>9. FieldsAfter(1) = SubSeq(chain, 2, Len(chain))
  <2>1. FieldsAfter(1) = SubSeq(chain, 1 + 1, Len(chain))
    BY <1>1, <1>2, FieldsAre
  <2>2. QED BY <2>1
<1>10. got' = ref
  BY <1>1, <1>5, <1>6, <1>7, <1>8, <1>9
<1>11. pc' = "done" /\ UNCHANGED <<inputs, n, ref, parts, dot, ctr>>
  BY DEF Found
<1>12. QED BY <1>1, <1>10, <1>11, EvalKeeps

\* The name the checker resolved is a reading of the chain, as is every
\* longer name; none of those is declared.
LEMMA CheckedReading ==
  ASSUME InputsOK, n \in 1..Len(chain), NoLonger(n), Named # <<>>, parts = PartsOf(Named, n), ctr = <<>>
  PROVE  \E p \in 0..Depth :
           /\ Named = Reading(p, n) /\ parts = PartsOf(Reading(p, n), n)
           /\ Named \in DeclaredNames
           /\ Len(parts) = Len(chain) - n + 1
           /\ \A k \in 2..Len(parts) : Reading(p, n + k - 1) \notin DeclaredNames
<1>1. <<>> \notin DeclaredNames
  BY NoEmptyName
<1>2. PICK p \in 0..Depth : Reading(p, n) \in DeclaredNames /\ Named = Reading(p, n)
  BY <1>1, SomeReading DEF Named
<1>3. parts = PartsOf(Reading(p, n), n)
  BY <1>2
<1>4. Len(parts) = Len(chain) - n + 1
  BY <1>3, CheckedNames
<1>5. ASSUME NEW k \in 2..Len(parts) PROVE Reading(p, n + k - 1) \notin DeclaredNames
  <2>1. n + k - 1 \in (n + 1)..Len(chain) /\ n + k - 1 \in 1..Len(chain)
    BY <1>4, ChainType
  <2>2. First(CandidatesOf(n + k - 1), DeclaredNames) = <<>>
    BY <2>1 DEF NoLonger
  <2>3. QED BY <1>1, <2>1, <2>2, NoReading
<1>6. QED BY <1>2, <1>3, <1>4, <1>5

LEMMA FoundGlobal ==
  ASSUME Inv, Found, CheckedGlobal
  PROVE  CheckedGlobal'
<1>1. /\ InputsOK /\ frame \in 0..Len(scope) /\ pc = "eval" /\ n \in 1..Len(chain)
      /\ Open /\ NoLonger(n) /\ Named # <<>> /\ ref = RefTo(Named, n)
      /\ parts = PartsOf(Named, n) /\ ctr = <<>>
      /\ Around # {} => frame = 0
  BY DEF Inv, Found, CheckedGlobal
<1>2. PICK p \in 0..Depth :
         /\ Named = Reading(p, n) /\ parts = PartsOf(Reading(p, n), n)
         /\ Named \in DeclaredNames
         /\ Len(parts) = Len(chain) - n + 1
         /\ \A k \in 2..Len(parts) : Reading(p, n + k - 1) \notin DeclaredNames
  BY <1>1, CheckedReading
<1>3. frame = 0
  <2>1. SUFFICES ASSUME frame # 0 PROVE FALSE
    OBVIOUS
  <2>2. frame \in 1..Len(scope) /\ Around = {}
    BY <1>1, <2>1, ChainType
  <2>3. Hits(frame) = {}
    BY <1>1, <1>2, <2>2, InnerHitsGlobal
  <2>4. QED BY <2>3 DEF Found
<1>4. PICK k \in Hits(0) :
         got' = [root |-> InFrame(0, First(Candidates(Joined(k), dot, ctr), FrameNames(0))),
                 fields |-> FieldsAfter(k)]
  <2>1. Len(parts) \in Nat
    BY <1>1, <1>2, ChainType
  <2>2. QED BY <1>1, <1>3, <2>1, FoundIs
<1> DEFINE J == Reading(p, n + k - 1)
<1>5. k \in 1..Len(parts) /\ J \in bound /\ First(Candidates(Joined(k), dot, ctr), FrameNames(0)) = J
  <2>1. 0 \in 0..Len(scope)
    BY <1>1
  <2>2. QED BY <1>1, <1>2, <2>1, CheckedHits DEF FrameNames
<1>6. got' = [root |-> Var(J), fields |-> SubSeq(chain, n + k, Len(chain))]
  <2>1. Reading(p, n) \in Seq(Segments)
    BY <1>1, ReadingType
  <2>2. FieldsAfter(k) = SubSeq(chain, n + k, Len(chain))
    BY <1>1, <1>2, <1>5, <2>1, FieldsAre
  <2>3. QED BY <1>4, <1>5, <2>2 DEF InFrame
<1>7. pc' = "done" /\ UNCHANGED <<inputs, n, ref, parts, dot, ctr>> /\ frame' = frame /\ ref' = ref
      /\ bound' = bound /\ declared' = declared
  BY DEF Found, inputs
<1>8. RunsAsResolved'
  <2>1. CASE k = 1
    <3>1. J = Named
      <4>1. n + k - 1 = n
        BY <1>1, <2>1, ChainType
      <4>2. QED BY <1>2, <4>1
    <3>2. n + k = n + 1
      BY <2>1
    <3>3. got' = [root |-> Var(Named), fields |-> SubSeq(chain, n + 1, Len(chain))]
      BY <1>6, <3>1, <3>2
    <3>4. CASE Named \in declared.types \ declared.vars
      <4>1. ref = [root |-> Type(Named), fields |-> SubSeq(chain, n + 1, Len(chain))]
        BY <1>1, <3>4 DEF RefTo, Global
      <4>2. /\ ref.root[1] = "type" /\ ref.root[2] = Named
            /\ got' = [root |-> Var(ref.root[2]), fields |-> ref.fields]
        BY <3>3, <4>1 DEF Type
      <4>3. QED BY <1>5, <1>7, <3>1, <4>2 DEF RunsAsResolved
    <3>5. CASE Named \notin declared.types \ declared.vars
      <4>1. got' = ref
        BY <1>1, <3>3, <3>5 DEF RefTo, Global
      <4>2. QED BY <1>7, <4>1 DEF RunsAsResolved
    <3>6. QED BY <3>4, <3>5
  <2>2. CASE k # 1
    <3>1. k \in 2..(Len(chain) - n + 1) /\ k \in 2..Len(parts)
      BY <1>1, <1>2, <1>5, <2>2, ChainType
    <3>2. Extends(got', ref)
      BY <1>1, <1>2, <1>6, <3>1, ReadsOn
    <3>3. got'.root[2] = J
      BY <1>6 DEF Var
    <3>4. J \in bound \ declared.vars
      BY <1>2, <1>5, <3>1 DEF DeclaredNames
    <3>5. ref.root[1] # "local"
      BY <1>1 DEF RefTo, Global, Type, Var
    <3>6. Extends(got, ref)'
      BY <1>7, <3>2 DEF Extends, Var
    <3>7. QED BY <1>7, <3>3, <3>4, <3>5, <3>6 DEF RunsAsResolved
  <2>3. QED BY <2>1, <2>2
<1>9. QED BY <1>1, <1>3, <1>7, <1>8, EvalKeeps

LEMMA FoundParsed ==
  ASSUME Inv, Found, Parsed
  PROVE  Parsed'
<1>1. /\ InputsOK /\ frame \in 0..Len(scope) /\ pc = "eval" /\ ref = None
      /\ parts = PartsOf(<<chain[1]>>, 1) /\ ctr = container /\ dot = absolute
      /\ absolute => frame = 0
      /\ ~ absolute => Innermost
  BY DEF Inv, Found, Parsed
<1>2. /\ <<chain[1]>> \in Seq(Segments) /\ 1 \in 1..Len(chain) /\ Len(chain) \in Nat
      /\ 0 \in 0..Len(scope)
  BY <1>1, ChainType
<1>3. Len(parts) = Len(chain)
  BY <1>1, <1>2, ParsedHits
<1>4. PICK k \in Hits(frame) :
         /\ \A j \in Hits(frame) : j <= k
         /\ got' = [root |-> InFrame(frame, First(Candidates(Joined(k), dot, ctr), FrameNames(frame))),
                    fields |-> FieldsAfter(k)]
  BY <1>1, <1>2, <1>3, FoundIs
<1>5. k \in 1..Len(chain) /\ FieldsAfter(k) = SubSeq(chain, k + 1, Len(chain))
  <2>1. k \in 1..Len(chain) /\ k \in 1..(Len(chain) - 1 + 1) /\ 1 + k = k + 1
    BY <1>2, <1>3 DEF Hits
  <2>2. FieldsAfter(k) = SubSeq(chain, 1 + k, Len(chain))
    BY <1>1, <1>2, <2>1, FieldsAre
  <2>3. QED BY <2>1, <2>2
<1>6. pc' = "done" /\ UNCHANGED <<inputs, n, ref, parts, dot, ctr>> /\ frame' = frame
      /\ UNCHANGED inputs /\ declared' = declared /\ bound' = bound
  BY DEF Found, inputs
<1>7. declared.types = {} => got' = Meaning(bound)
  <2>1. SUFFICES ASSUME declared.types = {} PROVE got' = Meaning(bound)
    OBVIOUS
  <2>2. CASE frame # 0
    <3>1. frame \in 1..Len(scope) /\ ~ absolute
      BY <1>1, <2>2, ChainType
    <3>2. /\ frame \in Around /\ k = 1
          /\ First(Candidates(Joined(k), dot, ctr), FrameNames(frame)) = <<chain[1]>>
      BY <1>1, <3>1, InnerHitsLocal
    <3>3. InFrame(frame, <<chain[1]>>) = LocalAt(frame)
      BY <1>1, <3>1, <3>2, InnerNames
    <3>4. Meaning(bound) = [root |-> LocalAt(frame), fields |-> SubSeq(chain, 2, Len(chain))]
      BY <1>1, <3>1, <3>2, MeaningLocal DEF Innermost
    <3>5. k + 1 = 2
      BY <3>2
    <3>6. QED BY <1>4, <1>5, <3>2, <3>3, <3>4, <3>5
  <2>3. CASE frame = 0
    <3>1. absolute \/ Around = {}
      <4>1. \A j \in Around : j >= 1 /\ ~ (j <= 0)
        BY DEF Around
      <4>2. QED BY <1>1, <2>3, <4>1 DEF Innermost
    <3>2. /\ \A j \in 1..Len(chain) : Candidates(Joined(j), dot, ctr) = CandidatesOf(j)
          /\ Hits(0) = {j \in 1..Len(chain) : First(CandidatesOf(j), FrameNames(0)) # <<>>}
      BY <1>1, <1>2, ParsedHits
    <3>3. FrameNames(0) = bound
      BY DEF FrameNames
    <3>4. First(CandidatesOf(k), bound) # <<>>
      BY <1>4, <2>3, <3>2, <3>3
    <3>5. \A j \in (k + 1)..Len(chain) : First(CandidatesOf(j), bound) = <<>>
      <4>1. \A j \in (k + 1)..Len(chain) : j \in 1..Len(chain) /\ ~ (j <= k)
        BY <1>2, <1>5
      <4>2. QED BY <1>4, <2>3, <3>2, <3>3, <4>1
    <3>6. <<>> \notin bound
      BY <1>1, NoEmptyName
    <3>7. Meaning(bound) = [root |-> Var(First(CandidatesOf(k), bound)),
                            fields |-> SubSeq(chain, k + 1, Len(chain))]
      BY <1>1, <1>5, <2>1, <3>1, <3>4, <3>5, <3>6, MeaningRead DEF Global
    <3>8. QED BY <1>4, <1>5, <2>3, <3>2, <3>3, <3>7 DEF InFrame
  <2>4. QED BY <2>2, <2>3
<1>8. UncheckedAgrees'
  <2>1. Meaning(bound)' = Meaning(bound)
    BY <1>6 DEF inputs, Meaning, Greatest, Visible, None, Global, Type, Var, Local
  <2>2. QED BY <1>6, <1>7, <2>1 DEF UncheckedAgrees
<1>9. QED BY <1>1, <1>6, <1>8, EvalKeeps

\* Every step of the evaluator keeps the invariant if it keeps what the node is.
LEMMA EvalInv ==
  ASSUME Inv, UNCHANGED <<inputs, n, ref, parts, dot, ctr>>,
         pc' \in {"eval", "types", "done"}, frame' \in 0..Len(scope),
         pc' # "done" => got' = None,
         CheckedLocal' \/ CheckedGlobal' \/ Parsed',
         pc' = "types" => frame' = 0 /\ Hits(0) = {}
  PROVE  Inv'
<1>1. InputsOK /\ n \in 1..Len(chain)
  BY DEF Inv
<1>2. chain' = chain /\ scope' = scope /\ n' = n
  BY DEF inputs
<1>3. InputsOK' /\ Hits(0)' = Hits(0)
  BY <1>1, EvalKeeps
<1>4. Checking'
  BY DEF Checking
<1>5. QED BY <1>1, <1>2, <1>3, <1>4 DEF Inv

LEMMA FoundStep == ASSUME Inv, Found PROVE Inv'
<1>1. pc' = "done" /\ UNCHANGED <<inputs, n, ref, parts, dot, ctr>> /\ frame' = frame /\ pc = "eval"
  BY DEF Found
<1>2. CheckedLocal' \/ CheckedGlobal' \/ Parsed'
  <2>1. CheckedLocal \/ CheckedGlobal \/ Parsed
    BY <1>1 DEF Inv
  <2>2. QED BY <2>1, FoundLocal, FoundGlobal, FoundParsed
<1>3. frame' \in 0..Len(scope)
  BY <1>1 DEF Inv
<1>4. QED BY <1>1, <1>2, <1>3, EvalInv

LEMMA OutwardStep == ASSUME Inv, Outward PROVE Inv'
<1>1. /\ UNCHANGED <<inputs, n, ref, parts, dot, ctr>> /\ got' = got /\ pc = "eval" /\ got = None
      /\ Hits(frame) = {} /\ frame \in 0..Len(scope) /\ InputsOK /\ n \in 1..Len(chain)
  BY DEF Outward, Inv
<1>2. \/ frame \in 1..Len(scope) /\ frame' = frame - 1 /\ pc' = "eval"
      \/ frame = 0 /\ frame' = 0 /\ pc' = "types"
  BY <1>1, ChainType DEF Outward
<1>3. frame' \in 0..Len(scope)
  BY <1>1, <1>2, ChainType
<1>4. \A k \in Around : k \in Nat /\ k >= 1
  BY DEF Around
\* A frame left behind is not that of the variable.
<1>5. ASSUME frame \in 1..Len(scope), Innermost, parts = PartsOf(<<chain[1]>>, 1),
             (ctr = <<>> /\ ~ dot) \/ (ctr = container /\ dot = absolute)
      PROVE  \A k \in Around : k <= frame - 1
  <2>1. frame \notin Around
    BY <1>1, <1>5, InnerHitsLocal
  <2>2. QED BY <1>4, <1>5, <2>1 DEF Innermost
<1>6. CASE CheckedLocal
  <2>1. /\ ~ absolute /\ Around # {} /\ Innermost
        /\ ref = [root |-> CheckLocal(chain[1]), fields |-> SubSeq(chain, 2, Len(chain))]
        /\ parts = PartsOf(<<chain[1]>>, 1) /\ ctr = <<>> /\ ~ dot
    BY <1>1, <1>6 DEF CheckedLocal
  <2>2. frame # 0
    BY <1>4, <2>1 DEF Innermost
  <2>3. frame \in 1..Len(scope) /\ frame' = frame - 1 /\ pc' = "eval"
    BY <1>2, <2>2
  <2>4. \A k \in Around : k <= frame'
    BY <1>5, <2>1, <2>3
  <2>5. CheckedLocal'
    BY <1>1, <2>1, <2>3, <2>4, EvalKeeps
  <2>6. QED BY <1>1, <1>3, <2>3, <2>5, EvalInv
<1>7. CASE CheckedGlobal
  <2>1. /\ Open /\ NoLonger(n) /\ Named # <<>> /\ ref = RefTo(Named, n)
        /\ parts = PartsOf(Named, n) /\ ctr = <<>>
        /\ Around # {} => frame = 0
    BY <1>7 DEF CheckedGlobal
  <2>2. Around # {} => frame' = 0
    BY <1>2, <2>1
  <2>3. pc' # "done" /\ RunsAsResolved'
    BY <1>2 DEF RunsAsResolved
  <2>4. CheckedGlobal'
    BY <1>1, <2>1, <2>2, <2>3, EvalKeeps
  <2>5. QED BY <1>1, <1>2, <1>3, <2>4, EvalInv
<1>8. CASE Parsed
  <2>1. /\ ref = None
        /\ parts = PartsOf(<<chain[1]>>, 1) /\ ctr = container /\ dot = absolute
        /\ absolute => frame = 0
        /\ ~ absolute => Innermost
    BY <1>1, <1>8 DEF Parsed
  <2>2. absolute => frame' = 0
    BY <1>2, <2>1
  <2>3. pc' = "eval" /\ ~ absolute => \A k \in Around : k <= frame'
    BY <1>2, <1>5, <2>1
  <2>4. pc' = "types" => Open
    BY <1>2, <1>4, <2>1 DEF Open, Innermost
  <2>5. UncheckedAgrees'
    BY <1>2 DEF UncheckedAgrees
  <2>6. Parsed'
    BY <1>1, <2>1, <2>2, <2>3, <2>4, <2>5, EvalKeeps
  <2>7. QED BY <1>1, <1>2, <1>3, <2>6, EvalInv
<1>9. QED BY <1>1, <1>6, <1>7, <1>8 DEF Inv

LEMMA TypesStep == ASSUME Inv, TypeFound \/ NoAttribute PROVE Inv'
<1>1. /\ UNCHANGED <<inputs, n, ref, parts, dot, ctr>> /\ pc = "types" /\ pc' = "done" /\ frame' = frame
      /\ frame = 0 /\ Hits(0) = {} /\ InputsOK /\ n \in 1..Len(chain) /\ got = None
      /\ 0 \in 0..Len(scope) /\ Len(chain) \in Nat
  BY ChainType DEF TypeFound, NoAttribute, Inv
<1>2. declared' = declared /\ bound' = bound /\ ref' = ref /\ UNCHANGED inputs
  BY <1>1 DEF inputs
<1>3. FrameNames(0) = bound
  BY DEF FrameNames
<1>4. CASE CheckedGlobal
  <2>1. /\ Open /\ NoLonger(n) /\ Named # <<>> /\ ref = RefTo(Named, n)
        /\ parts = PartsOf(Named, n) /\ ctr = <<>>
    BY <1>4 DEF CheckedGlobal
  <2>2. PICK p \in 0..Depth :
           /\ Named = Reading(p, n) /\ parts = PartsOf(Reading(p, n), n)
           /\ Named \in DeclaredNames
           /\ Len(parts) = Len(chain) - n + 1
           /\ \A k \in 2..Len(parts) : Reading(p, n + k - 1) \notin DeclaredNames
    BY <1>1, <2>1, CheckedReading
  <2>3. /\ Hits(0) = {k \in 1..Len(parts) : Reading(p, n + k - 1) \in bound}
        /\ \A k \in 1..Len(parts) : TypeNames(k) = {Reading(p, n + k - 1)} \cap declared.types
    BY <1>1, <1>3, <2>1, <2>2, CheckedHits
  <2>4. 1 \in 1..Len(parts) /\ Reading(p, n + 1 - 1) = Named
    <3>1. n + 1 - 1 = n /\ 1 \in 1..Len(parts)
      BY <1>1, <2>2
    <3>2. QED BY <2>2, <3>1
  <2>5. \A k \in 1..Len(parts) : k = 1 \/ (k \in 2..Len(parts) /\ TypeNames(k) = {})
    <3>1. TAKE k \in 1..Len(parts)
    <3>2. SUFFICES ASSUME k # 1 PROVE k \in 2..Len(parts) /\ TypeNames(k) = {}
      OBVIOUS
    <3>3. k \in 2..Len(parts)
      BY <1>1, <2>2, <3>2
    <3>4. Reading(p, n + k - 1) \notin declared.types
      BY <2>2, <3>3 DEF DeclaredNames
    <3>5. QED BY <2>3, <3>3, <3>4
  <2>6. Named \notin bound /\ TypeNames(1) = {Named} \cap declared.types
    BY <1>1, <2>3, <2>4
  <2>7. RunsAsResolved'
    <3>1. CASE TypeFound
      <4>1. PICK k \in 1..Len(parts) :
              /\ TypeNames(k) # {}
              /\ \E name \in TypeNames(k) : got' = [root |-> Type(name), fields |-> FieldsAfter(k)]
        BY <3>1 DEF TypeFound
      <4>2. k = 1
        BY <2>5, <4>1
      <4>3. Named \in declared.types /\ got' = [root |-> Type(Named), fields |-> FieldsAfter(1)]
        BY <2>6, <4>1, <4>2
      <4>4. FieldsAfter(1) = SubSeq(chain, n + 1, Len(chain))
        <5>1. Reading(p, n) \in Seq(Segments)
          BY <1>1, ReadingType
        <5>2. QED BY <1>1, <2>2, <2>4, <5>1, FieldsAre
      <4>5. got' = [root |-> Type(Named), fields |-> ref.fields]
        BY <2>1, <4>3, <4>4 DEF RefTo
      <4>6. CASE Named \in declared.vars
        <5>1. ref.root[1] = "var" /\ ref.root[2] = Named
          BY <2>1, <4>6 DEF RefTo, Global, Var
        <5>2. QED BY <1>2, <2>6, <4>3, <4>5, <5>1 DEF RunsAsResolved
      <4>7. CASE Named \notin declared.vars
        <5>1. got' = ref
          BY <2>1, <4>3, <4>5, <4>7 DEF RefTo, Global
        <5>2. QED BY <1>2, <5>1 DEF RunsAsResolved
      <4>8. QED BY <4>6, <4>7
    <3>2. CASE NoAttribute
      <4>1. TypeNames(1) = {} /\ got' = None
        BY <1>1, <2>4, <3>2 DEF NoAttribute
      <4>2. Named \notin declared.types
        BY <2>6, <4>1
      <4>3. ref.root = Var(Named)
        BY <2>1, <4>2 DEF RefTo, Global
      <4>4. ref.root[1] = "var" /\ ref.root[2] = Named
        BY <4>3 DEF Var
      <4>5. QED BY <1>2, <2>6, <4>1, <4>4 DEF RunsAsResolved, None
    <3>3. QED BY <3>1, <3>2
  <2>8. CheckedGlobal'
    BY <1>1, <2>1, <2>7, EvalKeeps
  <2>9. QED BY <1>1, <2>8, EvalInv
<1>5. CASE Parsed
  <2>1. /\ ref = None /\ Open
        /\ parts = PartsOf(<<chain[1]>>, 1) /\ ctr = container /\ dot = absolute
    BY <1>1, <1>5 DEF Parsed
  <2>2. declared.types = {} => got' = Meaning(bound)
    <3>1. SUFFICES ASSUME declared.types = {} PROVE got' = Meaning(bound)
      OBVIOUS
    <3>2. \A k \in 1..Len(parts) : TypeNames(k) = {}
      BY <3>1 DEF TypeNames
    <3>3. got' = None
      BY <1>1, <3>2 DEF TypeFound, NoAttribute
    <3>4. Hits(0) = {k \in 1..Len(chain) : First(CandidatesOf(k), bound) # <<>>}
      BY <1>1, <1>3, <2>1, ParsedHits
    <3>5. <<>> \notin bound
      BY <1>1, NoEmptyName
    <3>6. Meaning(bound) = None
      BY <1>1, <2>1, <3>4, <3>5, MeaningNone DEF Open
    <3>7. QED BY <3>3, <3>6
  <2>3. Meaning(bound)' = Meaning(bound)
    BY <1>2 DEF inputs, Meaning, Greatest, Visible, None, Global, Type, Var, Local
  <2>4. UncheckedAgrees'
    BY <1>2, <2>2, <2>3 DEF UncheckedAgrees
  <2>5. Parsed'
    BY <1>1, <2>1, <2>4, EvalKeeps
  <2>6. QED BY <1>1, <2>5, EvalInv
<1>6. QED BY <1>1, <1>4, <1>5 DEF Inv, CheckedLocal

LEMMA NextInv == Inv /\ [Next]_vars => Inv'
<1> SUFFICES ASSUME Inv, [Next]_vars PROVE Inv'
  OBVIOUS
<1>1. CASE Qualified
  BY <1>1, AsGlobalStep DEF Qualified
<1>2. CASE Field
  BY <1>2, FieldStep
<1>3. CASE IdentLocal
  BY <1>3, IdentLocalStep
<1>4. CASE IdentGlobal
  BY <1>4, AsGlobalStep DEF IdentGlobal
<1>5. CASE Undeclared
  BY <1>5, UndeclaredStep
<1>6. CASE Found
  BY <1>6, FoundStep
<1>7. CASE Outward
  BY <1>7, OutwardStep
<1>8. CASE TypeFound \/ NoAttribute
  BY <1>8, TypesStep
<1>9. CASE UNCHANGED vars
  <2>1. /\ UNCHANGED <<inputs, n, ref, parts, dot, ctr>> /\ pc' = pc /\ frame' = frame /\ got' = got
        /\ UNCHANGED inputs /\ chain' = chain /\ scope' = scope /\ n' = n /\ ref' = ref
        /\ bound' = bound /\ declared' = declared
    BY <1>9 DEF vars, inputs
  <2>2. CASE pc \in {"check", "rejected"}
    <3>1. InputsOK' /\ Checking'
      BY <2>1, InputsKept DEF Inv, Checking
    <3>2. QED BY <2>1, <2>2, <3>1 DEF Inv
  <2>3. CASE pc \in {"eval", "types", "done"}
    <3>1. RunsAsResolved' <=> RunsAsResolved
      BY <2>1 DEF RunsAsResolved, Extends, Var
    <3>2. Meaning(bound)' = Meaning(bound)
      BY <2>1 DEF inputs, Meaning, Greatest, Visible, None, Global, Type, Var, Local
    <3>3. UncheckedAgrees' <=> UncheckedAgrees
      BY <2>1, <3>2 DEF UncheckedAgrees
    <3>4. InputsOK /\ (CheckedLocal \/ CheckedGlobal \/ Parsed)
      BY <2>3 DEF Inv
    <3>5. CheckedLocal => CheckedLocal'
      BY <2>1, <3>4, EvalKeeps DEF CheckedLocal, Innermost
    <3>6. CheckedGlobal => CheckedGlobal'
      BY <2>1, <3>1, <3>4, EvalKeeps DEF CheckedGlobal
    <3>7. Parsed => Parsed'
      BY <2>1, <3>3, <3>4, EvalKeeps DEF Parsed, Innermost
    <3>8. QED BY <2>1, <2>3, <3>4, <3>5, <3>6, <3>7, EvalInv DEF Inv
  <2>4. QED BY <2>2, <2>3 DEF Inv
<1>10. QED BY <1>1, <1>2, <1>3, <1>4, <1>5, <1>6, <1>7, <1>8, <1>9 DEF Next

-----------------------------------------------------------------------------
(***************************************************************************)
(* The theorems.                                                           *)
(***************************************************************************)
\* The invariant holds in every state.
THEOREM InvHolds == Spec => []Inv
BY InitInv, NextInv, PTL DEF Spec

\* The checker leaves the meaning of the chain in the node, and rejects only a
\* chain without one (cel._ck_qualified, cel._ck_ident).
THEOREM ChecksMeaningHolds == Spec => []ChecksMeaning
<1>1. Inv => ChecksMeaning
  <2> SUFFICES ASSUME Inv PROVE ChecksMeaning
    OBVIOUS
  <2>1. InputsOK /\ n \in 1..Len(chain) /\ <<>> \notin DeclaredNames
    BY NoEmptyName DEF Inv
  <2>2. ASSUME CheckedLocal PROVE ref = Meaning(DeclaredNames)
    <3>1. /\ ~ absolute /\ Around # {}
          /\ ref = [root |-> CheckLocal(chain[1]), fields |-> SubSeq(chain, 2, Len(chain))]
      BY <2>2 DEF CheckedLocal
    <3>2. PICK k \in Around : \A j \in Around : j <= k
      <4>1. Around \subseteq 0..Len(scope) /\ Len(scope) \in Nat
        BY <2>1, ChainType DEF Around
      <4>2. QED BY <3>1, <4>1, GreatestOf
    <3>3. CheckLocal(chain[1]) = LocalAt(k)
      BY <2>1, <3>2, CheckLocalIs
    <3>4. QED BY <2>1, <3>1, <3>2, <3>3, MeaningLocal
  <2>3. ASSUME CheckedGlobal PROVE ref = Meaning(DeclaredNames)
    <3>1. Open /\ NoLonger(n) /\ Named # <<>> /\ ref = RefTo(Named, n)
      BY <2>3 DEF CheckedGlobal
    <3>2. QED BY <2>1, <3>1, MeaningRead DEF Open, NoLonger, Named, RefTo
  <2>4. ref # None => ref = Meaning(DeclaredNames)
    BY <2>2, <2>3 DEF Inv, Checking, Parsed
  <2>5. ASSUME pc = "rejected" PROVE Meaning(DeclaredNames) = None
    <3>1. Open /\ NoLonger(0)
      BY <2>5 DEF Inv, Checking
    <3>2. \A m \in 1..Len(chain) : First(CandidatesOf(m), DeclaredNames) = <<>>
      BY <3>1 DEF NoLonger
    <3>3. QED BY <2>1, <3>1, <3>2, MeaningNone DEF Open
  <2>6. QED BY <2>4, <2>5 DEF ChecksMeaning, DeclaredNames
<1>2. QED BY <1>1, InvHolds, PTL

\* A checked node evaluates to what the checker resolved, whatever the
\* activation binds beyond the declarations (cel._resolve_chain).
THEOREM RunsAsResolvedHolds == Spec => []RunsAsResolved
<1>1. Inv => RunsAsResolved
  <2> SUFFICES ASSUME Inv, pc = "done", ref # None PROVE RunsAsResolved
    BY DEF RunsAsResolved
  <2>1. CheckedLocal \/ CheckedGlobal
    BY DEF Inv, Parsed
  <2>2. CheckedLocal => got = ref
    BY DEF CheckedLocal
  <2>3. QED BY <2>1, <2>2 DEF CheckedGlobal, RunsAsResolved
<1>2. QED BY <1>1, InvHolds, PTL

\* Without types, a parsed node evaluates to the meaning of the chain in the
\* activation (cel._resolve_chain with the container).
THEOREM UncheckedAgreesHolds == Spec => []UncheckedAgrees
<1>1. Inv => UncheckedAgrees
  <2> SUFFICES ASSUME Inv, pc = "done", ref = None PROVE UncheckedAgrees
    BY DEF UncheckedAgrees
  <2>1. ~ CheckedGlobal
    <3>1. RefTo(Named, n) # None
      BY DEF RefTo, Global, None, Type, Var
    <3>2. QED BY <3>1 DEF CheckedGlobal
  <2>2. ~ CheckedLocal
    <3>1. SUFFICES ASSUME CheckedLocal PROVE FALSE
      OBVIOUS
    <3>2. Around # {} /\ ref.root = CheckLocal(chain[1]) /\ InputsOK
      BY <3>1 DEF Inv, CheckedLocal
    <3>3. CheckLocal(chain[1]) # <<"none">>
      BY <3>2, ShadowedIs DEF Shadowed
    <3>4. QED BY <3>2, <3>3 DEF None
  <2>3. QED BY <2>1, <2>2 DEF Inv, Parsed
<1>2. QED BY <1>1, InvHolds, PTL
=============================================================================
