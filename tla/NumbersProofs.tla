---------------------------- MODULE NumbersProofs ----------------------------
(***************************************************************************)
(* Proofs about the numeric part of the standard library, for integers and *)
(* doubles of any width: at 64 bits as at the few that TLC checks.         *)
(***************************************************************************)
EXTENDS Numbers, WellFoundedInduction, TLAPS

-----------------------------------------------------------------------------
(***************************************************************************)
(* Induction over an interval of the natural numbers, as facts about sets: *)
(* the induction theorems of the library take an operator, these take the  *)
(* set of the numbers for which the claim holds.                           *)
(***************************************************************************)
\* A nonempty set of natural numbers has a least element.
LEMMA LeastOf ==
  ASSUME NEW T, T \subseteq Nat, T # {}
  PROVE  \E u \in T : \A v \in T : u <= v
<1>1. \A u, v \in Nat : <<v, u>> \in OpToRel(<, Nat) <=> v < u
  BY DEF OpToRel
<1>2. \E R : /\ IsWellFoundedOn(R, Nat)
             /\ \A u, v \in Nat : <<v, u>> \in R <=> v < u
  BY <1>1, NatLessThanWellFounded
<1>3. PICK R : /\ IsWellFoundedOn(R, Nat)
               /\ \A u, v \in Nat : <<v, u>> \in R <=> v < u
  BY <1>2
<1>4. \E u \in T : \A v \in T : ~ (<<v, u>> \in R)
  BY <1>3, WFMin
<1>5. PICK u \in T : \A v \in T : ~ (<<v, u>> \in R)
  BY <1>4
<1>6. ASSUME NEW v \in T PROVE u <= v
  <2>1. u \in Nat /\ v \in Nat /\ <<v, u>> \notin R
    BY <1>5
  <2>2. ~ (v < u)
    BY <1>3, <2>1
  <2>3. QED BY <2>1, <2>2
<1>7. QED BY <1>6

\* Induction from 0 to n; G is where the claim holds.
LEMMA UpTo ==
  ASSUME NEW n \in Nat, NEW G, 0 \in G,
         \A k \in 0..(n - 1) : k \in G => k + 1 \in G
  PROVE  \A k \in 0..n : k \in G
<1> DEFINE Bad == {k \in 0..n : k \notin G}
<1>1. Bad \subseteq Nat
  OBVIOUS
<1>2. SUFFICES ASSUME Bad # {} PROVE FALSE
  OBVIOUS
<1>3. PICK m \in Bad : \A v \in Bad : m <= v
  <2> HIDE DEF Bad
  <2> QED BY <1>1, <1>2, LeastOf
<1>4. m \in 0..n /\ m \notin G /\ m # 0
  OBVIOUS
<1>5. m - 1 \in 0..(n - 1) /\ m - 1 \in 0..n
  BY <1>4
<1>6. m - 1 \notin Bad
  <2>1. m - 1 < m
    BY <1>4
  <2>2. QED BY <1>3, <1>4, <1>5, <2>1
<1>7. m - 1 \in G
  BY <1>5, <1>6
<1>8. (m - 1) + 1 \in G
  BY <1>5, <1>7
<1>9. QED BY <1>4, <1>8

-----------------------------------------------------------------------------
(***************************************************************************)
(* Powers.                                                                 *)
(***************************************************************************)
\* f is the powers of b up to n.
PowersTo(b, n, f) == f = [k \in 0..n |-> IF k = 0 THEN 1 ELSE b * f[k - 1]]

LEMMA PowersToAt ==
  ASSUME NEW b, NEW n \in Nat, NEW f, PowersTo(b, n, f)
  PROVE  /\ f[0] = 1
         /\ \A k \in 0..(n - 1) : f[k + 1] = b * f[k]
<1>1. 0 \in 0..n /\ \A k \in 0..(n - 1) : k + 1 \in 0..n /\ k + 1 # 0 /\ (k + 1) - 1 = k
  OBVIOUS
<1>2. f = [k \in 0..n |-> IF k = 0 THEN 1 ELSE b * f[k - 1]]
  BY DEF PowersTo
<1>3. f[0] = 1
  BY <1>1, <1>2
<1>4. ASSUME NEW k \in 0..(n - 1) PROVE f[k + 1] = b * f[k]
  <2>1. f[k + 1] = b * f[(k + 1) - 1]
    BY <1>1, <1>2
  <2>2. QED BY <1>1, <2>1
<1>5. QED BY <1>3, <1>4

LEMMA PowersToExist ==
  ASSUME NEW b, NEW n \in Nat
  PROVE  \E f : PowersTo(b, n, f)
<1> DEFINE G == {m \in 0..n : \E f : PowersTo(b, m, f)}
<1>1. 0 \in G
  <2>1. PowersTo(b, 0, [k \in 0..0 |-> 1])
    BY DEF PowersTo
  <2>2. QED BY <2>1
<1>2. ASSUME NEW m \in 0..(n - 1), m \in G PROVE m + 1 \in G
  <2>1. PICK f : PowersTo(b, m, f)
    BY <1>2
  <2> DEFINE e == [k \in 0..(m + 1) |-> IF k = m + 1 THEN b * f[m] ELSE f[k]]
  <2>2. m \in Nat /\ m + 1 \in 0..n
    OBVIOUS
  <2>3. ASSUME NEW k \in 0..(m + 1)
        PROVE  e[k] = IF k = 0 THEN 1 ELSE b * e[k - 1]
    <3>1. CASE k = m + 1
      <4>1. k # 0 /\ k - 1 = m /\ m \in 0..(m + 1) /\ m # m + 1
        BY <2>2, <3>1
      <4>2. e[k - 1] = f[m]
        BY <4>1
      <4>3. QED BY <3>1, <4>1, <4>2
    <3>2. CASE k # m + 1
      <4>1. k \in 0..m
        BY <2>2, <3>2
      <4>2. e[k] = f[k] /\ f[k] = (IF k = 0 THEN 1 ELSE b * f[k - 1])
        BY <2>1, <3>2, <4>1 DEF PowersTo
      <4>3. k # 0 => k - 1 \in 0..(m + 1) /\ k - 1 # m + 1
        BY <2>2, <4>1
      <4>4. k # 0 => e[k - 1] = f[k - 1]
        BY <4>3
      <4>5. QED BY <4>2, <4>4
    <3>3. QED BY <3>1, <3>2
  <2>4. PowersTo(b, m + 1, e)
    BY <2>3 DEF PowersTo
  <2>5. QED BY <2>2, <2>4
<1>3. \A m \in 0..n : m \in G
  <2> HIDE DEF G
  <2> QED BY <1>1, <1>2, UpTo
<1>4. QED BY <1>3

LEMMA PowersToAgree ==
  ASSUME NEW b, NEW n \in Nat, NEW m \in 0..n, NEW f, PowersTo(b, n, f), NEW g, PowersTo(b, m, g)
  PROVE  \A k \in 0..m : f[k] = g[k]
<1> DEFINE G == {k \in 0..m : f[k] = g[k]}
<1>1. m \in Nat /\ m <= n
  OBVIOUS
<1>2. 0 \in G
  <2>1. f[0] = 1
    BY PowersToAt
  <2>2. g[0] = 1
    BY <1>1, PowersToAt
  <2>3. QED BY <1>1, <2>1, <2>2
<1>3. ASSUME NEW k \in 0..(m - 1), k \in G PROVE k + 1 \in G
  <2>1. k \in 0..(n - 1) /\ k + 1 \in 0..m
    BY <1>1
  <2>2. f[k + 1] = b * f[k] /\ g[k + 1] = b * g[k]
    BY <1>1, <2>1, PowersToAt
  <2>3. QED BY <1>3, <2>1, <2>2
<1>4. \A k \in 0..m : k \in G
  <2> HIDE DEF G
  <2> QED BY <1>1, <1>2, <1>3, UpTo
<1>5. QED BY <1>4

\* A function defined by the recursion of Pow2 and PowBase exists.
Powers(b) == CHOOSE f : f = [k \in Nat |-> IF k = 0 THEN 1 ELSE b * f[k - 1]]

LEMMA PowersUnfold ==
  ASSUME NEW b
  PROVE  Powers(b) = [k \in Nat |-> IF k = 0 THEN 1 ELSE b * Powers(b)[k - 1]]
<1> DEFINE g(n) == CHOOSE f : PowersTo(b, n, f)
           h == [k \in Nat |-> g(k)[k]]
<1>1. ASSUME NEW n \in Nat PROVE PowersTo(b, n, g(n))
  BY PowersToExist
<1> HIDE DEF g
<1>2. ASSUME NEW k \in Nat PROVE h[k] = IF k = 0 THEN 1 ELSE b * h[k - 1]
  <2>1. CASE k = 0
    <3>1. g(0)[0] = 1
      BY <1>1, PowersToAt
    <3>2. QED BY <2>1, <3>1
  <2>2. CASE k # 0
    <3>1. k - 1 \in Nat /\ k - 1 \in 0..(k - 1) /\ k - 1 \in 0..k /\ (k - 1) + 1 = k
      BY <2>2
    <3>2. g(k)[k] = b * g(k)[k - 1]
      BY <1>1, <3>1, PowersToAt
    <3>3. g(k)[k - 1] = g(k - 1)[k - 1]
      BY <1>1, <3>1, PowersToAgree
    <3>4. QED BY <2>2, <3>1, <3>2, <3>3
  <2>3. QED BY <2>1, <2>2
<1>3. h = [k \in Nat |-> IF k = 0 THEN 1 ELSE b * h[k - 1]]
  BY <1>2
<1>4. QED BY <1>3 DEF Powers

LEMMA PowersAt ==
  ASSUME NEW b
  PROVE  Powers(b)[0] = 1 /\ \A k \in Nat : Powers(b)[k + 1] = b * Powers(b)[k]
<1> DEFINE f == Powers(b)
<1>1. f = [k \in Nat |-> IF k = 0 THEN 1 ELSE b * f[k - 1]]
  BY PowersUnfold
<1> HIDE DEF f
<1>2. f[0] = 1
  BY <1>1
<1>3. ASSUME NEW k \in Nat PROVE f[k + 1] = b * f[k]
  <2>1. k + 1 \in Nat /\ k + 1 # 0 /\ (k + 1) - 1 = k
    OBVIOUS
  <2>2. f[k + 1] = b * f[(k + 1) - 1]
    BY <1>1, <2>1
  <2>3. QED BY <2>1, <2>2
<1>4. QED BY <1>2, <1>3 DEF f

LEMMA PowersAre == Pow2 = Powers(2) /\ PowBase = Powers(Base) /\ PowTen = Powers(10)
  BY DEF Pow2, PowBase, PowTen, Powers

\* A claim that holds of 0 and passes from k to k + 1 holds of all numbers.
LEMMA ForAllNat ==
  ASSUME NEW G, 0 \in G, \A k \in Nat : k \in G => k + 1 \in G
  PROVE  \A n \in Nat : n \in G
<1>1. SUFFICES ASSUME NEW n \in Nat PROVE n \in G
  OBVIOUS
<1>2. \A k \in 0..(n - 1) : k \in G => k + 1 \in G
  OBVIOUS
<1>3. \A k \in 0..n : k \in G
  BY <1>2, UpTo
<1>4. QED BY <1>3

LEMMA PowersGrow ==
  ASSUME NEW b \in Nat, b >= 2
  PROVE  \A k \in Nat : Powers(b)[k] \in Nat /\ Powers(b)[k] > k
<1> DEFINE p == Powers(b)
           G == {k \in Nat : p[k] \in Nat /\ p[k] > k}
<1>1. p[0] = 1 /\ \A k \in Nat : p[k + 1] = b * p[k]
  BY PowersAt
<1> HIDE DEF p
<1>2. 0 \in G
  BY <1>1
<1>3. ASSUME NEW k \in Nat, k \in G PROVE k + 1 \in G
  <2>1. p[k] \in Nat /\ p[k] > k /\ p[k + 1] = b * p[k]
    BY <1>1, <1>3
  <2>2. b * p[k] \in Nat /\ b * p[k] >= 2 * p[k]
    BY <2>1
  <2>3. QED BY <2>1, <2>2
<1>4. \A k \in Nat : k \in G
  <2> HIDE DEF G
  <2> QED BY <1>2, <1>3, ForAllNat
<1>5. QED BY <1>4 DEF p

LEMMA PowersSum ==
  ASSUME NEW b \in Nat, b >= 2, NEW j \in Nat
  PROVE  \A k \in Nat : Powers(b)[j + k] = Powers(b)[j] * Powers(b)[k]
<1> DEFINE p == Powers(b)
           G == {k \in Nat : p[j + k] = p[j] * p[k]}
<1>1. p[0] = 1 /\ \A k \in Nat : p[k + 1] = b * p[k]
  BY PowersAt
<1>2. \A k \in Nat : p[k] \in Nat
  BY PowersGrow
<1> HIDE DEF p
<1>3. 0 \in G
  BY <1>1, <1>2
<1>4. ASSUME NEW k \in Nat, k \in G PROVE k + 1 \in G
  <2>1. p[j + k] = p[j] * p[k] /\ p[k + 1] = b * p[k]
    BY <1>1, <1>4
  <2>2. p[(j + k) + 1] = b * p[j + k] /\ j + (k + 1) = (j + k) + 1
    BY <1>1
  <2>3. p[j + k] \in Nat /\ p[j] \in Nat /\ p[k] \in Nat
    BY <1>2
  <2>4. b * (p[j] * p[k]) = p[j] * (b * p[k])
    BY <2>3
  <2>5. QED BY <2>1, <2>2, <2>4
<1>5. \A k \in Nat : k \in G
  <2> HIDE DEF G
  <2> QED BY <1>3, <1>4, ForAllNat
<1>6. QED BY <1>5 DEF p

LEMMA PowersOrdered ==
  ASSUME NEW b \in Nat, b >= 2, NEW j \in Nat, NEW k \in Nat, j <= k
  PROVE  Powers(b)[j] <= Powers(b)[k]
<1> DEFINE p == Powers(b)
<1>1. k - j \in Nat /\ j + (k - j) = k
  OBVIOUS
<1>2. p[j] \in Nat /\ p[k - j] \in Nat /\ p[k - j] > k - j
  BY <1>1, PowersGrow
<1>3. p[j + (k - j)] = p[j] * p[k - j]
  BY <1>1, PowersSum
<1> HIDE DEF p
<1>4. p[j] * p[k - j] >= p[j]
  BY <1>1, <1>2
<1>5. QED BY <1>1, <1>3, <1>4 DEF p

\* Division of integers.
LEMMA Euclid ==
  ASSUME NEW a \in Int, NEW b \in Nat, b > 0
  PROVE  /\ a \div b \in Int /\ (a % b) \in 0..(b - 1)
         /\ a = b * (a \div b) + (a % b)
         /\ a >= 0 => a \div b \in Nat
  OBVIOUS

LEMMA EuclidUnique ==
  ASSUME NEW a \in Int, NEW b \in Nat, b > 0, NEW q \in Int, NEW r \in 0..(b - 1), a = b * q + r
  PROVE  a \div b = q /\ (a % b) = r
<1> DEFINE p == a \div b
           s == a % b
<1>1. p \in Int /\ s \in 0..(b - 1) /\ a = b * p + s
  BY Euclid
<1> HIDE DEF p, s
<1>2. ASSUME NEW u \in Int, NEW v \in Int, NEW t \in 0..(b - 1), NEW z \in 0..(b - 1),
             b * u + t = b * v + z
      PROVE  u >= v
  <2>1. SUFFICES ASSUME u + 1 <= v PROVE FALSE
    OBVIOUS
  <2>2. b * (v - u) >= b
    BY <2>1
  <2>3. b * (v - u) = b * v - b * u
    OBVIOUS
  <2>4. b * u \in Int /\ b * v \in Int
    OBVIOUS
  <2>5. QED BY <1>2, <2>2, <2>3, <2>4
<1>3. p >= q /\ q >= p
  BY <1>1, <1>2
<1>4. p = q
  BY <1>1, <1>3
<1>5. b * q \in Int
  OBVIOUS
<1>6. s = r
  BY <1>1, <1>4, <1>5
<1>7. QED BY <1>4, <1>6 DEF p, s

\* What is used of the two powers.
LEMMA BaseAt == PowBase[0] = 1 /\ \A k \in Nat : PowBase[k] \in Nat /\ PowBase[k] >= 1 /\ PowBase[k] > k
<1>1. Base \in Nat /\ Base >= 2
  BY ScaleAssumption
<1>2. PowBase = Powers(Base)
  BY PowersAre
<1>3. PowBase[0] = 1
  BY <1>2, PowersAt
<1>4. \A k \in Nat : PowBase[k] \in Nat /\ PowBase[k] > k
  BY <1>1, <1>2, PowersGrow
<1>5. \A k \in Nat : PowBase[k] >= 1
  BY <1>4
<1>6. QED BY <1>3, <1>4, <1>5

LEMMA BaseSum ==
  ASSUME NEW j \in Nat, NEW k \in Nat
  PROVE  PowBase[j + k] = PowBase[j] * PowBase[k]
<1>1. Base \in Nat /\ Base >= 2
  BY ScaleAssumption
<1>2. QED BY <1>1, PowersAre, PowersSum

LEMMA BaseOrdered ==
  ASSUME NEW j \in Nat, NEW k \in Nat, j <= k
  PROVE  PowBase[j] <= PowBase[k]
<1>1. Base \in Nat /\ Base >= 2
  BY ScaleAssumption
<1>2. QED BY <1>1, PowersAre, PowersOrdered

LEMMA TwoAt == Pow2[0] = 1 /\ \A k \in Nat : Pow2[k] \in Nat /\ Pow2[k] >= 1 /\ Pow2[k] > k
<1>1. Pow2 = Powers(2)
  BY PowersAre
<1>2. Pow2[0] = 1
  BY <1>1, PowersAt
<1>3. 2 \in Nat /\ 2 >= 2
  OBVIOUS
<1>4. \A k \in Nat : Pow2[k] \in Nat /\ Pow2[k] > k
  BY <1>1, <1>3, PowersGrow
<1>5. \A k \in Nat : Pow2[k] >= 1
  BY <1>4
<1>6. QED BY <1>2, <1>4, <1>5

LEMMA TwoStep ==
  ASSUME NEW k \in Nat
  PROVE  Pow2[k + 1] = 2 * Pow2[k]
BY PowersAre, PowersAt

LEMMA TwoSum ==
  ASSUME NEW j \in Nat, NEW k \in Nat
  PROVE  Pow2[j + k] = Pow2[j] * Pow2[k]
<1>1. 2 \in Nat /\ 2 >= 2
  OBVIOUS
<1>2. QED BY <1>1, PowersAre, PowersSum

LEMMA TwoOrdered ==
  ASSUME NEW j \in Nat, NEW k \in Nat, j <= k
  PROVE  Pow2[j] <= Pow2[k]
<1>1. 2 \in Nat /\ 2 >= 2
  OBVIOUS
<1>2. QED BY <1>1, PowersAre, PowersOrdered

LEMMA TenAt == PowTen[0] = 1 /\ \A k \in Nat : PowTen[k] \in Nat /\ PowTen[k] >= 1 /\ PowTen[k] > k
<1>1. PowTen = Powers(10)
  BY PowersAre
<1>2. PowTen[0] = 1
  BY <1>1, PowersAt
<1>3. 10 \in Nat /\ 10 >= 2
  OBVIOUS
<1>4. \A k \in Nat : PowTen[k] \in Nat /\ PowTen[k] > k
  BY <1>1, <1>3, PowersGrow
<1>5. \A k \in Nat : PowTen[k] >= 1
  BY <1>4
<1>6. QED BY <1>2, <1>4, <1>5

LEMMA TenSum ==
  ASSUME NEW j \in Nat, NEW k \in Nat
  PROVE  PowTen[j + k] = PowTen[j] * PowTen[k]
<1>1. 10 \in Nat /\ 10 >= 2
  OBVIOUS
<1>2. QED BY <1>1, PowersAre, PowersSum

\* The powers of ten are above those of two.
LEMMA TenAboveTwo == \A k \in Nat : Pow2[k] <= PowTen[k]
<1> DEFINE G == {k \in Nat : Pow2[k] <= PowTen[k]}
<1>1. 0 \in G
  BY TwoAt, TenAt
<1>2. ASSUME NEW k \in Nat, k \in G PROVE k + 1 \in G
  <2>1. Pow2[k + 1] = 2 * Pow2[k] /\ PowTen[k + 1] = 10 * PowTen[k]
    BY PowersAre, PowersAt
  <2>2. Pow2[k] \in Nat /\ PowTen[k] \in Nat /\ Pow2[k] <= PowTen[k]
    BY <1>2, TwoAt, TenAt
  <2>3. Pow2[k + 1] <= PowTen[k + 1]
    BY <2>1, <2>2
  <2>4. QED BY <2>3
<1>3. \A k \in Nat : k \in G
  <2> HIDE DEF G
  <2> QED BY <1>1, <1>2, ForAllNat
<1>4. QED BY <1>3

-----------------------------------------------------------------------------
(***************************************************************************)
(* Division of numerics.                                                   *)
(***************************************************************************)
LEMMA WeightAt ==
  ASSUME NEW n \in Nat, n > 0
  PROVE  /\ Weight(n) \in 0..n
         /\ PowBase[Weight(n)] <= n /\ n < PowBase[Weight(n) + 1]
<1> DEFINE T == {w \in Nat : n < PowBase[w + 1]}
<1>1. n \in T
  <2> DEFINE k == n + 1
  <2>1. k \in Nat /\ k > n
    OBVIOUS
  <2> HIDE DEF k
  <2>2. PowBase[k] \in Nat /\ PowBase[k] > k
    BY <2>1, BaseAt
  <2>3. n < PowBase[k]
    BY <2>1, <2>2
  <2>4. QED BY <2>3 DEF k
<1>2. PICK w \in T : \A v \in T : w <= v
  <2>1. T \subseteq Nat /\ T # {}
    BY <1>1
  <2> HIDE DEF T
  <2>2. QED BY <2>1, LeastOf
<1>3. w \in 0..n /\ n < PowBase[w + 1]
  BY <1>1, <1>2
<1>4. PowBase[w] <= n
  <2>1. CASE w = 0
    BY <2>1, BaseAt
  <2>2. CASE w # 0
    <3>1. w - 1 \in Nat /\ (w - 1) + 1 = w /\ ~ (w <= w - 1)
      BY <1>3, <2>2
    <3>2. w - 1 \notin T
      BY <1>2, <3>1
    <3>3. ~ (n < PowBase[w])
      BY <3>1, <3>2
    <3>4. PowBase[w] \in Nat
      BY <1>3, BaseAt
    <3>5. QED BY <3>3, <3>4
  <2>3. QED BY <2>1, <2>2
<1>5. \E v \in 0..n : PowBase[v] <= n /\ n < PowBase[v + 1]
  BY <1>3, <1>4
<1>6. QED BY <1>5 DEF Weight

\* The first digit is one, and the rest has the digits below it.
LEMMA FirstDigitAt ==
  ASSUME NEW n \in Nat, n > 0
  PROVE  /\ FirstDigit(n) \in Nat /\ FirstDigit(n) >= 1
         /\ PowBase[Weight(n)] * FirstDigit(n) <= n
         /\ n < PowBase[Weight(n)] * (FirstDigit(n) + 1)
<1> DEFINE b == PowBase[Weight(n)]
           d == n \div b
           r == n % b
<1>1. b \in Nat /\ b > 0 /\ b <= n
  <2>1. Weight(n) \in Nat /\ PowBase[Weight(n)] <= n
    BY WeightAt
  <2>2. QED BY <2>1, BaseAt
<1> HIDE DEF b
<1>2. d \in Nat /\ r \in 0..(b - 1) /\ n = b * d + r
  BY <1>1, Euclid
<1> HIDE DEF d, r
<1>3. d >= 1
  <2>1. SUFFICES ASSUME d = 0 PROVE FALSE
    BY <1>2
  <2>2. b * d = 0
    BY <1>1, <2>1
  <2>3. QED BY <1>1, <1>2, <2>2
<1>4. b * d \in Nat /\ b * (d + 1) = b * d + b
  BY <1>1, <1>2
<1>5. b * d <= n /\ n < b * (d + 1)
  BY <1>1, <1>2, <1>4
<1>6. FirstDigit(n) = d
  BY DEF FirstDigit, d, b
<1>7. QED BY <1>2, <1>3, <1>5, <1>6 DEF b

\* The quotient has at least the digits before the point that the scale
\* counts on: wq = Weight(m) - Weight(n) - e, and n * Base^wq <= m.
LEMMA QuotientWeight ==
  ASSUME NEW m \in Nat, m > 0, NEW n \in Nat, n > 0,
         NEW e, e = IF FirstDigit(m) <= FirstDigit(n) THEN 1 ELSE 0
  PROVE  n * PowBase[Weight(m)] <= m * PowBase[Weight(n) + e]
<1> DEFINE u == PowBase[Weight(m)]
           v == PowBase[Weight(n)]
           c == FirstDigit(m)
           d == FirstDigit(n)
<1>1. Weight(m) \in Nat /\ Weight(n) \in Nat
  BY WeightAt
<1>2. u \in Nat /\ v \in Nat /\ u >= 1 /\ v >= 1
  BY <1>1, BaseAt
<1>3. c \in Nat /\ d \in Nat /\ c >= 1 /\ u * c <= m /\ n < v * (d + 1)
  BY FirstDigitAt
<1>4. u <= m /\ n < PowBase[Weight(n) + 1]
  BY WeightAt
<1>5. PowBase[Weight(n) + 1] \in Nat
  BY <1>1, BaseAt
<1>6. CASE c <= d
  <2> DEFINE z == PowBase[Weight(n) + 1]
  <2>1. e = 1 /\ z \in Nat /\ n < z
    BY <1>4, <1>5, <1>6
  <2> HIDE DEF u, z
  <2>2. n * u <= m * z
    <3>1. n * u <= z * u
      BY <1>2, <2>1
    <3>2. z * u <= z * m
      BY <1>2, <1>4, <2>1
    <3>3. z * m = m * z /\ n * u \in Nat /\ z * u \in Nat /\ z * m \in Nat
      BY <1>2, <2>1
    <3>4. QED BY <3>1, <3>2, <3>3
  <2>3. QED BY <2>1, <2>2 DEF u, z
<1>7. CASE ~ (c <= d)
  <2>1. e = 0 /\ Weight(n) + e = Weight(n) /\ d + 1 <= c
    BY <1>1, <1>3, <1>7
  <2> HIDE DEF u, v, c, d
  <2>2. n * u <= m * v
    <3>1. v * (d + 1) <= v * c
      BY <1>2, <1>3, <2>1
    <3>2. n <= v * c
      <4>1. v * (d + 1) \in Nat /\ v * c \in Nat
        BY <1>2, <1>3
      <4>2. QED BY <1>3, <3>1, <4>1
    <3>3. n * u <= (v * c) * u
      <4>1. v * c \in Nat
        BY <1>2, <1>3
      <4>2. QED BY <1>2, <3>2, <4>1
    <3>4. (v * c) * u = v * (u * c)
      BY <1>2, <1>3
    <3>5. v * (u * c) <= v * m
      <4>1. u * c \in Nat
        BY <1>2, <1>3
      <4>2. QED BY <1>2, <1>3, <4>1
    <3>6. v * m = m * v /\ n * u \in Nat /\ v * (u * c) \in Nat /\ v * m \in Nat
      BY <1>2, <1>3
    <3>7. QED BY <3>3, <3>4, <3>5, <3>6
  <2>3. QED BY <2>1, <2>2 DEF u, v
<1>8. QED BY <1>6, <1>7

\* Rounding the quotient in steps of 1/u and cutting the fraction off gives
\* the exact one, or one more when the step is coarse against the divisor.
LEMMA RoundedQuotient ==
  ASSUME NEW m \in Nat, NEW n \in Nat, n > 0, NEW u \in Nat, u > 0,
         NEW q, q = ((2 * m * u + n) \div (2 * n)) \div u
  PROVE  \/ q = m \div n
         \/ q = (m \div n) + 1 /\ 2 * u <= n /\ (m % n) >= 1
<1> DEFINE p == m \div n
           r == m % n
<1>1. p \in Nat /\ r \in 0..(n - 1) /\ m = n * p + r
  BY Euclid
<1> HIDE DEF p, r
<1> DEFINE a == 2 * r * u + n
           b == 2 * n
           t == a \div b
           z == a % b
<1>2. r \in Nat /\ r <= n - 1 /\ b \in Nat /\ b > 0
  BY <1>1
<1>3. r * u \in Nat /\ a = 2 * (r * u) + n /\ a \in Nat
  BY <1>2
<1> HIDE DEF a, b
<1>4. t \in Nat /\ z \in 0..(b - 1) /\ a = b * t + z
  BY <1>2, <1>3, Euclid
<1> HIDE DEF t, z
<1>5. (2 * m * u + n) \div b = u * p + t
  <2>1. u * p + t \in Int /\ n * p \in Nat /\ u * p \in Nat
    BY <1>1, <1>4
  <2>2. 2 * m * u + n = 2 * (n * p) * u + a
    <3>1. 2 * m * u = 2 * (n * p) * u + 2 * r * u
      BY <1>1, <1>2, <2>1
    <3>2. a = 2 * r * u + n
      BY DEF a
    <3>3. 2 * m * u \in Nat /\ 2 * (n * p) * u \in Nat /\ 2 * r * u \in Nat
      BY <1>2, <2>1
    <3>4. QED BY <3>1, <3>2, <3>3
  <2>3. 2 * (n * p) * u = b * (u * p)
    BY <1>1 DEF b
  <2>4. b * (u * p) + b * t = b * (u * p + t)
    BY <1>2, <1>4, <2>1
  <2>5. 2 * m * u + n = b * (u * p + t) + z
    <3>1. b * (u * p) \in Nat /\ b * t \in Nat
      BY <1>2, <1>4, <2>1
    <3>2. QED BY <1>4, <2>2, <2>3, <2>4, <3>1
  <2>6. 2 * m * u + n \in Int
    OBVIOUS
  <2> HIDE DEF p
  <2>7. QED BY <1>2, <1>4, <2>1, <2>5, <2>6, EuclidUnique
<1>6. r * u <= n * u - u
  <2>1. r * u <= (n - 1) * u
    BY <1>2
  <2>2. (n - 1) * u = n * u - u
    OBVIOUS
  <2>3. QED BY <2>1, <2>2
<1>7. b * t <= 2 * (n * u) - 2 * u + n
  <2>1. n * u \in Nat /\ b * t \in Nat
    BY <1>2, <1>4
  <2>2. b * t <= a
    BY <1>4, <2>1
  <2>3. QED BY <1>3, <1>6, <2>1, <2>2
<1>8. t <= u
  <2>1. SUFFICES ASSUME u + 1 <= t PROVE FALSE
    BY <1>4
  <2>2. b * (u + 1) <= b * t
    BY <1>2, <1>4, <2>1
  <2>3. b * (u + 1) = 2 * (n * u) + 2 * n
    BY DEF b
  <2>4. n * u \in Nat /\ b * t \in Nat
    BY <1>2, <1>4
  <2>5. QED BY <1>7, <2>2, <2>3, <2>4
<1>9. q = (u * p + t) \div u
  BY <1>5 DEF b
<1>10. CASE t < u
  <2>1. t \in 0..(u - 1) /\ u * p + t \in Int
    BY <1>1, <1>4, <1>10
  <2>2. (u * p + t) \div u = p
    BY <1>1, <2>1, EuclidUnique
  <2>3. QED BY <1>9, <2>2 DEF p
<1>11. CASE t = u
  <2>1. u * p + t = u * (p + 1) + 0 /\ u * p + t \in Int /\ 0 \in 0..(u - 1) /\ p + 1 \in Int
    BY <1>1, <1>11
  <2>2. (u * p + t) \div u = p + 1
    BY <2>1, EuclidUnique
  <2>3. b * t = 2 * (n * u) /\ n * u \in Nat
    BY <1>11 DEF b
  <2>4. 2 * u <= n
    BY <1>7, <2>3
  <2>5. r >= 1
    <3>1. SUFFICES ASSUME r = 0 PROVE FALSE
      BY <1>2
    <3>2. a = n
      BY <1>3, <3>1
    <3>3. n * u >= n
      OBVIOUS
    <3>4. QED BY <1>2, <1>4, <2>3, <3>2, <3>3
  <2>6. QED BY <1>9, <2>2, <2>4, <2>5 DEF p, r
<1>12. QED BY <1>4, <1>8, <1>10, <1>11

\* Only a dividend of twice Base^Sig has a quotient with so coarse a step.
LEMMA CoarseOnlyFar ==
  ASSUME NEW m \in Nat, m > 0, NEW n \in Nat, n > 0, 2 * PowBase[DivScale(m, n)] <= n
  PROVE  m >= 2 * PowBase[Sig]
<1> DEFINE i == Weight(m)
           j == Weight(n)
           e == IF FirstDigit(m) <= FirstDigit(n) THEN 1 ELSE 0
           s == DivScale(m, n)
<1>1. i \in Nat /\ j \in Nat /\ e \in Nat /\ Sig \in Nat
  BY WeightAt, ScaleAssumption
<1>2. n * PowBase[i] <= m * PowBase[j + e]
  BY QuotientWeight
<1>3. s = IF i - j - e >= Sig THEN 0 ELSE Sig - (i - j - e)
  BY DEF DivScale
<1>4. 2 * PowBase[s] <= n
  OBVIOUS
<1> HIDE DEF i, j, e, s
<1>5. s \in Nat /\ Sig + (j + e) <= s + i
  BY <1>1, <1>3
<1> DEFINE k == j + e
<1>6. k \in Nat /\ Sig + k \in Nat /\ s + i \in Nat /\ Sig + k <= s + i
  BY <1>1, <1>5
<1>7. n * PowBase[i] <= m * PowBase[k]
  BY <1>2
<1> HIDE DEF k
<1>8. PowBase[Sig + k] = PowBase[Sig] * PowBase[k] /\ PowBase[s + i] = PowBase[s] * PowBase[i]
  BY <1>1, <1>5, <1>6, BaseSum
<1>9. PowBase[Sig + k] <= PowBase[s + i]
  BY <1>6, BaseOrdered
<1> DEFINE bs == PowBase[Sig]
           bk == PowBase[k]
           bu == PowBase[s]
           bi == PowBase[i]
<1>10. bs \in Nat /\ bk \in Nat /\ bu \in Nat /\ bi \in Nat /\ bk >= 1
  BY <1>1, <1>5, <1>6, BaseAt
<1>11. bs * bk <= bu * bi /\ 2 * bu <= n /\ n * bi <= m * bk
  BY <1>4, <1>7, <1>8, <1>9
<1> HIDE DEF bs, bk, bu, bi
<1>12. (2 * bu) * bi <= n * bi
  BY <1>10, <1>11
<1>13. (2 * bs) * bk <= m * bk
  <2>1. (2 * bu) * bi = 2 * (bu * bi) /\ (2 * bs) * bk = 2 * (bs * bk)
    BY <1>10
  <2>2. bu * bi \in Nat /\ bs * bk \in Nat /\ n * bi \in Nat /\ m * bk \in Nat
    BY <1>10
  <2>3. QED BY <1>11, <1>12, <2>1, <2>2
<1>14. 2 * bs <= m
  <2>1. SUFFICES ASSUME m + 1 <= 2 * bs PROVE FALSE
    BY <1>10
  <2>2. (m + 1) * bk <= (2 * bs) * bk
    BY <1>10, <2>1
  <2>3. (m + 1) * bk = m * bk + bk
    BY <1>10
  <2>4. m * bk \in Nat /\ (2 * bs) * bk \in Nat
    BY <1>10
  <2>5. QED BY <1>10, <1>13, <2>2, <2>3, <2>4
<1>15. QED BY <1>14 DEF bs

LEMMA Signs ==
  ASSUME NEW a \in Int
  PROVE  /\ Sgn(a) \in {1, -1} /\ Abs(a) \in Nat
         /\ a = Sgn(a) * Abs(a) /\ (a # 0 => Abs(a) > 0)
         /\ a < 0 <=> Sgn(a) = -1
  BY DEF Sgn, Abs

\* What the sign does to a quotient and a remainder.
LEMMA SignedParts ==
  ASSUME NEW s \in {1, -1}, NEW t \in {1, -1}, NEW q \in Int, NEW n \in Int, NEW r \in Int
  PROVE  /\ s * t * q = q \/ s * t * q = -q
         /\ (s * t * q) * (t * n) + s * r = s * (q * n + r)
<1>1. q * n \in Int
  OBVIOUS
<1>2. CASE s = 1 /\ t = 1
  BY <1>1, <1>2
<1>3. CASE s = 1 /\ t = -1
  <2>1. s * t * q = -q /\ t * n = -n /\ s * r = r
    BY <1>3
  <2>2. (-q) * (-n) = q * n
    OBVIOUS
  <2>3. s * (q * n + r) = q * n + r
    BY <1>1, <1>3
  <2>4. QED BY <2>1, <2>2, <2>3
<1>4. CASE s = -1 /\ t = 1
  <2>1. s * t * q = -q /\ t * n = n /\ s * r = -r
    BY <1>4
  <2>2. (-q) * n = -(q * n)
    OBVIOUS
  <2>3. s * (q * n + r) = -(q * n) - r
    BY <1>1, <1>4
  <2>4. QED BY <1>1, <2>1, <2>2, <2>3
<1>5. CASE s = -1 /\ t = -1
  <2>1. s * t * q = q /\ t * n = -n /\ s * r = -r
    BY <1>5
  <2>2. q * (-n) = -(q * n)
    OBVIOUS
  <2>3. s * (q * n + r) = -(q * n) - r
    BY <1>1, <1>5
  <2>4. QED BY <1>1, <2>1, <2>2, <2>3
<1>6. QED BY <1>2, <1>3, <1>4, <1>5

\* trunc(a / b) and mod(a, b), whatever the operands.
LEMMA QuotientAndRest ==
  ASSUME NEW a \in Int, NEW b \in Int, b # 0, NEW q, q = TruncOfDiv(a, b), NEW r, r = Mod(a, b)
  PROVE  /\ q \in Int /\ r \in Int
         /\ \/ q * b + r = a
            \/ Abs(a) >= 2 * PowBase[Sig] /\ q * b + r = a + Sgn(a) * Abs(b)
         /\ Abs(b) = 1 => q = Sgn(b) * a
         /\ Abs(b) >= 2 => q = 0 \/ (-Abs(a) < q /\ q < Abs(a))
         /\ a >= 0 /\ b > 0 => q >= 0 /\ q <= a
<1> DEFINE m == Abs(a)
           n == Abs(b)
           s == Sgn(a)
           t == Sgn(b)
           u == PowBase[DivScale(m, n)]
           p == ((2 * m * u + n) \div (2 * n)) \div u
           rest == m % n
<1>1. /\ m \in Nat /\ n \in Nat /\ n > 0
      /\ s \in {1, -1} /\ t \in {1, -1} /\ a = s * m /\ b = t * n
      /\ (a >= 0 => s = 1) /\ (b > 0 => t = 1) /\ (a = 0 <=> m = 0)
  <2>1. /\ m \in Nat /\ n \in Nat /\ n > 0 /\ s \in {1, -1} /\ t \in {1, -1}
        /\ a = s * m /\ b = t * n
    BY Signs
  <2>2. (a >= 0 => s = 1) /\ (b > 0 => t = 1) /\ (a = 0 <=> m = 0)
    BY DEF Sgn, Abs
  <2>3. QED BY <2>1, <2>2
<1>2. q = IF a = 0 THEN 0 ELSE s * t * p
  BY DEF TruncOfDiv
<1>3. r = s * rest
  BY DEF Mod
<1>4. Abs(a) = m /\ Abs(b) = n /\ Sgn(a) = s /\ Sgn(b) = t
  OBVIOUS
<1> HIDE DEF m, n, s, t
<1>5. m \div n \in Nat /\ rest \in 0..(n - 1) /\ m = n * (m \div n) + rest
  BY <1>1, Euclid
<1>6. a # 0 => \/ p = m \div n
               \/ p = (m \div n) + 1 /\ n >= 2 /\ rest >= 1 /\ m >= 2 * PowBase[Sig]
  <2>1. SUFFICES ASSUME a # 0
                 PROVE  \/ p = m \div n
                        \/ p = (m \div n) + 1 /\ n >= 2 /\ rest >= 1 /\ m >= 2 * PowBase[Sig]
    OBVIOUS
  <2>2. m > 0
    BY <1>1, <2>1
  <2>3. DivScale(m, n) \in Nat
    <3>1. Weight(m) \in Int /\ Weight(n) \in Int /\ Sig \in Nat
      BY <1>1, <2>2, WeightAt, ScaleAssumption
    <3>2. QED BY <3>1 DEF DivScale
  <2>4. u \in Nat /\ u >= 1
    BY <2>3, BaseAt
  <2>5. 2 * u <= n => m >= 2 * PowBase[Sig]
    BY <1>1, <2>2, CoarseOnlyFar
  <2> HIDE DEF u
  <2>6. \/ p = m \div n
        \/ p = (m \div n) + 1 /\ 2 * u <= n /\ rest >= 1
    BY <1>1, <2>4, RoundedQuotient
  <2>7. QED BY <1>1, <2>4, <2>5, <2>6
<1> DEFINE d == m \div n
<1>7. d \in Nat /\ rest \in 0..(n - 1) /\ m = n * d + rest
  BY <1>5
<1>8. a # 0 => \/ p = d
               \/ p = d + 1 /\ n >= 2 /\ rest >= 1 /\ m >= 2 * PowBase[Sig]
  BY <1>6
<1>9. PowBase[Sig] \in Nat /\ PowBase[Sig] >= 1
  BY ScaleAssumption, BaseAt
<1> HIDE DEF d, p, rest
<1>10. rest \in Nat /\ rest < n /\ n * d \in Nat /\ d * n = n * d
  BY <1>1, <1>7
<1>11. CASE a = 0
  <2>1. m = 0 /\ q = 0
    BY <1>1, <1>2, <1>11
  <2>2. rest = 0 /\ n * d = 0
    BY <1>7, <1>10, <2>1
  <2>3. r = 0 /\ q * b + r = a /\ t * a = 0
    BY <1>1, <1>3, <1>11, <2>1, <2>2
  <2>4. QED BY <1>4, <1>11, <2>1, <2>3
<1>12. CASE a # 0
  <2>1. q = s * t * p /\ m > 0
    BY <1>1, <1>2, <1>12
  <2>2. p \in Nat
    BY <1>7, <1>8, <1>12
  <2>3. /\ q = p \/ q = -p
        /\ q * b + r = s * (p * n + rest)
    <3>1. p \in Int /\ n \in Int /\ rest \in Int
      BY <1>1, <1>10, <2>2
    <3>2. /\ s * t * p = p \/ s * t * p = -p
          /\ (s * t * p) * (t * n) + s * rest = s * (p * n + rest)
      BY <1>1, <3>1, SignedParts
    <3>3. (s * t * p) * (t * n) + s * rest = q * b + r
      <4>1. b = t * n
        BY <1>1
      <4>2. QED BY <1>3, <2>1, <4>1
    <3>4. QED BY <2>1, <3>2, <3>3
  <2>4. q \in Int /\ r \in Int
    BY <1>1, <1>3, <1>10, <2>2, <2>3
  <2>5. \/ q * b + r = a
        \/ m >= 2 * PowBase[Sig] /\ q * b + r = a + s * n
    <3>1. CASE p = d
      BY <1>1, <1>7, <1>10, <2>3, <3>1
    <3>2. CASE p = d + 1 /\ m >= 2 * PowBase[Sig]
      <4>1. p * n + rest = m + n
        BY <1>1, <1>7, <1>10, <3>2
      <4>2. s * (m + n) = a + s * n
        BY <1>1
      <4>3. QED BY <2>3, <3>2, <4>1, <4>2
    <3>3. QED BY <1>8, <1>12, <3>1, <3>2
  <2>6. n = 1 => q = t * a
    <3>1. SUFFICES ASSUME n = 1 PROVE q = t * a
      OBVIOUS
    <3>2. p = d /\ rest = 0
      BY <1>8, <1>10, <1>12, <3>1
    <3>3. d = m
      BY <1>7, <3>1, <3>2
    <3>4. QED BY <1>1, <2>1, <3>2, <3>3
  <2>7. n >= 2 => p < m
    <3>1. SUFFICES ASSUME n >= 2 PROVE p < m
      OBVIOUS
    <3>2. n * d >= 2 * d
      BY <1>1, <1>7, <3>1
    <3>3. m >= 2 * d + rest
      BY <1>1, <1>7, <1>10, <3>2
    <3>4. CASE p = d
      BY <1>1, <1>7, <1>10, <2>1, <3>3, <3>4
    <3>5. CASE p = d + 1 /\ rest >= 1 /\ m >= 2 * PowBase[Sig]
      BY <1>1, <1>7, <1>9, <1>10, <3>3, <3>5
    <3>6. QED BY <1>8, <1>12, <3>4, <3>5
  <2>8. n >= 2 => q = 0 \/ (-m < q /\ q < m)
    BY <1>1, <2>2, <2>3, <2>7
  <2>9. a >= 0 /\ b > 0 => q >= 0 /\ q <= a
    <3>1. SUFFICES ASSUME a >= 0, b > 0 PROVE q >= 0 /\ q <= a
      OBVIOUS
    <3>2. s = 1 /\ t = 1
      BY <1>1, <3>1
    <3>3. q = p /\ a = m
      BY <1>1, <2>1, <2>2, <3>2
    <3>4. CASE n = 1
      BY <2>2, <2>6, <3>2, <3>3, <3>4
    <3>5. CASE n >= 2
      BY <1>1, <2>2, <2>7, <3>3, <3>5
    <3>6. QED BY <1>1, <3>4, <3>5
  <2>10. QED BY <1>4, <2>4, <2>5, <2>6, <2>8, <2>9
<1>13. QED BY <1>11, <1>12

-----------------------------------------------------------------------------
(***************************************************************************)
(* One call.                                                               *)
(***************************************************************************)
\* v is what a call of op on x and y evaluates to.
Answers(v) ==
  \/ op \in Arithmetic \cup {"%", "neg"} /\ x.kind = "int" /\ v = IntOp(op, x.n, y.n)
  \/ op \in Arithmetic \cup {"%"} /\ x.kind = "uint" /\ v = UintOp(op, x.n, y.n)
  \/ op \in Arithmetic /\ x.kind = "double" /\ v = DblBin(op, x.f, y.f)
  \/ op \in Relations /\ v = (IF op = "==" THEN BoolVal(Equal(x, y)) ELSE Relation(op, x, y))
  \/ op \in {"int", "uint", "double"} /\ v = Convert(op, x)
  \/ /\ op = "neg" /\ x.kind = "double"
     /\ v = DoubleVal(IF x.f = NaN THEN NaN ELSE Float(-x.f.sgn, x.f.mag))
  \/ op \in Roundings /\ v = Rounding(op, x.f)
  \/ op \in Extremes /\ v = Extreme(op, x, y)
  \/ op = "abs" /\ v = Magnitude(x)
  \/ op = "sign" /\ v = Signum(x)
  \/ op \in BitOps /\ v = BitOp(op, x, y)
  \/ op = "shl" /\ v = ShiftLeft(x, y.n)
  \/ op = "shr" /\ v = ShiftRight(x, y.n)
  \/ op = "not" /\ v = Complement(x)

Called ==
  /\ op \in Ops
  /\ \E call \in Calls(op) : x = call[1] /\ y = call[2]

\* The operands are those of the call, and the result is pending or theirs.
CallInv == Called /\ (result = Pending \/ Answers(result))

\* Every behaviour keeps to one call and answers it as its operation does.
LEMMA AlwaysCall == Spec => []CallInv
<1>1. Init => CallInv
  BY DEF Init, CallInv, Called
<1>2. ASSUME CallInv, [Next]_vars PROVE CallInv'
  <2>1. CASE UNCHANGED vars
    BY <1>2, <2>1 DEF CallInv, Called, Answers, vars
  <2>2. ASSUME NEW v, Evaluates(v), Answers(v) PROVE CallInv'
    <3>1. result' = v /\ op' = op /\ x' = x /\ y' = y
      BY <2>2 DEF Evaluates
    <3>2. Called'
      BY <1>2, <3>1 DEF CallInv, Called
    <3>3. Answers(result)'
      BY <2>2, <3>1 DEF Answers
    <3>4. QED BY <3>2, <3>3 DEF CallInv
  <2>3. ASSUME CallInt PROVE CallInv'
    BY <2>2, <2>3 DEF CallInt, Answers
  <2>4. ASSUME CallUint PROVE CallInv'
    BY <2>2, <2>4 DEF CallUint, Answers
  <2>5. ASSUME CallDouble PROVE CallInv'
    BY <2>2, <2>5 DEF CallDouble, Answers
  <2>6. ASSUME NegateDouble PROVE CallInv'
    BY <2>2, <2>6 DEF NegateDouble, Answers
  <2>7. ASSUME CallRelation PROVE CallInv'
    BY <2>2, <2>7 DEF CallRelation, Answers
  <2>8. ASSUME CallConversion PROVE CallInv'
    BY <2>2, <2>8 DEF CallConversion, Answers
  <2>9. ASSUME CallRounding PROVE CallInv'
    BY <2>2, <2>9 DEF CallRounding, Answers
  <2>10. ASSUME CallExtreme PROVE CallInv'
    BY <2>2, <2>10 DEF CallExtreme, Answers
  <2>11. ASSUME CallMagnitude PROVE CallInv'
    BY <2>2, <2>11 DEF CallMagnitude, Answers
  <2>12. ASSUME CallBits PROVE CallInv'
    BY <2>2, <2>12 DEF CallBits, Answers
  <2>13. CASE Next
    BY <2>13, <2>3, <2>4, <2>5, <2>6, <2>7, <2>8, <2>9, <2>10, <2>11, <2>12 DEF Next
  <2>14. QED BY <1>2, <2>1, <2>13
<1>3. QED BY <1>1, <1>2, PTL DEF Spec

-----------------------------------------------------------------------------
(***************************************************************************)
(* Division of int and uint.                                               *)
(***************************************************************************)
LEMMA Widths ==
  /\ MinInt \in Int /\ MaxInt \in Nat /\ MaxUint \in Nat
  /\ MinInt < 0 /\ MinInt = -MaxInt - 1
<1>1. W - 1 \in Nat /\ W \in Nat
  BY WidthAssumption, ScaleAssumption
<1>2. Pow2[W - 1] \in Nat /\ Pow2[W - 1] >= 1 /\ Pow2[W] \in Nat /\ Pow2[W] >= 1
  BY <1>1, TwoAt
<1>3. QED BY <1>2 DEF MinInt, MaxInt, MaxUint

LEMMA DividedInt ==
  ASSUME NEW a \in MinInt..MaxInt, NEW b \in MinInt..MaxInt,
         NEW v, v = DivideInt(a, b), NEW w, w = ModuloInt(a, b)
  PROVE  IF v.kind = "error" THEN w.kind = "error"
         ELSE /\ w.kind = "int"
              /\ v.n * b + w.n = a
                   \/ /\ Abs(a) >= 2 * PowBase[Sig]
                      /\ v.n * b + w.n = a + Sgn(a) * Abs(b)
<1>1. CASE b = 0
  BY <1>1 DEF DivideInt, ModuloInt, Err
<1>2. CASE b # 0 /\ a = MinInt /\ b = -1
  <2>1. TruncOfDiv(a, b) = MaxInt + 1
    <3>1. Abs(b) = 1 /\ Sgn(b) = -1
      <4>1. b \in Int /\ b + 1 = 0
        BY <1>2, Widths
      <4>2. b < 0 /\ -b = 1
        BY <4>1
      <4>3. QED BY <4>2 DEF Abs, Sgn
    <3>2. a \in Int /\ b \in Int /\ -1 * MinInt = MaxInt + 1
      BY Widths
    <3>3. TruncOfDiv(a, b) = Sgn(b) * a
      BY <1>2, <3>1, <3>2, QuotientAndRest
    <3>4. QED BY <1>2, <3>1, <3>2, <3>3
  <2>2. QED BY <1>2, <2>1, Widths DEF DivideInt, ModuloInt, ChkInt, Err
<1>3. CASE b # 0 /\ ~ (a = MinInt /\ b = -1)
  <2> DEFINE q == TruncOfDiv(a, b)
             r == Mod(a, b)
  <2>1. a \in Int /\ b \in Int /\ a >= MinInt /\ a <= MaxInt
    BY Widths
  <2>2. /\ q \in Int /\ r \in Int
        /\ \/ q * b + r = a
           \/ Abs(a) >= 2 * PowBase[Sig] /\ q * b + r = a + Sgn(a) * Abs(b)
        /\ Abs(b) = 1 => q = Sgn(b) * a
        /\ Abs(b) >= 2 => q = 0 \/ (-Abs(a) < q /\ q < Abs(a))
    BY <1>3, <2>1, QuotientAndRest
  <2>3. v = ChkInt(q) /\ w = IntVal(r)
    BY <1>3 DEF DivideInt, ModuloInt
  <2> HIDE DEF q, r
  <2>4. Abs(a) \in Nat /\ Abs(a) <= MaxInt + 1
    BY <2>1, Widths DEF Abs
  <2>5. Abs(b) \in Nat /\ Abs(b) > 0
    BY <1>3, <2>1, Signs
  <2>6. CASE Abs(b) = 1
    <3>1. b = 1 \/ b = -1
      BY <2>1, <2>6 DEF Abs
    <3>2. CASE b = 1
      <4>1. q = a
        BY <2>1, <2>2, <2>6, <3>2 DEF Sgn
      <4>2. v = IntVal(q)
        BY <2>1, <2>3, <4>1, Widths DEF ChkInt
      <4>3. QED BY <2>2, <2>3, <4>2 DEF IntVal
    <3>3. CASE b = -1
      <4>1. q = -a
        BY <2>1, <2>2, <2>6, <3>3 DEF Sgn
      <4>2. -a <= MaxInt /\ -a >= MinInt
        BY <1>3, <2>1, <3>3, Widths
      <4>3. v = IntVal(q)
        BY <2>1, <2>2, <2>3, <4>1, <4>2, Widths DEF ChkInt
      <4>4. QED BY <2>2, <2>3, <4>3 DEF IntVal
    <3>4. QED BY <3>1, <3>2, <3>3
  <2>7. CASE Abs(b) >= 2
    <3>1. q <= MaxInt /\ q >= MinInt
      BY <2>2, <2>4, <2>7, Widths
    <3>2. v = IntVal(q)
      BY <2>2, <2>3, <3>1, Widths DEF ChkInt
    <3>3. QED BY <2>2, <2>3, <3>2 DEF IntVal
  <2>8. QED BY <2>5, <2>6, <2>7
<1>4. QED BY <1>1, <1>2, <1>3

LEMMA DividedUint ==
  ASSUME NEW a \in 0..MaxUint, NEW b \in 0..MaxUint,
         NEW v, v = DivideUint(a, b), NEW w, w = ModuloUint(a, b)
  PROVE  IF v.kind = "error" THEN w.kind = "error"
         ELSE /\ w.kind = "uint"
              /\ v.n * b + w.n = a
                   \/ /\ Abs(a) >= 2 * PowBase[Sig]
                      /\ v.n * b + w.n = a + Sgn(a) * Abs(b)
<1>1. CASE b = 0
  BY <1>1 DEF DivideUint, ModuloUint, Err
<1>2. CASE b # 0
  <2> DEFINE q == TruncOfDiv(a, b)
             r == Mod(a, b)
  <2>1. a \in Int /\ b \in Int /\ a >= 0 /\ b > 0 /\ a <= MaxUint /\ b <= MaxUint
    BY <1>2, Widths
  <2>2. /\ q \in Int /\ r \in Int
        /\ \/ q * b + r = a
           \/ Abs(a) >= 2 * PowBase[Sig] /\ q * b + r = a + Sgn(a) * Abs(b)
        /\ q >= 0 /\ q <= a
    BY <1>2, <2>1, QuotientAndRest
  <2>3. v = ChkUint(q) /\ w = ChkUint(r)
    BY <1>2 DEF DivideUint, ModuloUint
  <2>4. r \in 0..MaxUint
    <3>1. Sgn(a) = 1 /\ Abs(a) = a /\ Abs(b) = b
      BY <2>1 DEF Sgn, Abs
    <3>2. (a % b) \in 0..(b - 1)
      BY <2>1, Euclid
    <3>3. r = a % b
      BY <3>1, <3>2 DEF Mod
    <3>4. QED BY <2>1, <3>2, <3>3, Widths
  <2> HIDE DEF q, r
  <2>5. v = UintVal(q) /\ w = UintVal(r)
    BY <2>1, <2>2, <2>3, <2>4, Widths DEF ChkUint
  <2>6. QED BY <2>2, <2>5 DEF UintVal
<1>3. QED BY <1>1, <1>2

\* The operands of a division that is not one of doubles.
LEMMA DivisionOperands ==
  ASSUME Called, op = "/", x.kind # "double"
  PROVE  \/ x.kind = "int" /\ x.n \in MinInt..MaxInt /\ y.n \in MinInt..MaxInt
         \/ x.kind = "uint" /\ x.n \in 0..MaxUint /\ y.n \in 0..MaxUint
<1>1. PICK call \in (Ints \X Ints) \cup (Uints \X Uints) \cup (Doubles \X Doubles) :
        x = call[1] /\ y = call[2]
  BY DEF Called, Calls, Arithmetic, Relations, Extremes, Roundings, Shifts, BitOps
<1>2. CASE call \in Ints \X Ints
  <2>1. x \in Ints /\ y \in Ints
    BY <1>1, <1>2
  <2>2. QED BY <2>1 DEF Ints, IntVal
<1>3. CASE call \in Uints \X Uints
  <2>1. x \in Uints /\ y \in Uints
    BY <1>1, <1>3
  <2>2. QED BY <2>1 DEF Uints, UintVal
<1>4. CASE call \in Doubles \X Doubles
  <2>1. x \in Doubles
    BY <1>1, <1>4
  <2>2. x.kind = "double"
    BY <2>1 DEF Doubles, DoubleVal
  <2>3. QED BY <2>2
<1>5. QED BY <1>2, <1>3, <1>4

\* / and % of ints and uints fail on the same operands; otherwise the two
\* give the dividend back, or are one divisor past it, on dividends of at
\* least twice Base^Sig: for integers of any width and numerics of any base
\* (DivideInt, ModuloInt and the rounding of numeric division).
THEOREM QuotientHolds == Spec => []QuotientNearlyExact
<1>1. ASSUME CallInv PROVE QuotientNearlyExact
  <2>1. SUFFICES ASSUME Done, op = "/", x.kind # "double"
                 PROVE  LET rest == IF x.kind = "int" THEN ModuloInt(x.n, y.n)
                                    ELSE ModuloUint(x.n, y.n)
                        IN IF result.kind = "error" THEN rest.kind = "error"
                           ELSE /\ rest.kind = x.kind
                                /\ result.n * y.n + rest.n = x.n
                                     \/ /\ Abs(x.n) >= 2 * PowBase[Sig]
                                        /\ result.n * y.n + rest.n = x.n + Sgn(x.n) * Abs(y.n)
    BY DEF QuotientNearlyExact
  <2>2. Called /\ Answers(result)
    BY <1>1, <2>1 DEF CallInv, Done
  <2>3. CASE x.kind = "int" /\ x.n \in MinInt..MaxInt /\ y.n \in MinInt..MaxInt
    <3>1. result = DivideInt(x.n, y.n)
      BY <2>1, <2>2, <2>3 DEF Answers, Arithmetic, Relations, Roundings, Extremes, BitOps, IntOp
    <3>2. QED BY <2>3, <3>1, DividedInt
  <2>4. CASE x.kind = "uint" /\ x.n \in 0..MaxUint /\ y.n \in 0..MaxUint
    <3>1. result = DivideUint(x.n, y.n)
      BY <2>1, <2>2, <2>4 DEF Answers, Arithmetic, Relations, Roundings, Extremes, BitOps, UintOp
    <3>2. QED BY <2>4, <3>1, DividedUint
  <2>5. QED BY <2>1, <2>2, <2>3, <2>4, DivisionOperands
<1>2. QED BY <1>1, AlwaysCall, PTL

-----------------------------------------------------------------------------
(***************************************************************************)
(* Rounding to a float8.                                                   *)
(***************************************************************************)
\* The parts of Round: the exponent of the result and the end of the range.
Scale(num, den) ==
  CHOOSE j \in 0..E : (j = E \/ num < den * Pow2[P + j]) /\ (j = 0 \/ num >= den * Pow2[P + j - 1])

Clamp(v) == IF v > MaxMag THEN Beyond ELSE v

LEMMA RoundParts ==
  ASSUME NEW num, NEW den
  PROVE  Round(num, den) =
           Clamp(Nearest(num, den * Pow2[Scale(num, den)]) * Pow2[Scale(num, den)])
BY DEF Round, Scale, Clamp

LEMMA Ranges ==
  /\ P \in Nat /\ P >= 1 /\ E \in Nat /\ E >= 1 /\ F \in Nat /\ F >= 1
  /\ \A j \in 0..E : P + j \in Nat /\ (j # 0 => P + j - 1 \in Nat)
  BY ScaleAssumption

LEMMA ScaleAt ==
  ASSUME NEW num \in Nat, NEW den \in Nat, den > 0
  PROVE  /\ Scale(num, den) \in 0..E
         /\ Scale(num, den) = E \/ num < den * Pow2[P + Scale(num, den)]
         /\ Scale(num, den) = 0 \/ num >= den * Pow2[P + Scale(num, den) - 1]
<1> DEFINE T == {j \in 0..E : j = E \/ num < den * Pow2[P + j]}
<1>1. PICK k \in T : \A j \in T : k <= j
  <2>1. T \subseteq Nat /\ E \in T
    BY Ranges
  <2> HIDE DEF T
  <2>2. QED BY <2>1, LeastOf
<1>2. k \in 0..E /\ (k = E \/ num < den * Pow2[P + k])
  BY <1>1
<1>3. k = 0 \/ num >= den * Pow2[P + k - 1]
  <2>1. SUFFICES ASSUME k # 0 PROVE num >= den * Pow2[P + k - 1]
    OBVIOUS
  <2>2. k - 1 \in 0..E /\ ~ (k <= k - 1) /\ P + (k - 1) = P + k - 1 /\ P + k - 1 \in Nat
    BY <1>2, <2>1, Ranges
  <2>3. k - 1 \notin T
    BY <1>1, <2>2
  <2>4. ~ (num < den * Pow2[P + k - 1])
    BY <2>2, <2>3
  <2>5. Pow2[P + k - 1] \in Nat
    BY <2>2, TwoAt
  <2>6. den * Pow2[P + k - 1] \in Nat
    BY <2>5
  <2>7. QED BY <2>4, <2>6
<1>4. \E j \in 0..E : (j = E \/ num < den * Pow2[P + j]) /\ (j = 0 \/ num >= den * Pow2[P + j - 1])
  BY <1>2, <1>3
<1>5. QED BY <1>4 DEF Scale

\* The nearest multiple is that below or the next, which are half a step away
\* at most; on a multiple it is exact; and it is monotone.
LEMMA NearestAt ==
  ASSUME NEW a \in Nat, NEW s \in Nat, s > 0
  PROVE  /\ Nearest(a, s) \in Nat
         /\ Nearest(a, s) = a \div s \/ Nearest(a, s) = (a \div s) + 1
         /\ (a % s) = 0 => Nearest(a, s) = a \div s
         /\ 2 * (a % s) < s => Nearest(a, s) = a \div s
         /\ 2 * (a % s) > s => Nearest(a, s) = (a \div s) + 1
         /\ 2 * (a % s) = s => Nearest(a, s) = IF (a \div s) % 2 = 1 THEN (a \div s) + 1 ELSE a \div s
<1>1. a \div s \in Nat /\ (a % s) \in 0..(s - 1)
  BY Euclid
<1> DEFINE q == a \div s
           r == a % s
<1>2. q \in Nat /\ r \in 0..(s - 1)
  BY <1>1
<1>3. Nearest(a, s) = IF 2 * r > s \/ (2 * r = s /\ q % 2 = 1) THEN q + 1 ELSE q
  BY DEF Nearest
<1> HIDE DEF q, r
<1>4. /\ Nearest(a, s) \in Nat
      /\ Nearest(a, s) = q \/ Nearest(a, s) = q + 1
      /\ r = 0 => Nearest(a, s) = q
      /\ 2 * r < s => Nearest(a, s) = q
      /\ 2 * r > s => Nearest(a, s) = q + 1
      /\ 2 * r = s => Nearest(a, s) = IF q % 2 = 1 THEN q + 1 ELSE q
  BY <1>2, <1>3
<1>5. QED BY <1>4 DEF q, r

LEMMA NearestMonotone ==
  ASSUME NEW a \in Nat, NEW b \in Nat, a <= b, NEW s \in Nat, s > 0
  PROVE  Nearest(a, s) <= Nearest(b, s)
<1> DEFINE qa == a \div s
           ra == a % s
           qb == b \div s
           rb == b % s
           na == Nearest(a, s)
           nb == Nearest(b, s)
<1>1. qa \in Nat /\ ra \in 0..(s - 1) /\ a = s * qa + ra
  BY Euclid
<1>2. qb \in Nat /\ rb \in 0..(s - 1) /\ b = s * qb + rb
  BY Euclid
<1>3. na = IF 2 * ra > s \/ (2 * ra = s /\ qa % 2 = 1) THEN qa + 1 ELSE qa
  BY DEF Nearest
<1>4. nb = IF 2 * rb > s \/ (2 * rb = s /\ qb % 2 = 1) THEN qb + 1 ELSE qb
  BY DEF Nearest
<1> HIDE DEF qa, ra, qb, rb, na, nb
<1>5. qa <= qb
  <2>1. SUFFICES ASSUME qb + 1 <= qa PROVE FALSE
    BY <1>1, <1>2
  <2>2. s * (qb + 1) <= s * qa /\ s * (qb + 1) = s * qb + s
    BY <1>1, <1>2, <2>1
  <2>3. s * qa \in Nat /\ s * qb \in Nat
    BY <1>1, <1>2
  <2>4. QED BY <1>1, <1>2, <2>2, <2>3
<1>6. ASSUME qa < qb PROVE na <= nb
  BY <1>1, <1>2, <1>3, <1>4, <1>6
<1>7. ASSUME qa = qb PROVE na <= nb
  <2>1. ra <= rb
    <3>1. s * qa \in Nat
      BY <1>1
    <3>2. QED BY <1>1, <1>2, <1>7, <3>1
  <2>2. QED BY <1>1, <1>2, <1>3, <1>4, <1>7, <2>1
<1>8. na <= nb
  BY <1>1, <1>2, <1>5, <1>6, <1>7
<1>9. QED BY <1>8 DEF na, nb

LEMMA DivBelow ==
  ASSUME NEW a \in Nat, NEW s \in Nat, s > 0, NEW c \in Nat
  PROVE  a < s * c <=> a \div s < c
<1> DEFINE q == a \div s
           r == a % s
<1>1. q \in Nat /\ r \in 0..(s - 1) /\ a = s * q + r
  BY Euclid
<1> HIDE DEF q, r
<1>2. s * q \in Nat /\ s * c \in Nat /\ s * (q + 1) = s * q + s
  BY <1>1
<1>3. ASSUME a < s * c PROVE q < c
  <2>1. SUFFICES ASSUME c <= q PROVE FALSE
    BY <1>1
  <2>2. s * c <= s * q
    BY <1>1, <2>1
  <2>3. QED BY <1>1, <1>2, <1>3, <2>2
<1>4. ASSUME q < c PROVE a < s * c
  <2>1. s * (q + 1) <= s * c
    BY <1>1, <1>4
  <2>2. QED BY <1>1, <1>2, <2>1
<1>5. QED BY <1>3, <1>4 DEF q

\* A result that is not in the last binade has at most P bits, or is the next
\* power of two; one that is not in the first has exactly P.
LEMMA NearestInBinade ==
  ASSUME NEW a \in Nat, NEW d \in Nat, d > 0,
         NEW k, k = Scale(a, d), NEW n, n = Nearest(a, d * Pow2[k])
  PROVE  /\ k \in 0..E /\ n \in Nat
         /\ k # E => n <= Pow2[P] /\ n * Pow2[k] <= Pow2[P + k]
         /\ k # 0 => n >= Pow2[P - 1] /\ n * Pow2[k] >= Pow2[P + k - 1]
<1>1. /\ k \in 0..E
      /\ k = E \/ a < d * Pow2[P + k]
      /\ k = 0 \/ a >= d * Pow2[P + k - 1]
  BY ScaleAt
<1>2. k \in Nat /\ P \in Nat /\ P - 1 \in Nat
  BY <1>1, Ranges
<1> DEFINE t == Pow2[k]
           u == Pow2[P]
           v == Pow2[P - 1]
           s == d * t
           q == a \div s
<1>3. t \in Nat /\ u \in Nat /\ v \in Nat /\ t >= 1
  BY <1>2, TwoAt
<1>4. Pow2[P + k] = u * t
  BY <1>2, TwoSum
<1>5. Pow2[P + k - 1] = v * t
  <2>1. Pow2[(P - 1) + k] = v * t
    BY <1>2, TwoSum
  <2>2. (P - 1) + k = P + k - 1
    BY <1>2
  <2>3. QED BY <2>1, <2>2
<1> HIDE DEF t, u, v
<1>6. s \in Nat /\ s > 0
  BY <1>3
<1>7. n \in Nat /\ (n = q \/ n = q + 1)
  BY <1>6, NearestAt DEF t
<1>8. q \in Nat
  BY <1>6, Euclid
<1> HIDE DEF q
<1>9. ASSUME k # E PROVE n <= u /\ n * t <= u * t
  <2>1. a < d * (u * t)
    BY <1>1, <1>4, <1>9
  <2>2. d * (u * t) = s * u
    BY <1>3
  <2>3. q < u
    BY <1>3, <1>6, <2>1, <2>2, DivBelow DEF q
  <2>4. n <= u
    BY <1>3, <1>7, <1>8, <2>3
  <2>5. QED BY <1>3, <1>7, <2>4
<1>10. ASSUME k # 0 PROVE n >= v /\ n * t >= v * t
  <2>1. a >= d * (v * t)
    BY <1>1, <1>5, <1>10
  <2>2. d * (v * t) = s * v /\ s * v \in Nat
    BY <1>3, <1>6
  <2>3. ~ (a < s * v)
    BY <2>1, <2>2
  <2>4. ~ (q < v)
    BY <1>3, <1>6, <2>3, DivBelow DEF q
  <2>5. n >= v
    BY <1>3, <1>7, <1>8, <2>4
  <2>6. QED BY <1>3, <1>7, <2>5
<1>11. QED BY <1>1, <1>4, <1>5, <1>7, <1>9, <1>10 DEF t, u, v

LEMMA RangeEnds ==
  /\ MaxMag \in Nat /\ Beyond \in Nat /\ MaxMag < Beyond /\ Beyond = Pow2[P + E]
  /\ Pow2[P + E - 1] <= MaxMag /\ MaxMag >= 1
<1> DEFINE u == Pow2[P]
           v == Pow2[P - 1]
           t == Pow2[E]
<1>1. P \in Nat /\ E \in Nat /\ P - 1 \in Nat /\ (P - 1) + 1 = P /\ (P - 1) + E = P + E - 1
  BY Ranges
<1>2. u \in Nat /\ v \in Nat /\ t \in Nat /\ u >= 1 /\ v >= 1 /\ t >= 1
  BY <1>1, TwoAt
<1>3. u = 2 * v
  BY <1>1, TwoStep
<1>4. Pow2[P + E] = u * t
  BY <1>1, TwoSum
<1>5. Pow2[P + E - 1] = v * t
  BY <1>1, TwoSum
<1>6. MaxMag = (u - 1) * t /\ Beyond = u * t
  BY DEF MaxMag, Beyond
<1> HIDE DEF u, v, t
<1>7. (u - 1) * t = u * t - t /\ u * t \in Nat /\ u * t = 2 * (v * t) /\ v * t \in Nat
  BY <1>2, <1>3
<1>8. v * t >= t
  BY <1>2
<1>9. QED BY <1>2, <1>4, <1>5, <1>6, <1>7, <1>8

LEMMA ClampMonotone ==
  ASSUME NEW a \in Nat, NEW b \in Nat, a <= b
  PROVE  Clamp(a) \in Nat /\ Clamp(a) <= Clamp(b)
BY RangeEnds DEF Clamp

LEMMA RoundMonotone ==
  ASSUME NEW a \in Nat, NEW b \in Nat, a <= b, NEW d \in Nat, d > 0
  PROVE  Round(a, d) \in Nat /\ Round(a, d) <= Round(b, d)
<1> DEFINE j == Scale(a, d)
           k == Scale(b, d)
           m == Nearest(a, d * Pow2[j])
           n == Nearest(b, d * Pow2[k])
<1>1. /\ j \in 0..E /\ m \in Nat
      /\ j # E => m * Pow2[j] <= Pow2[P + j]
  BY NearestInBinade
<1>2. /\ k \in 0..E /\ n \in Nat
      /\ k # 0 => n * Pow2[k] >= Pow2[P + k - 1]
  BY NearestInBinade
<1>3. j = E \/ a < d * Pow2[P + j]
  BY ScaleAt
<1>4. k = E \/ b < d * Pow2[P + k]
  BY ScaleAt
<1>5. j = 0 \/ a >= d * Pow2[P + j - 1]
  BY ScaleAt
<1>6. Round(a, d) = Clamp(m * Pow2[j]) /\ Round(b, d) = Clamp(n * Pow2[k])
  BY RoundParts
<1>7. j \in Nat /\ k \in Nat /\ P \in Nat
  BY <1>1, <1>2, Ranges
<1>8. Pow2[j] \in Nat /\ Pow2[k] \in Nat /\ Pow2[j] >= 1
  BY <1>7, TwoAt
<1>9. j = k => m <= n
  <2>1. SUFFICES ASSUME j = k PROVE m <= n
    OBVIOUS
  <2>2. d * Pow2[j] \in Nat /\ d * Pow2[j] > 0
    BY <1>8
  <2>3. Nearest(a, d * Pow2[j]) <= Nearest(b, d * Pow2[j])
    BY <2>2, NearestMonotone
  <2>4. QED BY <2>1, <2>3
<1> HIDE DEF j, k, m, n
<1>10. m * Pow2[j] \in Nat /\ n * Pow2[k] \in Nat
  BY <1>1, <1>2, <1>8
<1>11. m * Pow2[j] <= n * Pow2[k]
  <2>1. CASE j = k
    BY <1>1, <1>2, <1>8, <1>9, <2>1
  <2>2. CASE j < k
    <3>1. j # E /\ k # 0 /\ P + j <= P + k - 1 /\ P + j \in Nat /\ P + k - 1 \in Nat
      BY <1>1, <1>2, <1>7, <2>2
    <3>2. Pow2[P + j] <= Pow2[P + k - 1]
      BY <3>1, TwoOrdered
    <3>3. Pow2[P + j] \in Nat /\ Pow2[P + k - 1] \in Nat
      BY <3>1, TwoAt
    <3>4. QED BY <1>1, <1>2, <1>10, <3>1, <3>2, <3>3
  <2>3. CASE k < j
    <3>1. k # E /\ j # 0 /\ P + k <= P + j - 1 /\ P + k \in Nat /\ P + j - 1 \in Nat
      BY <1>1, <1>2, <1>7, <2>3
    <3>2. Pow2[P + k] <= Pow2[P + j - 1]
      BY <3>1, TwoOrdered
    <3>3. Pow2[P + k] \in Nat /\ Pow2[P + j - 1] \in Nat
      BY <3>1, TwoAt
    <3>4. d * Pow2[P + k] <= d * Pow2[P + j - 1]
      BY <3>2, <3>3
    <3>5. d * Pow2[P + k] \in Nat /\ d * Pow2[P + j - 1] \in Nat
      BY <3>3
    <3>6. QED BY <1>4, <1>5, <3>1, <3>4, <3>5
  <2>4. QED BY <1>7, <2>1, <2>2, <2>3
<1>12. QED BY <1>6, <1>10, <1>11, ClampMonotone

-----------------------------------------------------------------------------
(***************************************************************************)
(* Ordering.                                                               *)
(***************************************************************************)
Operands == Ints \cup Uints \cup Doubles

\* What an operand is made of.
IsInt(v) == v = IntVal(v.n) /\ v.kind = "int" /\ v.n \in MinInt..MaxInt
IsUint(v) == v = UintVal(v.n) /\ v.kind = "uint" /\ v.n \in 0..MaxUint
IsDouble(v) ==
  /\ v.kind = "double" /\ v = [kind |-> "double", f |-> v.f]
  /\ v.f = NaN \/ /\ v.f = Float(v.f.sgn, v.f.mag)
                  /\ v.f.sgn \in {1, -1} /\ v.f.mag \in Mags \cup {Beyond}
                  /\ v.f.mag = 0 => v.f.sgn = 1

LEMMA OperandKinds ==
  ASSUME NEW v \in Operands
  PROVE  IsInt(v) \/ IsUint(v) \/ IsDouble(v)
<1>1. CASE v \in Ints
  BY <1>1 DEF Ints, IntVal, IsInt
<1>2. CASE v \in Uints
  BY <1>2 DEF Uints, UintVal, IsUint
<1>3. CASE v \in Doubles
  <2>1. PICK f \in Floats : v = DoubleVal(f)
    BY <1>3 DEF Doubles
  <2>2. CASE f = NaN
    <3>1. f.mag = -1 /\ f.mag # 0
      BY <2>2 DEF NaN, Float
    <3>2. v = [kind |-> "double", f |-> NaN]
      BY <2>1, <2>2, <3>1 DEF DoubleVal
    <3>3. QED BY <3>2 DEF IsDouble
  <2>3. CASE f \in [sgn : {1, -1}, mag : Mags \cup {Beyond}]
    <3>1. f = Float(f.sgn, f.mag) /\ f.sgn \in {1, -1} /\ f.mag \in Mags \cup {Beyond}
      BY <2>3 DEF Float
    <3>2. CASE f.mag = 0
      <4>1. v.kind = "double" /\ v.f = Float(1, 0) /\ v = [kind |-> "double", f |-> v.f]
        BY <2>1, <3>2 DEF DoubleVal
      <4>2. v.f.sgn = 1 /\ v.f.mag = 0
        BY <4>1 DEF Float
      <4>3. QED BY <3>1, <3>2, <4>1, <4>2 DEF IsDouble
    <3>3. CASE f.mag # 0
      <4>1. v.kind = "double" /\ v.f = f /\ v = [kind |-> "double", f |-> v.f]
        BY <2>1, <3>3 DEF DoubleVal
      <4>2. QED BY <3>1, <3>3, <4>1 DEF IsDouble
    <3>4. QED BY <3>2, <3>3
  <2>4. QED BY <2>2, <2>3 DEF Floats
<1>4. QED BY <1>1, <1>2, <1>3 DEF Operands

LEMMA DoubleParts ==
  ASSUME NEW v, IsDouble(v), v.f # NaN
  PROVE  v.f.sgn \in {1, -1} /\ v.f.mag \in Nat /\ v.f.mag <= Beyond /\ Signed(v.f) \in Int
<1>1. v.f.sgn \in {1, -1} /\ v.f.mag \in Mags \cup {Beyond}
  BY DEF IsDouble
<1>2. v.f.mag \in Nat /\ v.f.mag <= Beyond
  BY <1>1, RangeEnds DEF Mags
<1>3. QED BY <1>1, <1>2 DEF Signed

LEMMA WidenAt ==
  ASSUME NEW n \in Int
  PROVE  Abs(n) * Pow2[F] \in Nat /\ Round(Abs(n) * Pow2[F], 1) \in Nat /\ Widen(n) \in Int
<1>1. Abs(n) \in Nat /\ Sgn(n) \in {1, -1}
  BY Signs
<1>2. Pow2[F] \in Nat
  BY Ranges, TwoAt
<1>3. Abs(n) * Pow2[F] \in Nat
  BY <1>1, <1>2
<1>4. Round(Abs(n) * Pow2[F], 1) \in Nat
  BY <1>3, RoundMonotone
<1>5. QED BY <1>1, <1>3, <1>4 DEF Widen

LEMMA WidenMonotone ==
  ASSUME NEW a \in Int, NEW b \in Int, a <= b
  PROVE  Widen(a) <= Widen(b)
<1> DEFINE R(n) == Round(Abs(n) * Pow2[F], 1)
<1>1. R(a) \in Nat /\ R(b) \in Nat /\ Abs(a) * Pow2[F] \in Nat /\ Abs(b) * Pow2[F] \in Nat
  BY WidenAt
<1>2. Pow2[F] \in Nat /\ Abs(a) \in Nat /\ Abs(b) \in Nat
  BY Ranges, TwoAt, Signs
<1>3. Abs(a) <= Abs(b) => R(a) <= R(b)
  <2>1. SUFFICES ASSUME Abs(a) <= Abs(b) PROVE R(a) <= R(b)
    OBVIOUS
  <2>2. Abs(a) * Pow2[F] <= Abs(b) * Pow2[F]
    BY <1>2, <2>1
  <2>3. QED BY <1>1, <2>2, RoundMonotone
<1>4. Abs(b) <= Abs(a) => R(b) <= R(a)
  <2>1. SUFFICES ASSUME Abs(b) <= Abs(a) PROVE R(b) <= R(a)
    OBVIOUS
  <2>2. Abs(b) * Pow2[F] <= Abs(a) * Pow2[F]
    BY <1>2, <2>1
  <2>3. QED BY <1>1, <2>2, RoundMonotone
<1>5. Widen(a) = Sgn(a) * R(a) /\ Widen(b) = Sgn(b) * R(b)
  BY DEF Widen
<1> HIDE DEF R
<1>6. CASE a >= 0
  <2>1. Sgn(a) = 1 /\ Sgn(b) = 1 /\ Abs(a) = a /\ Abs(b) = b
    BY <1>6 DEF Sgn, Abs
  <2>2. QED BY <1>1, <1>3, <1>5, <2>1
<1>7. CASE a < 0 /\ b >= 0
  <2>1. Sgn(a) = -1 /\ Sgn(b) = 1
    BY <1>7 DEF Sgn
  <2>2. QED BY <1>1, <1>5, <2>1
<1>8. CASE b < 0
  <2>1. Sgn(a) = -1 /\ Sgn(b) = -1 /\ Abs(a) = -a /\ Abs(b) = -b
    BY <1>8 DEF Sgn, Abs
  <2>2. QED BY <1>1, <1>4, <1>5, <2>1
<1>9. QED BY <1>6, <1>7, <1>8

\* The tests of the bounds on the way change nothing.
LEMMA DoubleAgainstIs ==
  ASSUME NEW f, Signed(f) \in Int, NEW lo \in Int, NEW hi \in Int, NEW n \in lo..hi
  PROVE  DoubleAgainst(f, lo, hi, n) = Sign(Signed(f) - Widen(n))
<1>1. n \in Int /\ lo <= n /\ n <= hi
  OBVIOUS
<1>2. Widen(lo) <= Widen(n) /\ Widen(n) <= Widen(hi)
  BY <1>1, WidenMonotone
<1>3. Widen(lo) \in Int /\ Widen(n) \in Int /\ Widen(hi) \in Int
  BY <1>1, WidenAt
<1>4. QED BY <1>2, <1>3 DEF DoubleAgainst, Sign

HasNaN(a, b) == \E v \in {a, b} : v.kind = "double" /\ v.f = NaN

LEMMA BoundsHold ==
  ASSUME NEW v, IsInt(v) \/ IsUint(v)
  PROVE  /\ Bounds(v)[1] \in Int /\ Bounds(v)[2] \in Int /\ v.n \in Int
         /\ v.n \in Bounds(v)[1]..Bounds(v)[2]
         /\ v.kind # "double"
<1>1. CASE IsInt(v)
  BY <1>1, Widths DEF IsInt, Bounds
<1>2. CASE IsUint(v)
  BY <1>2, Widths DEF IsUint, Bounds
<1>3. QED BY <1>1, <1>2

LEMMA SignTurned ==
  ASSUME NEW d \in Int
  PROVE  Sign(-d) = -Sign(d) /\ Sign(d) \in {-1, 0, 1}
BY DEF Sign

\* Compare tells the difference of the two on the scale of the doubles.
LEMMA CompareIs ==
  ASSUME NEW a \in Operands, NEW b \in Operands
  PROVE  /\ HasNaN(a, b) => Compare(a, b) = Err("nan")
         /\ ~ HasNaN(a, b) =>
              /\ OnScale(a, b) \in Int /\ OnScale(b, a) \in Int
              /\ Compare(a, b) = IntVal(Sign(OnScale(a, b) - OnScale(b, a)))
<1>1. IsInt(a) \/ IsUint(a) \/ IsDouble(a)
  BY OperandKinds
<1>2. IsInt(b) \/ IsUint(b) \/ IsDouble(b)
  BY OperandKinds
<1>3. HasNaN(a, b) <=> NaN \in {v.f : v \in {u \in {a, b} : u.kind = "double"}}
  BY DEF HasNaN
<1>4. HasNaN(a, b) => Compare(a, b) = Err("nan")
  BY <1>3 DEF Compare
<1>5. ASSUME ~ HasNaN(a, b)
      PROVE  /\ OnScale(a, b) \in Int /\ OnScale(b, a) \in Int
             /\ Compare(a, b) = IntVal(Sign(OnScale(a, b) - OnScale(b, a)))
  <2>1. (a.kind = "double" => a.f # NaN) /\ (b.kind = "double" => b.f # NaN)
    BY <1>5 DEF HasNaN
  <2>2. CASE IsDouble(a) /\ IsDouble(b)
    <3>1. a.kind = "double" /\ b.kind = "double"
      BY <2>2 DEF IsDouble
    <3>2. Signed(a.f) \in Int /\ Signed(b.f) \in Int
      BY <2>1, <2>2, <3>1, DoubleParts
    <3>3. OnScale(a, b) = Signed(a.f) /\ OnScale(b, a) = Signed(b.f)
      BY <3>1 DEF OnScale
    <3>4. Compare(a, b) = IntVal(Sign(Signed(a.f) - Signed(b.f)))
      BY <1>3, <1>5, <3>1 DEF Compare
    <3>5. QED BY <3>2, <3>3, <3>4
  <2>3. CASE IsDouble(a) /\ (IsInt(b) \/ IsUint(b))
    <3>1. a.kind = "double" /\ b.kind # "double"
      BY <2>3, BoundsHold DEF IsDouble
    <3>2. Signed(a.f) \in Int
      BY <2>1, <2>3, <3>1, DoubleParts
    <3>3. OnScale(a, b) = Signed(a.f) /\ OnScale(b, a) = Widen(b.n)
      BY <3>1 DEF OnScale
    <3>4. Widen(b.n) \in Int
      BY <2>3, BoundsHold, WidenAt
    <3>5. DoubleAgainst(a.f, Bounds(b)[1], Bounds(b)[2], b.n) = Sign(Signed(a.f) - Widen(b.n))
      BY <2>3, <3>2, BoundsHold, DoubleAgainstIs
    <3>6. Compare(a, b) = IntVal(DoubleAgainst(a.f, Bounds(b)[1], Bounds(b)[2], b.n))
      BY <1>3, <1>5, <3>1 DEF Compare
    <3>7. QED BY <3>2, <3>3, <3>4, <3>5, <3>6
  <2>4. CASE (IsInt(a) \/ IsUint(a)) /\ IsDouble(b)
    <3>1. a.kind # "double" /\ b.kind = "double"
      BY <2>4, BoundsHold DEF IsDouble
    <3>2. Signed(b.f) \in Int
      BY <2>1, <2>4, <3>1, DoubleParts
    <3>3. OnScale(a, b) = Widen(a.n) /\ OnScale(b, a) = Signed(b.f)
      BY <3>1 DEF OnScale
    <3>4. Widen(a.n) \in Int
      BY <2>4, BoundsHold, WidenAt
    <3>5. DoubleAgainst(b.f, Bounds(a)[1], Bounds(a)[2], a.n) = Sign(Signed(b.f) - Widen(a.n))
      BY <2>4, <3>2, BoundsHold, DoubleAgainstIs
    <3>6. Compare(a, b) = IntVal(-DoubleAgainst(b.f, Bounds(a)[1], Bounds(a)[2], a.n))
      BY <1>3, <1>5, <3>1 DEF Compare
    <3>7. -Sign(Signed(b.f) - Widen(a.n)) = Sign(Widen(a.n) - Signed(b.f))
      BY <3>2, <3>4 DEF Sign
    <3>8. QED BY <3>2, <3>3, <3>4, <3>5, <3>6, <3>7
  <2>5. CASE (IsInt(a) \/ IsUint(a)) /\ (IsInt(b) \/ IsUint(b))
    <3>1. a.kind # "double" /\ b.kind # "double" /\ a.n \in Int /\ b.n \in Int
      BY <2>5, BoundsHold
    <3>2. Pow2[F] \in Nat /\ Pow2[F] >= 1
      BY Ranges, TwoAt
    <3>3. OnScale(a, b) = a.n * Pow2[F] /\ OnScale(b, a) = b.n * Pow2[F]
      BY <3>1 DEF OnScale
    <3>4. Compare(a, b) = IntVal(Sign(a.n - b.n))
      BY <1>3, <1>5, <3>1 DEF Compare
    <3>5. a.n * Pow2[F] \in Int /\ b.n * Pow2[F] \in Int
      BY <3>1, <3>2
    <3>6. Sign(a.n - b.n) = Sign(a.n * Pow2[F] - b.n * Pow2[F])
      <4> DEFINE d == a.n - b.n
                 u == Pow2[F]
      <4>1. a.n * u - b.n * u = d * u /\ d \in Int
        BY <3>1, <3>2
      <4>2. Sign(d) = Sign(d * u)
        <5> HIDE DEF d, u
        <5>1. u \in Nat /\ u >= 1
          BY <3>2 DEF u
        <5>2. (d < 0 => d * u < 0) /\ (d > 0 => d * u > 0) /\ (d = 0 => d * u = 0) /\ d * u \in Int
          BY <4>1, <5>1
        <5>3. QED BY <4>1, <5>2 DEF Sign
      <4>3. QED BY <4>1, <4>2
    <3>7. QED BY <3>3, <3>4, <3>5, <3>6
  <2>6. QED BY <1>1, <1>2, <2>2, <2>3, <2>4, <2>5
<1>6. QED BY <1>4, <1>5

LEMMA RelationOperands ==
  ASSUME Called, op \in Relations
  PROVE  x \in Operands /\ y \in Operands
<1>1. op \notin Arithmetic \cup Roundings \cup Extremes \cup Shifts \cup BitOps
                   \cup {"%", "neg", "int", "uint", "double", "abs", "sign", "not"}
  BY DEF Arithmetic, Relations, Extremes, Roundings, Shifts, BitOps
<1>2. Calls(op) = Operands \X Operands
  BY <1>1 DEF Calls, Operands
<1>3. QED BY <1>2 DEF Called

\* The sign of the difference holds what the difference holds.
LEMMA HoldsOfSign ==
  ASSUME NEW o \in Relations, NEW d \in Int
  PROVE  /\ Holds(o, d) \in BOOLEAN /\ Holds(o, Sign(d)) = Holds(o, d)
         /\ Sign(d) = 0 <=> d = 0
<1>1. Sign(d) \in Int /\ (Sign(d) < 0 <=> d < 0) /\ (Sign(d) > 0 <=> d > 0) /\ (Sign(d) = 0 <=> d = 0)
  BY DEF Sign
<1>2. CASE o = "<"
  <2>1. Holds(o, d) = (d < 0) /\ Holds(o, Sign(d)) = (Sign(d) < 0)
    BY <1>2 DEF Holds
  <2>2. QED BY <1>1, <2>1
<1>3. CASE o = "<="
  <2>1. Holds(o, d) = (d <= 0) /\ Holds(o, Sign(d)) = (Sign(d) <= 0)
    BY <1>3 DEF Holds
  <2>2. (Sign(d) <= 0) = (d <= 0)
    BY <1>1
  <2>3. QED BY <1>1, <2>1, <2>2
<1>4. CASE o = ">"
  <2>1. Holds(o, d) = (d > 0) /\ Holds(o, Sign(d)) = (Sign(d) > 0)
    BY <1>4 DEF Holds
  <2>2. QED BY <1>1, <2>1
<1>5. CASE o = ">="
  <2>1. Holds(o, d) = (d >= 0) /\ Holds(o, Sign(d)) = (Sign(d) >= 0)
    BY <1>5 DEF Holds
  <2>2. (Sign(d) >= 0) = (d >= 0)
    BY <1>1
  <2>3. QED BY <1>1, <2>1, <2>2
<1>6. CASE o = "=="
  <2>1. Holds(o, d) = (d = 0) /\ Holds(o, Sign(d)) = (Sign(d) = 0)
    BY <1>6 DEF Holds
  <2>2. QED BY <1>1, <2>1
<1>7. QED BY <1>1, <1>2, <1>3, <1>4, <1>5, <1>6 DEF Relations

-----------------------------------------------------------------------------
(***************************************************************************)
(* Doubles.                                                                *)
(***************************************************************************)
\* With q = u - 1 odd, the nearest multiple of s reaches u from half a step
\* below it on.
LEMMA NearestReaches ==
  ASSUME NEW a \in Nat, NEW s \in Nat, s > 0, NEW h \in Nat, h > 0
  PROVE  Nearest(a, s) >= 2 * h <=> 2 * a >= (4 * h - 1) * s
<1> DEFINE q == a \div s
           r == a % s
           n == Nearest(a, s)
           u == 2 * h
<1>1. q \in Nat /\ r \in 0..(s - 1) /\ a = s * q + r
  BY Euclid
<1>2. n = IF 2 * r > s \/ (2 * r = s /\ q % 2 = 1) THEN q + 1 ELSE q
  BY DEF Nearest
<1> HIDE DEF q, r, n
<1>3. (4 * h - 1) * s = 2 * (s * u) - s /\ s * u \in Nat /\ s * q \in Nat /\ u \in Nat
  BY <1>1
<1> HIDE DEF u
<1>4. CASE q >= u
  <2>1. s * q >= s * u
    BY <1>1, <1>3, <1>4
  <2>2. n >= u
    BY <1>1, <1>2, <1>3, <1>4
  <2>3. 2 * a >= (4 * h - 1) * s
    BY <1>1, <1>3, <2>1
  <2>4. QED BY <2>2, <2>3 DEF n, u
<1>5. CASE q + 2 <= u
  <2>1. s * (q + 2) <= s * u /\ s * (q + 2) = s * q + 2 * s
    BY <1>1, <1>3, <1>5
  <2>2. ~ (n >= u)
    BY <1>1, <1>2, <1>3, <1>5
  <2>3. ~ (2 * a >= (4 * h - 1) * s)
    BY <1>1, <1>3, <2>1
  <2>4. QED BY <2>2, <2>3 DEF n, u
<1>6. CASE q + 1 = u
  <2>1. q = 2 * (h - 1) + 1 /\ h - 1 \in Int /\ 1 \in 0..(2 - 1) /\ q \in Int
    BY <1>1, <1>6 DEF u
  <2>2. q % 2 = 1
    <3>1. 2 \in Nat /\ 2 > 0 /\ 1 \in Int
      OBVIOUS
    <3>2. QED BY <2>1, <3>1, EuclidUnique
  <2>3. n >= u <=> 2 * r >= s
    BY <1>1, <1>2, <1>6, <2>2
  <2>4. s * u = s * q + s
    BY <1>1, <1>6
  <2>5. 2 * a >= (4 * h - 1) * s <=> 2 * r >= s
    BY <1>1, <1>3, <2>4
  <2>6. QED BY <2>3, <2>5 DEF n, u
<1>7. QED BY <1>1, <1>3, <1>4, <1>5, <1>6

LEMMA BoundaryAt == Boundary \in Nat /\ Pow2[P + E - 1] <= Boundary /\ Boundary >= 1
<1>1. P \in Nat /\ E - 1 \in Nat /\ P + (E - 1) = P + E - 1
  BY Ranges
<1>2. Pow2[P] \in Nat /\ Pow2[P] >= 1 /\ Pow2[E - 1] \in Nat /\ Pow2[E - 1] >= 1
  BY <1>1, TwoAt
<1>3. Pow2[P + 1] = 2 * Pow2[P] /\ Pow2[P + E - 1] = Pow2[P] * Pow2[E - 1]
  <2>1. Pow2[P + (E - 1)] = Pow2[P] * Pow2[E - 1]
    BY <1>1, TwoSum
  <2>2. Pow2[P + 1] = 2 * Pow2[P]
    BY <1>1, TwoStep
  <2>3. QED BY <1>1, <2>1, <2>2
<1>4. Pow2[P + 1] - 1 \in Nat /\ Pow2[P + 1] - 1 >= Pow2[P]
  BY <1>2, <1>3
<1>5. (Pow2[P + 1] - 1) * Pow2[E - 1] >= Pow2[P] * Pow2[E - 1]
  BY <1>2, <1>4
<1>6. Pow2[P] * Pow2[E - 1] >= 1 /\ Pow2[P] * Pow2[E - 1] \in Nat
  BY <1>2
<1>7. (Pow2[P + 1] - 1) * Pow2[E - 1] \in Nat
  BY <1>2, <1>4
<1>8. QED BY <1>3, <1>5, <1>6, <1>7 DEF Boundary

\* Rounding reaches infinity exactly at Boundary.
LEMMA RoundTop ==
  ASSUME NEW a \in Nat, NEW d \in Nat, d > 0
  PROVE  /\ Round(a, d) \in Nat
         /\ Round(a, d) = Beyond <=> a >= Boundary * d
         /\ Round(a, d) # Beyond => Round(a, d) <= MaxMag
<1> DEFINE k == Scale(a, d)
           n == Nearest(a, d * Pow2[k])
           v == n * Pow2[k]
<1>1. /\ k \in 0..E /\ n \in Nat
      /\ k # E => n <= Pow2[P] /\ v <= Pow2[P + k]
  BY NearestInBinade
<1>2. k = E \/ a < d * Pow2[P + k]
  BY ScaleAt
<1>3. k \in Nat /\ E \in Nat /\ P \in Nat /\ P + k \in Nat /\ P + E - 1 \in Nat
  BY <1>1, Ranges
<1>4. Pow2[k] \in Nat /\ Pow2[k] >= 1 /\ v \in Nat
  BY <1>1, <1>3, TwoAt
<1>5. Round(a, d) = Clamp(v)
  BY RoundParts
<1>6. /\ Round(a, d) \in Nat
      /\ Round(a, d) = Beyond <=> v > MaxMag
      /\ Round(a, d) # Beyond => Round(a, d) <= MaxMag
  <2> HIDE DEF v
  <2>1. QED BY <1>4, <1>5, RangeEnds DEF Clamp
<1>7. v > MaxMag <=> a >= Boundary * d
  <2>1. CASE k # E
    <3>1. P + k <= P + E - 1
      <4> HIDE DEF k
      <4>1. QED BY <1>1, <1>3, <2>1
    <3>2. Pow2[P + k] <= Pow2[P + E - 1]
      BY <1>3, <3>1, TwoOrdered
    <3>3. Pow2[P + k] \in Nat /\ Pow2[P + E - 1] \in Nat
      BY <1>3, TwoAt
    <3>4. v <= MaxMag
      BY <1>1, <1>4, <2>1, <3>2, <3>3, RangeEnds
    <3>5. Pow2[P + k] <= Boundary
      BY <3>2, <3>3, BoundaryAt
    <3>6. d * Pow2[P + k] <= d * Boundary /\ d * Boundary = Boundary * d /\ d * Boundary \in Nat
      BY <3>3, <3>5, BoundaryAt
    <3>7. a < Boundary * d
      <4>1. d * Pow2[P + k] \in Nat
        BY <3>3
      <4>2. QED BY <1>2, <2>1, <3>6, <4>1
    <3>8. QED BY <1>4, <3>4, <3>6, <3>7, RangeEnds
  <2>2. CASE k = E
    <3> DEFINE h == Pow2[P - 1]
               z == Pow2[E - 1]
               t == Pow2[E]
               s == d * t
    <3>1. P - 1 \in Nat /\ E - 1 \in Nat /\ (P - 1) + 1 = P /\ (E - 1) + 1 = E
      BY Ranges
    <3>2. h \in Nat /\ h >= 1 /\ z \in Nat /\ z >= 1 /\ t \in Nat /\ t >= 1
      BY <1>3, <3>1, TwoAt
    <3>3. Pow2[P] = 2 * h /\ t = 2 * z /\ Pow2[P + 1] = 2 * Pow2[P]
      BY <1>3, <3>1, TwoStep
    <3>4. MaxMag = (2 * h - 1) * t
      BY <3>3 DEF MaxMag
    <3>5. Boundary = (4 * h - 1) * z
      BY <3>2, <3>3 DEF Boundary
    <3>6. n = Nearest(a, s) /\ v = n * t
      BY <2>2
    <3> HIDE DEF h, z, t, n, v
    <3>7. s \in Nat /\ s > 0
      BY <3>2
    <3> DEFINE w == Nearest(a, s)
    <3>8. n \in Nat /\ w \in Nat /\ w = n
      BY <1>1, <3>6
    <3>9. w >= 2 * h <=> 2 * a >= (4 * h - 1) * s
      BY <3>2, <3>7, NearestReaches
    <3> HIDE DEF w
    <3>10. v > MaxMag <=> n >= 2 * h
      <4>1. ASSUME n >= 2 * h PROVE v > MaxMag
        <5>1. n * t >= (2 * h) * t
          BY <3>2, <3>8, <4>1
        <5>2. (2 * h - 1) * t = (2 * h) * t - t /\ (2 * h) * t \in Nat /\ n * t \in Nat
          BY <3>2, <3>8
        <5>3. QED BY <3>2, <3>4, <3>6, <5>1, <5>2
      <4>2. ASSUME ~ (n >= 2 * h) PROVE ~ (v > MaxMag)
        <5>1. n <= 2 * h - 1
          BY <3>2, <3>8, <4>2
        <5>2. n * t <= (2 * h - 1) * t
          BY <3>2, <3>8, <5>1
        <5>3. n * t \in Nat /\ (2 * h - 1) * t \in Int
          BY <3>2, <3>8
        <5>4. QED BY <3>4, <3>6, <5>2, <5>3
      <4>3. QED BY <4>1, <4>2
    <3>11. (4 * h - 1) * s = 2 * (((4 * h - 1) * z) * d)
      BY <3>2, <3>3
    <3>12. ((4 * h - 1) * z) * d \in Int
      BY <3>2
    <3>13. 2 * a >= (4 * h - 1) * s <=> a >= Boundary * d
      BY <3>5, <3>11, <3>12
    <3>14. QED BY <3>8, <3>9, <3>10, <3>13
  <2>3. QED BY <2>1, <2>2
<1>8. QED BY <1>6, <1>7

\* Rounding reaches zero exactly at half a unit.
LEMMA RoundLow ==
  ASSUME NEW a \in Nat, NEW d \in Nat, d > 0
  PROVE  Round(a, d) = 0 <=> 2 * a <= d
<1> DEFINE k == Scale(a, d)
           n == Nearest(a, d * Pow2[k])
           v == n * Pow2[k]
<1>1. /\ k \in 0..E /\ n \in Nat
      /\ k # 0 => n >= Pow2[P - 1] /\ n * Pow2[k] >= Pow2[P + k - 1]
  BY NearestInBinade
<1>2. k = 0 \/ a >= d * Pow2[P + k - 1]
  BY ScaleAt
<1>3. k \in Nat /\ P - 1 \in Nat /\ (k # 0 => P + k - 1 \in Nat)
  BY <1>1, Ranges
<1>4. Pow2[k] \in Nat /\ Pow2[k] >= 1 /\ v \in Nat
  BY <1>1, <1>3, TwoAt
<1>5. Round(a, d) = Clamp(v)
  BY RoundParts
<1>6. Round(a, d) = 0 <=> v = 0
  <2> HIDE DEF v
  <2>1. QED BY <1>4, <1>5, RangeEnds DEF Clamp
<1>7. v = 0 <=> n = 0
  <2> HIDE DEF k, n
  <2>1. QED BY <1>1, <1>4
<1>8. n = 0 <=> 2 * a <= d
  <2>1. CASE k # 0
    <3>1. Pow2[P - 1] \in Nat /\ Pow2[P - 1] >= 1
      BY <1>3, TwoAt
    <3>2. Pow2[P + k - 1] \in Nat /\ Pow2[P + k - 1] >= 1
      BY <1>3, <2>1, TwoAt
    <3>3. d * Pow2[P + k - 1] >= d /\ d * Pow2[P + k - 1] \in Nat
      BY <3>2
    <3>4. a >= d
      BY <1>2, <2>1, <3>3
    <3>5. n >= 1
      BY <1>1, <2>1, <3>1
    <3>6. QED BY <1>1, <3>4, <3>5
  <2>2. CASE k = 0
    <3> DEFINE q == a \div d
               r == a % d
               w == Nearest(a, d)
    <3>1. n = w
      <4>1. d * Pow2[k] = d
        BY <2>2, TwoAt
      <4>2. QED BY <4>1
    <3>2. q \in Nat /\ r \in 0..(d - 1) /\ a = d * q + r
      BY Euclid
    <3>3. w = IF 2 * r > d \/ (2 * r = d /\ q % 2 = 1) THEN q + 1 ELSE q
      BY DEF Nearest
    <3> HIDE DEF q, r, w, n
    <3>4. CASE q = 0
      <4>1. a = r /\ q % 2 # 1
        BY <3>2, <3>4
      <4>2. w = 0 <=> 2 * a <= d
        BY <3>2, <3>3, <3>4, <4>1
      <4>3. QED BY <3>1, <4>2
    <3>5. CASE q >= 1
      <4>1. d * q >= d /\ d * q \in Nat
        BY <3>2, <3>5
      <4>2. a >= d /\ ~ (2 * a <= d)
        BY <3>2, <4>1
      <4>3. w # 0
        BY <3>2, <3>3, <3>5
      <4>4. QED BY <3>1, <4>2, <4>3
    <3>6. QED BY <3>2, <3>4, <3>5
  <2>3. QED BY <2>1, <2>2
<1>9. QED BY <1>6, <1>7, <1>8

\* The exact results that would round to zero but are above the literal.
Strip(a, d) == 2 * a <= d /\ TinyDen * a > TinyNum * d

\* The literal lies below half a unit, zero below both.
LEMMA StripAt ==
  ASSUME NEW a \in Nat, NEW d \in Nat, d > 0
  PROVE  /\ Tiny(a, d) => 2 * a <= d /\ ~ Strip(a, d)
         /\ ~ Tiny(a, d) /\ 2 * a <= d => Strip(a, d)
         /\ a = 0 => Tiny(a, d)
<1>1. TinyNum \in Nat /\ TinyDen \in Nat /\ 2 * TinyNum < TinyDen
  BY TinyAssumption
<1>2. /\ a * TinyDen \in Nat /\ TinyNum * d \in Nat /\ TinyDen * a = a * TinyDen
      /\ TinyDen * d \in Nat
  BY <1>1
<1>3. ASSUME Tiny(a, d) PROVE 2 * a <= d
  <2>1. SUFFICES ASSUME 2 * a > d PROVE FALSE
    OBVIOUS
  <2>2. TinyDen * (2 * a) >= TinyDen * d /\ TinyDen * (2 * a) = 2 * (a * TinyDen)
    BY <1>1, <2>1
  <2>3. (2 * TinyNum) * d + d <= TinyDen * d /\ (2 * TinyNum) * d = 2 * (TinyNum * d)
    <3>1. 2 * TinyNum + 1 <= TinyDen
      BY <1>1
    <3>2. (2 * TinyNum + 1) * d <= TinyDen * d
      BY <1>1, <3>1
    <3>3. (2 * TinyNum + 1) * d = (2 * TinyNum) * d + d /\ (2 * TinyNum) * d = 2 * (TinyNum * d)
      BY <1>1
    <3>4. QED BY <3>2, <3>3
  <2>4. a * TinyDen <= TinyNum * d
    BY <1>3 DEF Tiny
  <2>5. QED BY <1>2, <2>2, <2>3, <2>4
<1>4. a = 0 => a * TinyDen = 0
  BY <1>1
<1>5. QED BY <1>2, <1>3, <1>4 DEF Tiny, Strip

\* What cel._dbl_of_numeric makes of an exact result: rounded once, except
\* in the strip.
LEMMA DblOfNumericIs ==
  ASSUME NEW s \in {1, -1}, NEW a \in Nat, NEW d \in Nat, d > 0,
         NEW v, v = DblOfNumeric(s, a, d)
  PROVE  IF Strip(a, d) THEN v = Raised
         ELSE /\ v.kind = "double" /\ v.f.mag = Round(a, d)
              /\ Round(a, d) # 0 => v.f.sgn = s
<1> DEFINE g == Round(a, d)
<1>1. /\ g \in Nat
      /\ g = Beyond <=> a >= Boundary * d
      /\ g # Beyond => g <= MaxMag
      /\ g = 0 <=> 2 * a <= d
  BY RoundTop, RoundLow
<1>2. Beyond \in Nat /\ Beyond >= 1 /\ Boundary * d \in Nat /\ Boundary * d >= d
  <2>1. Boundary \in Nat /\ Boundary >= 1
    BY BoundaryAt
  <2>2. QED BY <2>1, RangeEnds
<1>3. ASSUME NEW m \in Nat, NEW f, f = Float(s, m)
      PROVE  /\ DoubleVal(f).kind = "double" /\ DoubleVal(f).f.mag = m
             /\ m # 0 => DoubleVal(f).f.sgn = s
  BY <1>3 DEF DoubleVal, Float
<1>4. v = IF a >= Boundary * d THEN DoubleVal(Inf(s))
          ELSE IF a # 0 /\ Tiny(a, d) THEN DoubleVal(Float(s, 0))
          ELSE IF a = 0 THEN DoubleVal(Float(1, 0))
          ELSE IF g \in {0, Beyond} THEN Raised ELSE DoubleVal(Float(s, g))
  BY DEF DblOfNumeric, Cast
<1> HIDE DEF g
<1>5. CASE a >= Boundary * d
  <2>1. g = Beyond /\ g # 0 /\ ~ (2 * a <= d) /\ v = DoubleVal(Float(s, g))
    BY <1>1, <1>2, <1>4, <1>5 DEF Inf
  <2>2. QED BY <1>1, <1>3, <2>1 DEF g, Strip
<1>6. CASE ~ (a >= Boundary * d) /\ a # 0 /\ Tiny(a, d)
  <2>1. g = 0 /\ ~ Strip(a, d) /\ v = DoubleVal(Float(s, g))
    BY <1>1, <1>4, <1>6, StripAt
  <2>2. QED BY <1>1, <1>3, <2>1 DEF g
<1>7. CASE ~ (a >= Boundary * d) /\ a = 0
  <2>1. g = 0 /\ ~ Strip(a, d) /\ v = DoubleVal(Float(1, 0))
    BY <1>1, <1>4, <1>7, StripAt
  <2>2. v.kind = "double" /\ v.f.mag = 0
    BY <2>1 DEF DoubleVal, Float
  <2>3. QED BY <2>1, <2>2 DEF g
<1>8. CASE ~ (a >= Boundary * d) /\ a # 0 /\ ~ Tiny(a, d)
  <2>1. g # Beyond
    BY <1>1, <1>8
  <2>2. v = IF g = 0 THEN Raised ELSE DoubleVal(Float(s, g))
    BY <1>4, <1>8, <2>1
  <2>3. g = 0 <=> Strip(a, d)
    BY <1>1, <1>8, StripAt DEF Strip
  <2>4. g # 0 => v.kind = "double" /\ v.f.mag = g /\ v.f.sgn = s
    BY <1>1, <1>3, <2>2
  <2>5. QED BY <2>2, <2>3, <2>4 DEF g
<1>9. QED BY <1>5, <1>6, <1>7, <1>8

\* The sign and magnitude of a product.
LEMMA ProductSigned ==
  ASSUME NEW s \in {1, -1}, NEW t \in {1, -1}, NEW a \in Nat, NEW b \in Nat
  PROVE  /\ (s * a) * (t * b) = (s * t) * (a * b)
         /\ s * t \in {1, -1} /\ a * b \in Nat
<1>1. a * b \in Nat
  OBVIOUS
<1>2. CASE s = 1 /\ t = 1
  BY <1>1, <1>2
<1>3. CASE s = 1 /\ t = -1
  <2>1. s * a = a /\ t * b = -b /\ s * t = -1 /\ (s * t) * (a * b) = -(a * b)
    BY <1>1, <1>3
  <2>2. a * (-b) = -(a * b)
    OBVIOUS
  <2>3. QED BY <1>1, <2>1, <2>2
<1>4. CASE s = -1 /\ t = 1
  <2>1. s * a = -a /\ t * b = b /\ s * t = -1 /\ (s * t) * (a * b) = -(a * b)
    BY <1>1, <1>4
  <2>2. (-a) * b = -(a * b)
    OBVIOUS
  <2>3. QED BY <1>1, <2>1, <2>2
<1>5. CASE s = -1 /\ t = -1
  <2>1. s * a = -a /\ t * b = -b
    BY <1>5
  <2>2. s * t = 1
    BY <1>5
  <2>3. (s * t) * (a * b) = a * b
    BY <1>1, <2>2
  <2>4. (-a) * (-b) = a * b
    OBVIOUS
  <2>5. QED BY <1>1, <2>1, <2>2, <2>3, <2>4
<1>6. QED BY <1>2, <1>3, <1>4, <1>5

LEMMA SignedNumber ==
  ASSUME NEW s \in {1, -1}, NEW m \in Nat
  PROVE  s * m \in Int /\ Abs(s * m) = m /\ (m # 0 => Sgn(s * m) = s)
<1>1. CASE s = 1
  BY <1>1 DEF Abs, Sgn
<1>2. CASE s = -1
  <2>1. s * m = -m
    BY <1>2
  <2>2. -m \in Int /\ Abs(-m) = m /\ (m # 0 => Sgn(-m) = -1)
    BY DEF Abs, Sgn
  <2>3. QED BY <1>2, <2>1, <2>2
<1>3. QED BY <1>1, <1>2

\* v is the exact result num / den, rounded as IEEE 754 demands, or Raised in
\* the strip where it is not.
Ieee(v, num, den) ==
  IF Strip(Abs(num), den) THEN v = Raised
  ELSE /\ v.kind = "double" /\ v.f.mag = Round(Abs(num), den)
       /\ Round(Abs(num), den) # 0 => v.f.sgn = Sgn(num)

LEMMA SumIeee ==
  ASSUME NEW n \in Int
  PROVE  Ieee(DblOfNumeric(Sgn(n), Abs(n), 1), n, 1)
<1>1. Sgn(n) \in {1, -1} /\ Abs(n) \in Nat /\ 1 \in Nat /\ 1 > 0
  BY Signs
<1>2. QED BY <1>1, DblOfNumericIs DEF Ieee

LEMMA QuotientIeee ==
  ASSUME NEW s \in {1, -1}, NEW m \in Nat, NEW d \in Nat, d > 0
  PROVE  Ieee(DblOfNumeric(s, m, d), s * m, d)
<1>1. Abs(s * m) = m /\ (m # 0 => Sgn(s * m) = s)
  BY SignedNumber
<1>2. Round(m, d) # 0 => m # 0
  BY RoundLow
<1>3. QED BY <1>1, <1>2, DblOfNumericIs DEF Ieee

LEMMA DoubleOperands ==
  ASSUME Called, op \in Arithmetic, x.kind = "double"
  PROVE  IsDouble(x) /\ IsDouble(y)
<1>1. op \notin Relations \cup Roundings \cup Extremes \cup Shifts \cup BitOps
                   \cup {"%", "neg", "int", "uint", "double", "abs", "sign", "not"}
  BY DEF Arithmetic, Relations, Extremes, Roundings, Shifts, BitOps
<1>2. Calls(op) = (Ints \X Ints) \cup (Uints \X Uints) \cup (Doubles \X Doubles)
  BY <1>1 DEF Calls
<1>3. x \notin Ints /\ x \notin Uints
  BY DEF Ints, IntVal, Uints, UintVal
<1>4. x \in Doubles /\ y \in Doubles
  BY <1>2, <1>3 DEF Called
<1>5. \A v \in Doubles : v.kind = "double"
  BY DEF Doubles, DoubleVal
<1>6. \A v : IsInt(v) \/ IsUint(v) => v.kind # "double"
  BY DEF IsInt, IsUint
<1>7. QED BY <1>4, <1>5, <1>6, OperandKinds DEF Operands

\* Double arithmetic rounds the exact result once, as IEEE 754 demands, and
\* reaches infinity where it does, at any precision and range; only a result
\* that would round to zero and is above the underflow literal raises an
\* exception (cel._f_dbl_bin, cel._dbl_of_numeric).
THEOREM RoundedHolds == Spec => []RoundedLikeIeee
<1>1. ASSUME CallInv PROVE RoundedLikeIeee
  <2>1. SUFFICES ASSUME Done, op \in Arithmetic, x.kind = "double", Finite(x.f), Finite(y.f),
                        op = "/" => y.f.mag # 0
                 PROVE  Ieee(result, Exact(op, x.f, y.f)[1], Exact(op, x.f, y.f)[2])
    BY DEF RoundedLikeIeee, Ieee, Strip
  <2>2. Called /\ Answers(result)
    BY <1>1, <2>1 DEF CallInv, Done
  <2>3. result = DblBin(op, x.f, y.f)
    BY <2>1, <2>2 DEF Answers, Arithmetic, Relations, Roundings, Extremes, BitOps
  <2>4. IsDouble(x) /\ IsDouble(y)
    BY <2>1, <2>2, DoubleOperands
  <2>5. x.f # NaN /\ y.f # NaN
    BY <2>1 DEF Finite, NaN, Float
  <2>6. /\ x.f.sgn \in {1, -1} /\ x.f.mag \in Nat
        /\ y.f.sgn \in {1, -1} /\ y.f.mag \in Nat
        /\ Signed(x.f) \in Int /\ Signed(y.f) \in Int
    BY <2>4, <2>5, DoubleParts
  <2> DEFINE s == x.f.sgn
             m == x.f.mag
             t == y.f.sgn
             n == y.f.mag
             u == Pow2[F]
  <2>7. s \in {1, -1} /\ m \in Nat /\ t \in {1, -1} /\ n \in Nat /\ u \in Nat /\ u >= 1
    BY <2>6, Ranges, TwoAt
  <2>8. Signed(x.f) = s * m /\ Signed(y.f) = t * n
    BY DEF Signed
  <2>9. CASE op = "+" \/ op = "-"
    <3> DEFINE z == Ring(op, Signed(x.f), Signed(y.f))
    <3>1. z \in Int
      BY <2>6, <2>9 DEF Ring
    <3>2. result = DblOfNumeric(Sgn(z), Abs(z), 1)
      BY <2>1, <2>3, <2>9 DEF DblBin
    <3>3. Exact(op, x.f, y.f) = <<z, 1>>
      BY <2>9 DEF Exact
    <3> HIDE DEF z
    <3>4. QED BY <3>1, <3>2, <3>3, SumIeee
  <2>10. CASE op = "*"
    <3>1. result = DblOfNumeric(s * t, m * n, u)
      BY <2>1, <2>3, <2>10 DEF DblBin
    <3>2. Exact(op, x.f, y.f) = <<Signed(x.f) * Signed(y.f), u>>
      BY <2>10 DEF Exact
    <3> HIDE DEF s, m, t, n, u
    <3>3. (s * m) * (t * n) = (s * t) * (m * n) /\ s * t \in {1, -1} /\ m * n \in Nat
      BY <2>7, ProductSigned
    <3>4. Ieee(DblOfNumeric(s * t, m * n, u), (s * t) * (m * n), u)
      <4> DEFINE p == s * t
                 k == m * n
      <4>1. p \in {1, -1} /\ k \in Nat /\ u \in Nat /\ u > 0
        BY <2>7, <3>3
      <4> HIDE DEF p, k
      <4>2. Ieee(DblOfNumeric(p, k, u), p * k, u)
        BY <4>1, QuotientIeee
      <4>3. QED BY <4>2 DEF p, k
    <3>5. QED BY <2>8, <3>1, <3>2, <3>3, <3>4
  <2>11. CASE op = "/"
    <3>1. n > 0
      BY <2>1, <2>7, <2>11
    <3>2. result = DivideFinite(x.f, y.f)
      BY <2>1, <2>3, <2>11 DEF DblBin
    <3>3. Exact(op, x.f, y.f) = <<Signed(x.f) * t * u, n>>
      BY <2>11 DEF Exact
    <3>4. result = IF m = 0 THEN DoubleVal(Float(s * t, 0)) ELSE DblOfNumeric(s * t, m * u, n)
      BY <3>1, <3>2 DEF DivideFinite
    <3> HIDE DEF s, m, t, n, u
    <3>5. (s * m) * (t * u) = (s * t) * (m * u) /\ s * t \in {1, -1} /\ m * u \in Nat
      BY <2>7, ProductSigned
    <3>6. Signed(x.f) * t * u = (s * t) * (m * u)
      <4>1. s * m \in Int /\ t \in Int
        BY <2>7
      <4>2. (s * m) * t * u = (s * m) * (t * u)
        BY <2>7, <4>1
      <4>3. QED BY <2>8, <3>5, <4>2
    <3> DEFINE p == s * t
               k == m * u
    <3>7. p \in {1, -1} /\ k \in Nat /\ Signed(x.f) * t * u = p * k
      BY <3>5, <3>6
    <3>8. CASE m = 0
      <4>1. k = 0
        BY <2>7, <3>8
      <4>2. result.kind = "double" /\ result.f.mag = 0
        BY <3>4, <3>8 DEF DoubleVal, Float
      <4> HIDE DEF p, k
      <4>3. Abs(p * k) = 0 /\ Round(0, n) = 0 /\ ~ Strip(0, n)
        <5>1. Abs(p * k) = k
          BY <3>7, SignedNumber
        <5>2. 0 \in Nat /\ 2 * 0 <= n
          BY <2>7, <3>1
        <5>3. QED BY <2>7, <3>1, <4>1, <5>1, <5>2, RoundLow, StripAt
      <4>4. Ieee(result, p * k, n)
        BY <4>2, <4>3 DEF Ieee
      <4>5. QED BY <3>3, <3>7, <4>4
    <3>9. CASE m # 0
      <4>1. result = DblOfNumeric(p, k, n)
        BY <3>4, <3>9
      <4> HIDE DEF p, k
      <4>2. Ieee(DblOfNumeric(p, k, n), p * k, n)
        BY <2>7, <3>1, <3>7, QuotientIeee
      <4>3. QED BY <3>3, <3>7, <4>1, <4>2
    <3>10. QED BY <3>8, <3>9
  <2>12. QED BY <2>1, <2>9, <2>10, <2>11 DEF Arithmetic
<1>2. QED BY <1>1, AlwaysCall, PTL

-----------------------------------------------------------------------------
(***************************************************************************)
(* Conversions.                                                            *)
(***************************************************************************)
LEMMA WidthFacts == W \in Nat /\ W - 1 \in Nat /\ P + 1 <= W - 1 /\ F + 1 <= E
  BY WidthAssumption, ScaleAssumption

\* A number with at most P significant bits is a double as it is.
LEMMA RoundExact ==
  ASSUME NEW c \in Nat, c < Pow2[P], NEW j \in 0..E
  PROVE  c * Pow2[j] \in Nat /\ c * Pow2[j] <= MaxMag /\ Round(c * Pow2[j], 1) = c * Pow2[j]
<1> DEFINE u == Pow2[P]
           t == Pow2[j]
           v == c * t
           k == Scale(v, 1)
           w == Pow2[k]
<1>1. P \in Nat /\ j \in Nat /\ E \in Nat /\ j <= E
  BY Ranges
<1>2. u \in Nat /\ t \in Nat /\ t >= 1 /\ Pow2[E] \in Nat /\ t <= Pow2[E]
  BY <1>1, TwoAt, TwoOrdered
<1>3. v \in Nat
  BY <1>2
<1>4. v <= MaxMag
  <2>1. c <= u - 1 /\ u - 1 \in Nat
    BY <1>2
  <2>2. v <= (u - 1) * t
    <3> HIDE DEF u, t
    <3>1. QED BY <1>2, <2>1
  <2>3. (u - 1) * t <= (u - 1) * Pow2[E]
    <3> HIDE DEF u, t
    <3>1. QED BY <1>2, <2>1
  <2>4. (u - 1) * t \in Nat /\ (u - 1) * Pow2[E] \in Nat
    BY <1>2, <2>1
  <2>5. MaxMag = (u - 1) * Pow2[E]
    BY DEF MaxMag
  <2> HIDE DEF u, t, v
  <2>6. QED BY <1>3, <2>2, <2>3, <2>4, <2>5
<1>5. 1 \in Nat /\ 1 > 0
  OBVIOUS
<1>6. k \in 0..E /\ (k = 0 \/ v >= 1 * Pow2[P + k - 1])
  <2> HIDE DEF v
  <2>1. QED BY <1>3, <1>5, ScaleAt
<1>7. k \in Nat /\ w \in Nat /\ w >= 1
  BY <1>6, TwoAt
<1>8. v < Pow2[P + j]
  <2>1. Pow2[P + j] = u * t
    BY <1>1, TwoSum
  <2>2. c * t < u * t
    <3> HIDE DEF u, t
    <3>1. c + 1 <= u
      BY <1>2 DEF u
    <3>2. (c + 1) * t <= u * t /\ (c + 1) * t = c * t + t
      BY <1>2, <3>1
    <3>3. c * t \in Nat /\ u * t \in Nat
      BY <1>2
    <3>4. QED BY <1>2, <3>2, <3>3
  <2>3. QED BY <2>1, <2>2
<1>9. k <= j
  <2>1. SUFFICES ASSUME j + 1 <= k PROVE FALSE
    BY <1>1, <1>7
  <2> HIDE DEF k, v
  <2>2. k # 0 /\ P + j <= P + k - 1 /\ P + j \in Nat /\ P + k - 1 \in Nat
    BY <1>1, <1>7, <2>1
  <2>3. Pow2[P + j] <= Pow2[P + k - 1] /\ Pow2[P + j] \in Nat /\ Pow2[P + k - 1] \in Nat
    BY <2>2, TwoOrdered, TwoAt
  <2>4. QED BY <1>3, <1>6, <1>8, <2>2, <2>3
<1> DEFINE z == Pow2[j - k]
           q == c * z
<1>10. t = w * z /\ z \in Nat
  <2> HIDE DEF k
  <2>1. j - k \in Nat /\ k + (j - k) = j
    BY <1>1, <1>7, <1>9
  <2>2. Pow2[k + (j - k)] = Pow2[k] * Pow2[j - k]
    BY <1>7, <2>1, TwoSum
  <2>3. QED BY <2>1, <2>2, TwoAt
<1>11. Nearest(v, 1 * w) * w = v
  <2> HIDE DEF t, w, z
  <2>1. v = w * q + 0 /\ v \in Int /\ q \in Int /\ 0 \in 0..(w - 1) /\ 1 * w = w
    BY <1>7, <1>10
  <2> HIDE DEF v, q
  <2>2. v \div w = q /\ (v % w) = 0
    BY <1>7, <2>1, EuclidUnique
  <2>3. Nearest(v, w) = v \div w
    BY <1>3, <1>7, <2>2, NearestAt
  <2>4. q * w = v
    BY <1>7, <2>1
  <2>5. QED BY <2>1, <2>2, <2>3, <2>4
<1>12. Round(v, 1) = Clamp(v)
  BY <1>11, RoundParts
<1>13. Clamp(v) = v
  <2> HIDE DEF v
  <2>1. QED BY <1>3, <1>4, RangeEnds DEF Clamp
<1>14. QED BY <1>3, <1>4, <1>12, <1>13

LEMMA MagParts ==
  ASSUME NEW m \in Mags
  PROVE  m \in Nat /\ m <= MaxMag /\ \E k \in 0..E : \E c \in Nat : c < Pow2[P] /\ m = c * Pow2[k]
<1>1. m \in Nat /\ m <= MaxMag
  BY RangeEnds DEF Mags
<1>2. PICK k \in 0..E : (m % Pow2[k]) = 0 /\ m \div Pow2[k] < Pow2[P]
  BY DEF Mags
<1>3. Pow2[k] \in Nat /\ Pow2[k] > 0
  <2>1. k \in Nat
    BY <1>2, Ranges
  <2>2. QED BY <2>1, TwoAt
<1> DEFINE c == m \div Pow2[k]
           r == m % Pow2[k]
<1>4. c \in Nat /\ m = Pow2[k] * c + r
  BY <1>1, <1>3, Euclid
<1>5. r = 0 /\ c < Pow2[P]
  BY <1>2
<1> HIDE DEF c, r
<1>6. m = c * Pow2[k]
  BY <1>3, <1>4, <1>5
<1>7. QED BY <1>1, <1>4, <1>5, <1>6

\* What rounding returns is a float8.
LEMMA RoundInMags ==
  ASSUME NEW a \in Nat, NEW d \in Nat, d > 0
  PROVE  Round(a, d) \in Mags \cup {Beyond}
<1> DEFINE k == Scale(a, d)
           n == Nearest(a, d * Pow2[k])
           v == n * Pow2[k]
<1>1. /\ k \in 0..E /\ n \in Nat
      /\ k # E => n <= Pow2[P] /\ v <= Pow2[P + k]
  BY NearestInBinade
<1>2. Round(a, d) = Clamp(v)
  BY RoundParts
<1> HIDE DEF k, n
<1>3. P \in Nat /\ P - 1 \in Nat /\ (P - 1) + 1 = P /\ k \in Nat /\ E \in Nat
  BY <1>1, Ranges
<1>4. Pow2[k] \in Nat /\ Pow2[k] >= 1 /\ Pow2[P] \in Nat /\ Pow2[P - 1] \in Nat /\ Pow2[P - 1] >= 1
  BY <1>3, TwoAt
<1>5. v \in Nat
  BY <1>1, <1>4
<1>6. ASSUME NEW j \in 0..E, NEW c \in Nat, c < Pow2[P], v = c * Pow2[j], v <= MaxMag
      PROVE  v \in Mags
  <2>1. Pow2[j] \in Nat /\ Pow2[j] > 0
    <3>1. j \in Nat
      BY Ranges
    <3>2. QED BY <3>1, TwoAt
  <2>2. v = Pow2[j] * c + 0 /\ 0 \in 0..(Pow2[j] - 1) /\ c \in Int /\ v \in Int
    BY <1>5, <1>6, <2>1
  <2> HIDE DEF v
  <2>3. v \div Pow2[j] = c /\ (v % Pow2[j]) = 0
    BY <2>1, <2>2, EuclidUnique
  <2>4. QED BY <1>5, <1>6, <2>3 DEF Mags
<1>7. CASE v > MaxMag
  BY <1>2, <1>7 DEF Clamp
<1>8. CASE v <= MaxMag
  <2>1. Round(a, d) = v
    BY <1>2, <1>5, <1>8, RangeEnds DEF Clamp
  <2>2. CASE n < Pow2[P]
    BY <1>1, <1>6, <1>8, <2>1, <2>2
  <2>3. CASE n = Pow2[P] /\ k # E
    <3>1. k + 1 \in 0..E
      BY <1>1, <1>3, <2>3
    <3>2. Pow2[P] = 2 * Pow2[P - 1] /\ Pow2[k + 1] = 2 * Pow2[k]
      BY <1>3, TwoStep
    <3>3. Pow2[P - 1] < Pow2[P] /\ v = Pow2[P - 1] * Pow2[k + 1]
      BY <1>4, <2>3, <3>2
    <3>4. QED BY <1>4, <1>6, <1>8, <2>1, <3>1, <3>3
  <2>4. CASE ~ (n < Pow2[P]) /\ k = E
    <3>1. n * Pow2[E] >= Pow2[P] * Pow2[E]
      BY <1>1, <1>4, <2>4
    <3>2. FALSE
      <4>1. v >= Beyond
        BY <2>4, <3>1 DEF Beyond
      <4>2. QED BY <1>5, <1>8, <4>1, RangeEnds
    <3>3. QED BY <3>2
  <2>5. QED BY <1>1, <1>4, <2>2, <2>3, <2>4
<1>9. QED BY <1>5, <1>7, <1>8, RangeEnds

\* The whole part of a double is a double, so nothing is lost when it comes
\* back as one.
LEMMA WholeExact ==
  ASSUME NEW m \in Mags, NEW t, t = m \div Pow2[F]
  PROVE  /\ t \in Nat /\ t * Pow2[F] \in Nat /\ (m % Pow2[F]) \in 0..(Pow2[F] - 1)
         /\ m = t * Pow2[F] + (m % Pow2[F])
         /\ Round(t * Pow2[F], 1) = t * Pow2[F]
<1> DEFINE u == Pow2[F]
           r == m % u
<1>1. F \in Nat /\ u \in Nat /\ u >= 1 /\ m \in Nat
  BY Ranges, TwoAt, MagParts
<1>2. t \in Nat /\ r \in 0..(u - 1) /\ m = u * t + r
  BY <1>1, Euclid
<1>3. PICK k \in 0..E : \E c \in Nat : c < Pow2[P] /\ m = c * Pow2[k]
  BY MagParts
<1>4. PICK c \in Nat : c < Pow2[P] /\ m = c * Pow2[k]
  BY <1>3
<1>5. k \in Nat /\ P \in Nat /\ Pow2[k] \in Nat /\ Pow2[k] >= 1 /\ Pow2[P] \in Nat
  <2>1. k \in Nat /\ P \in Nat
    BY Ranges
  <2>2. QED BY <2>1, TwoAt
<1>6. t * u \in Nat /\ t * u = u * t
  BY <1>1, <1>2
<1>7. CASE F <= k
  <2> DEFINE z == Pow2[k - F]
  <2>1. k - F \in Nat /\ F + (k - F) = k
    BY <1>1, <1>5, <1>7
  <2>2. Pow2[F + (k - F)] = Pow2[F] * Pow2[k - F] /\ z \in Nat
    BY <1>1, <2>1, TwoSum, TwoAt
  <2>3. Pow2[k] = u * z
    BY <2>1, <2>2
  <2> HIDE DEF u, z
  <2>4. m = u * (c * z) + 0 /\ c * z \in Int /\ m \in Int /\ 0 \in 0..(u - 1)
    BY <1>1, <1>4, <2>2, <2>3
  <2>5. m \div u = c * z
    BY <1>1, <2>4, EuclidUnique
  <2>6. t * u = m
    BY <1>1, <1>6, <2>4, <2>5 DEF u
  <2>7. Round(m, 1) = m
    BY <1>4, RoundExact
  <2>8. Round(t * u, 1) = t * u
    BY <2>6, <2>7
  <2>9. QED BY <1>2, <1>6, <2>8 DEF u
<1>8. CASE k < F
  <2> DEFINE z == Pow2[F - k]
             y0 == Pow2[k]
             p == t * z
  <2>1. F - k \in Nat /\ k + (F - k) = F
    BY <1>1, <1>5, <1>8
  <2>2. Pow2[k + (F - k)] = Pow2[k] * Pow2[F - k] /\ z \in Nat
    BY <1>5, <2>1, TwoSum, TwoAt
  <2>3. u = y0 * z
    BY <2>1, <2>2
  <2> HIDE DEF u, z, y0
  <2>4. t * u = p * y0 /\ p \in Nat /\ y0 \in Nat /\ y0 >= 1
    BY <1>2, <1>5, <2>2, <2>3 DEF y0
  <2>5. p * y0 <= c * y0
    BY <1>1, <1>2, <1>4, <1>6, <2>4 DEF y0
  <2> HIDE DEF p
  <2>6. p <= c
    <3>1. SUFFICES ASSUME c + 1 <= p PROVE FALSE
      BY <2>4
    <3>2. (c + 1) * y0 <= p * y0 /\ (c + 1) * y0 = c * y0 + y0
      BY <2>4, <3>1
    <3>3. c * y0 \in Nat /\ p * y0 \in Nat
      BY <2>4
    <3>4. QED BY <2>4, <2>5, <3>2, <3>3
  <2>7. p < Pow2[P]
    BY <1>4, <1>5, <2>4, <2>6
  <2>8. Round(p * y0, 1) = p * y0
    BY <2>4, <2>7, RoundExact DEF y0
  <2>9. Round(t * u, 1) = t * u
    BY <2>4, <2>8
  <2>10. QED BY <1>2, <1>6, <2>9 DEF u
<1>9. QED BY <1>1, <1>5, <1>7, <1>8

LEMMA WidenWhole ==
  ASSUME NEW s \in {1, -1}, NEW m \in Mags, NEW t, t = m \div Pow2[F]
  PROVE  s * t \in Int /\ Widen(s * t) = s * (t * Pow2[F])
<1>1. t \in Nat /\ t * Pow2[F] \in Nat /\ Round(t * Pow2[F], 1) = t * Pow2[F]
  BY WholeExact
<1>2. s * t \in Int /\ Abs(s * t) = t /\ (t # 0 => Sgn(s * t) = s)
  BY <1>1, SignedNumber
<1>3. Widen(s * t) = Sgn(s * t) * (t * Pow2[F])
  BY <1>1, <1>2 DEF Widen
<1>4. CASE t # 0
  BY <1>2, <1>3, <1>4
<1>5. CASE t = 0
  <2>1. t * Pow2[F] = 0
    BY <1>5, Ranges, TwoAt
  <2>2. Sgn(s * t) \in {1, -1}
    BY DEF Sgn
  <2>3. QED BY <1>2, <1>3, <2>1, <2>2
<1>6. QED BY <1>4, <1>5

\* Numbers of at most P bits are doubles.
LEMMA ShortExact ==
  ASSUME NEW n \in Int, Abs(n) < Pow2[P]
  PROVE  Round(Abs(n) * Pow2[F], 1) = Abs(n) * Pow2[F] /\ Abs(n) * Pow2[F] <= MaxMag
<1>1. F \in 0..E /\ Abs(n) \in Nat
  BY WidthFacts, Ranges, Signs
<1>2. QED BY <1>1, RoundExact

\* They lie within the bounds of both kinds, rounded as those may be.
LEMMA BoundsFar ==
  ASSUME NEW n \in Nat, n < Pow2[P]
  PROVE  /\ n * Pow2[F] < Widen(MaxInt) /\ n * Pow2[F] < Widen(MaxUint)
         /\ Widen(MinInt) < -(n * Pow2[F])
<1> DEFINE u == Pow2[P]
           v == Pow2[P - 1]
           t == Pow2[F]
<1>1. /\ P \in Nat /\ P - 1 \in Nat /\ (P - 1) + 1 = P /\ F \in Nat /\ F + 1 \in 0..E
      /\ W \in Nat /\ W - 1 \in Nat /\ P + 1 \in Nat /\ P + 1 <= W - 1 /\ P + 1 <= W
  BY WidthFacts, Ranges
<1>2. /\ u \in Nat /\ v \in Nat /\ t \in Nat /\ u >= 1 /\ v >= 1 /\ t >= 1
      /\ Pow2[W - 1] \in Nat /\ Pow2[W] \in Nat /\ Pow2[P + 1] \in Nat
  BY <1>1, TwoAt
<1>3. u = 2 * v /\ Pow2[P + 1] = 2 * u /\ Pow2[F + 1] = 2 * t
  BY <1>1, TwoStep
<1>4. 2 * u <= Pow2[W - 1] /\ 2 * u <= Pow2[W]
  <2>1. Pow2[P + 1] <= Pow2[W - 1] /\ Pow2[P + 1] <= Pow2[W]
    BY <1>1, TwoOrdered
  <2>2. QED BY <1>3, <2>1
<1>5. u <= MaxInt /\ u <= MaxUint /\ MinInt <= -u
  <2> HIDE DEF u
  <2>1. QED BY <1>2, <1>4 DEF MaxInt, MaxUint, MinInt
<1>6. Round(u * t, 1) = u * t
  <2>1. v < Pow2[P]
    BY <1>2, <1>3
  <2>2. Round(v * Pow2[F + 1], 1) = v * Pow2[F + 1]
    BY <1>1, <1>2, <2>1, RoundExact
  <2>3. v * Pow2[F + 1] = u * t
    <3> HIDE DEF u, v, t
    <3>1. QED BY <1>2, <1>3
  <2>4. QED BY <2>2, <2>3
<1>7. Widen(u) = u * t /\ Widen(-u) = -(u * t)
  <2>1. Abs(u) = u /\ Sgn(u) = 1 /\ Abs(-u) = u /\ Sgn(-u) = -1
    <3> HIDE DEF u
    <3>1. QED BY <1>2 DEF Abs, Sgn
  <2>2. Widen(u) = 1 * Round(u * t, 1) /\ Widen(-u) = (-1) * Round(u * t, 1)
    <3> HIDE DEF u
    <3>1. Widen(u) = Sgn(u) * Round(Abs(u) * t, 1) /\ Widen(-u) = Sgn(-u) * Round(Abs(-u) * t, 1)
      BY DEF Widen
    <3>2. QED BY <2>1, <3>1
  <2> HIDE DEF u, t
  <2>3. u * t \in Nat
    BY <1>2
  <2>4. QED BY <1>6, <2>2, <2>3
<1>8. Widen(u) <= Widen(MaxInt) /\ Widen(u) <= Widen(MaxUint) /\ Widen(MinInt) <= Widen(-u)
  <2>1. u \in Int /\ -u \in Int /\ MaxInt \in Int /\ MaxUint \in Int /\ MinInt \in Int
    BY <1>2, Widths
  <2> HIDE DEF u
  <2>2. QED BY <1>5, <2>1, WidenMonotone
<1>9. Widen(MaxInt) \in Int /\ Widen(MaxUint) \in Int /\ Widen(MinInt) \in Int
  <2>1. MaxInt \in Int /\ MaxUint \in Int /\ MinInt \in Int
    BY Widths
  <2>2. QED BY <2>1, WidenAt
<1>10. n * t < u * t /\ n * t \in Nat /\ u * t \in Nat
  <2>1. n + 1 <= u
    BY <1>2
  <2> HIDE DEF u, t
  <2>2. (n + 1) * t <= u * t /\ (n + 1) * t = n * t + t
    BY <1>2, <2>1
  <2>3. n * t \in Nat /\ u * t \in Nat
    BY <1>2
  <2>4. QED BY <1>2, <2>2, <2>3
<1> HIDE DEF u
<1>11. n * t < Widen(MaxInt) /\ n * t < Widen(MaxUint) /\ Widen(MinInt) < -(n * t)
  <2> HIDE DEF t
  <2>1. QED BY <1>7, <1>8, <1>9, <1>10
<1>12. QED BY <1>11

\* A number against what it was truncated from.
LEMMA Truncation ==
  ASSUME NEW s \in {1, -1}, NEW m \in Mags, NEW t, t = m \div Pow2[F], NEW r, r = m % Pow2[F]
  PROVE  /\ Sign(Widen(s * t) - s * m) = IF r = 0 THEN 0 ELSE -s
         /\ s = 1 => Widen(s * t) <= s * m
         /\ s = -1 => Widen(s * t) >= s * m
<1> DEFINE u == t * Pow2[F]
<1>1. u \in Nat /\ r \in Nat /\ m = u + r
  BY WholeExact, Ranges, TwoAt
<1>2. Widen(s * t) = s * u
  BY WidenWhole
<1> HIDE DEF u
<1>3. s = 1 => s * u = u /\ s * m = u + r
  BY <1>1
<1>4. s = -1 => s * u = -u /\ s * m = -(u + r)
  BY <1>1
<1>5. CASE s = 1
  <2>1. Widen(s * t) = u /\ s * m = u + r /\ -s = -1
    BY <1>2, <1>3, <1>5
  <2>2. Sign(u - (u + r)) = IF r = 0 THEN 0 ELSE -1
    BY <1>1 DEF Sign
  <2>3. QED BY <1>1, <1>5, <2>1, <2>2
<1>6. CASE s = -1
  <2>1. Widen(s * t) = -u /\ s * m = -(u + r) /\ -s = 1
    <3>1. s + 1 = 0 /\ s \in Int
      BY <1>6
    <3>2. -s = 1
      BY <3>1
    <3>3. QED BY <1>2, <1>4, <1>6, <3>2
  <2>2. Sign(-u - (-(u + r))) = IF r = 0 THEN 0 ELSE 1
    BY <1>1 DEF Sign
  <2>3. QED BY <1>1, <1>6, <2>1, <2>2
<1>7. QED BY <1>5, <1>6

\* A finite double as a sign and a magnitude.
LEMMA FiniteParts ==
  ASSUME NEW v, IsDouble(v), Finite(v.f)
  PROVE  /\ v.f # NaN /\ v.f.sgn \in {1, -1} /\ v.f.mag \in Mags
         /\ Signed(v.f) = v.f.sgn * v.f.mag /\ (v.f.mag = 0 => v.f.sgn = 1)
<1>1. v.f # NaN
  BY DEF Finite, NaN, Float
<1>2. v.f.mag # Beyond
  BY RangeEnds DEF Finite
<1>3. QED BY <1>1, <1>2 DEF IsDouble, Signed

\* A double that converts to int: the truncated number fits, and the two
\* compare as the part cut off says.
LEMMA DoubleToIntIs ==
  ASSUME NEW v \in Operands, IsDouble(v), NEW w, w = DoubleToInt(v.f), w.kind = "int"
  PROVE  /\ w \in Operands /\ Finite(v.f)
         /\ Compare(w, v) = IntVal(IF (v.f.mag % Pow2[F]) = 0 THEN 0 ELSE -v.f.sgn)
<1> DEFINE s == v.f.sgn
           m == v.f.mag
           t == m \div Pow2[F]
           r == m % Pow2[F]
<1>1. /\ Finite(v.f) /\ ~ (Signed(v.f) <= Widen(MinInt)) /\ ~ (Signed(v.f) >= Widen(MaxInt))
      /\ w = IntVal(s * t)
  BY DEF DoubleToInt, Err
<1>2. v.f # NaN /\ s \in {1, -1} /\ m \in Mags /\ Signed(v.f) = s * m
  BY <1>1, FiniteParts
<1>3. /\ Sign(Widen(s * t) - s * m) = IF r = 0 THEN 0 ELSE -s
      /\ s = 1 => Widen(s * t) <= s * m
      /\ s = -1 => Widen(s * t) >= s * m
  BY <1>2, Truncation
<1>4. s * t \in Int /\ t \in Nat /\ m \in Nat
  BY <1>2, WidenWhole, WholeExact, MagParts
<1> HIDE DEF s, m, t, r
<1>5. Widen(s * t) \in Int /\ Widen(MinInt) \in Int /\ Widen(MaxInt) \in Int /\ s * m \in Int
  <2>1. MinInt \in Int /\ MaxInt \in Int
    BY Widths
  <2>2. QED BY <1>2, <1>4, <2>1, WidenAt
<1>6. s * t <= MaxInt
  <2>1. CASE s = 1
    <3>1. SUFFICES ASSUME MaxInt <= s * t PROVE FALSE
      BY <1>4, Widths
    <3>2. Widen(MaxInt) <= Widen(s * t)
      BY <1>4, <3>1, Widths, WidenMonotone
    <3>3. QED BY <1>1, <1>2, <1>3, <1>5, <2>1, <3>2
  <2>2. CASE s = -1
    BY <1>4, <2>2, Widths
  <2>3. QED BY <1>2, <2>1, <2>2
<1>7. s * t >= MinInt
  <2>1. CASE s = -1
    <3>1. SUFFICES ASSUME s * t <= MinInt PROVE FALSE
      BY <1>4, Widths
    <3>2. Widen(s * t) <= Widen(MinInt)
      BY <1>4, <3>1, Widths, WidenMonotone
    <3>3. QED BY <1>1, <1>2, <1>3, <1>5, <2>1, <3>2
  <2>2. CASE s = 1
    BY <1>4, <2>2, Widths
  <2>3. QED BY <1>2, <2>1, <2>2
<1>8. w \in Ints
  BY <1>1, <1>4, <1>6, <1>7, Widths DEF Ints
<1>9. w \in Operands
  BY <1>8 DEF Operands
<1>10. w.kind # "double" /\ w.n = s * t /\ v.kind = "double"
  BY <1>1 DEF IntVal, IsDouble
<1>11. ~ HasNaN(w, v)
  BY <1>2, <1>10 DEF HasNaN
<1>12. OnScale(w, v) = Widen(s * t) /\ OnScale(v, w) = s * m
  BY <1>2, <1>10 DEF OnScale
<1>13. Compare(w, v) = IntVal(Sign(Widen(s * t) - s * m))
  BY <1>9, <1>11, <1>12, CompareIs
<1>14. QED BY <1>1, <1>3, <1>9, <1>13 DEF s, m, r

LEMMA DoubleToUintIs ==
  ASSUME NEW v \in Operands, IsDouble(v), NEW w, w = DoubleToUint(v.f), w.kind = "uint"
  PROVE  /\ w \in Operands /\ Finite(v.f)
         /\ Compare(w, v) = IntVal(IF (v.f.mag % Pow2[F]) = 0 THEN 0 ELSE -v.f.sgn)
<1> DEFINE s == v.f.sgn
           m == v.f.mag
           t == m \div Pow2[F]
           r == m % Pow2[F]
<1>1. /\ Finite(v.f) /\ ~ (Signed(v.f) < 0) /\ ~ (Signed(v.f) >= Widen(MaxUint))
      /\ w = UintVal(t)
  BY DEF DoubleToUint, Err
<1>2. v.f # NaN /\ s \in {1, -1} /\ m \in Mags /\ Signed(v.f) = s * m /\ (m = 0 => s = 1)
  BY <1>1, FiniteParts
<1>3. /\ Sign(Widen(s * t) - s * m) = IF r = 0 THEN 0 ELSE -s
      /\ s = 1 => Widen(s * t) <= s * m
  BY <1>2, Truncation
<1>4. t \in Nat /\ m \in Nat
  BY <1>2, WholeExact, MagParts
<1> HIDE DEF s, m, t, r
<1>5. s = 1 /\ s * t = t
  <2>1. s = -1 => s * m = -m
    BY <1>4
  <2>2. s = 1
    BY <1>1, <1>2, <1>4, <2>1
  <2>3. QED BY <1>4, <2>2
<1>6. Widen(t) \in Int /\ Widen(MaxUint) \in Int /\ s * m \in Int
  <2>1. MaxUint \in Int /\ t \in Int
    BY <1>4, Widths
  <2>2. QED BY <1>2, <1>4, <2>1, WidenAt
<1>7. t <= MaxUint
  <2>1. SUFFICES ASSUME MaxUint <= t PROVE FALSE
    BY <1>4, Widths
  <2>2. Widen(MaxUint) <= Widen(t)
    BY <1>4, <2>1, Widths, WidenMonotone
  <2>3. QED BY <1>1, <1>2, <1>3, <1>5, <1>6, <2>2
<1>8. w \in Uints
  BY <1>1, <1>4, <1>7, Widths DEF Uints
<1>9. w \in Operands
  BY <1>8 DEF Operands
<1>10. w.kind # "double" /\ w.n = t /\ v.kind = "double"
  BY <1>1 DEF UintVal, IsDouble
<1>11. ~ HasNaN(w, v)
  BY <1>2, <1>10 DEF HasNaN
<1>12. OnScale(w, v) = Widen(s * t) /\ OnScale(v, w) = s * m
  BY <1>2, <1>5, <1>10 DEF OnScale
<1>13. Compare(w, v) = IntVal(Sign(Widen(s * t) - s * m))
  BY <1>9, <1>11, <1>12, CompareIs
<1>14. QED BY <1>1, <1>3, <1>9, <1>13 DEF s, m, r

\* An int or uint that converts to double is the double it is widened to in
\* comparisons.
LEMMA ToDoubleIs ==
  ASSUME NEW n \in Int, NEW w, w = Cast(Sgn(n), Abs(n) * Pow2[F], 1), w.kind = "double"
  PROVE  /\ w \in Operands /\ IsDouble(w) /\ Finite(w.f) /\ Signed(w.f) = Widen(n)
         /\ w.f.mag = Round(Abs(n) * Pow2[F], 1) /\ (n # 0 => w.f.sgn = Sgn(n))
<1> DEFINE u == Pow2[F]
           a == Abs(n) * u
           g == Round(a, 1)
           s == Sgn(n)
<1>1. u \in Nat /\ u >= 1 /\ Abs(n) \in Nat /\ s \in {1, -1} /\ (n # 0 => Abs(n) > 0)
  BY Ranges, TwoAt, Signs
<1>2. a \in Nat /\ (n # 0 => a > 0) /\ (n = 0 => a = 0)
  <2> HIDE DEF u, s
  <2>1. n = 0 => Abs(n) = 0
    BY DEF Abs
  <2>2. QED BY <1>1, <2>1
<1>3. 1 \in Nat /\ 1 > 0
  OBVIOUS
<1> HIDE DEF a
<1>4. /\ g \in Mags \cup {Beyond} /\ g \in Nat /\ (g # Beyond => g <= MaxMag)
      /\ g = 0 <=> 2 * a <= 1
  BY <1>2, <1>3, RoundInMags, RoundTop, RoundLow
<1>5. Widen(n) = s * g
  BY DEF Widen, a
<1>6. w = IF a = 0 THEN DoubleVal(Float(1, 0))
          ELSE IF g \in {0, Beyond} THEN Raised ELSE DoubleVal(Float(s, g))
  BY DEF Cast, a
<1>7. w.kind = "double"
  OBVIOUS
<1>8. ASSUME NEW z \in {1, -1}, NEW m \in Mags, m = 0 => z = 1, w = DoubleVal(Float(z, m))
      PROVE  w \in Operands /\ w.f.sgn = z /\ w.f.mag = m /\ IsDouble(w) /\ Finite(w.f)
  <2>1. Float(z, m) \in Floats
    BY DEF Floats, Float
  <2>2. w \in Operands
    BY <1>8, <2>1 DEF Operands, Doubles
  <2>3. Float(z, m).mag = m /\ Float(z, m).sgn = z
    BY DEF Float
  <2>4. w = [kind |-> "double", f |-> Float(z, m)]
    <3>1. CASE m = 0
      BY <1>8, <2>3, <3>1 DEF DoubleVal
    <3>2. CASE m # 0
      BY <1>8, <2>3, <3>2 DEF DoubleVal
    <3>3. QED BY <3>1, <3>2
  <2>5. w.f = Float(z, m) /\ w.kind = "double"
    BY <2>4
  <2>6. m \in 0..MaxMag
    BY MagParts, RangeEnds
  <2>7. QED BY <1>8, <2>2, <2>3, <2>4, <2>5, <2>6 DEF IsDouble, Finite
<1> HIDE DEF g, s
<1>9. CASE n = 0
  <2>1. a = 0 /\ g = 0 /\ w = DoubleVal(Float(1, 0))
    BY <1>2, <1>4, <1>6, <1>9
  <2>2. 0 \in Mags
    BY <1>4, <2>1, RangeEnds
  <2>3. w \in Operands /\ w.f.sgn = 1 /\ w.f.mag = 0 /\ IsDouble(w) /\ Finite(w.f)
    BY <1>8, <2>1, <2>2
  <2>4. Signed(w.f) = Widen(n)
    <3>1. s * 0 = 0
      BY <1>1
    <3>2. QED BY <1>5, <2>1, <2>3, <3>1 DEF Signed
  <2>5. QED BY <1>9, <2>1, <2>3, <2>4 DEF g, a
<1>10. CASE n # 0
  <2>1. a # 0 /\ g # 0
    BY <1>2, <1>4, <1>10
  <2>2. g # Beyond
    <3>1. SUFFICES ASSUME g = Beyond PROVE FALSE
      OBVIOUS
    <3>2. w = Raised
      BY <1>6, <2>1, <3>1
    <3>3. QED BY <1>7, <3>2 DEF Raised
  <2>3. w = DoubleVal(Float(s, g)) /\ g \in Mags
    BY <1>4, <1>6, <2>1, <2>2
  <2>4. w \in Operands /\ w.f.sgn = s /\ w.f.mag = g /\ IsDouble(w) /\ Finite(w.f)
    BY <1>1, <1>8, <2>1, <2>3
  <2>5. Signed(w.f) = Widen(n)
    BY <1>5, <2>4 DEF Signed
  <2>6. QED BY <2>4, <2>5 DEF g, s, a
<1>11. QED BY <1>9, <1>10

\* Short numbers come back as they went.
LEMMA ShortBack ==
  ASSUME NEW n \in Int, NEW w, w = Cast(Sgn(n), Abs(n) * Pow2[F], 1), w.kind = "double",
         Abs(n) < Pow2[P]
  PROVE  /\ DoubleToInt(w.f) = IntVal(n)
         /\ n >= 0 => DoubleToUint(w.f) = UintVal(n)
<1> DEFINE u == Pow2[F]
           a == Abs(n)
           s == Sgn(n)
<1>1. u \in Nat /\ u >= 1 /\ a \in Nat /\ s \in {1, -1} /\ n = s * a /\ (n = 0 <=> a = 0)
  <2>1. u \in Nat /\ u >= 1 /\ a \in Nat /\ s \in {1, -1} /\ n = s * a
    BY Ranges, TwoAt, Signs
  <2>2. n = 0 <=> a = 0
    BY DEF Abs
  <2>3. QED BY <2>1, <2>2
<1>2. /\ Finite(w.f) /\ IsDouble(w) /\ w.f.mag = Round(a * u, 1) /\ (n # 0 => w.f.sgn = s)
  BY ToDoubleIs
<1>3. w.f.mag = a * u
  BY <1>2, ShortExact
<1>4. w.f.sgn * w.f.mag = s * (a * u) /\ w.f.sgn * a = n
  <2>1. w.f.sgn \in {1, -1}
    BY <1>2, FiniteParts
  <2> HIDE DEF u, a, s
  <2>2. CASE n = 0
    <3>1. a = 0 /\ a * u = 0
      BY <1>1, <2>2
    <3>2. QED BY <1>1, <1>3, <2>1, <2>2, <3>1
  <2>3. CASE n # 0
    BY <1>1, <1>2, <1>3, <2>3
  <2>4. QED BY <2>2, <2>3
<1>5. a * u < Widen(MaxInt) /\ a * u < Widen(MaxUint) /\ Widen(MinInt) < -(a * u)
  BY <1>1, BoundsFar
<1>6. Widen(MaxInt) \in Int /\ Widen(MaxUint) \in Int /\ Widen(MinInt) \in Int
  <2>1. MaxInt \in Int /\ MaxUint \in Int /\ MinInt \in Int
    BY Widths
  <2>2. QED BY <2>1, WidenAt
<1>7. Signed(w.f) = s * (a * u)
  BY <1>4 DEF Signed
<1>8. (w.f.mag \div u) = a
  <2> DEFINE m == w.f.mag
  <2>1. m = u * a + 0 /\ m \in Int /\ 0 \in 0..(u - 1) /\ a \in Int
    <3> HIDE DEF u, a
    <3>1. QED BY <1>1, <1>3
  <2> HIDE DEF u, a, m
  <2>2. m \div u = a
    BY <1>1, <2>1, EuclidUnique
  <2>3. QED BY <2>2 DEF m
<1> HIDE DEF u, a, s
<1>9. a * u \in Nat /\ s * (a * u) \in Int /\ -(a * u) <= s * (a * u) /\ s * (a * u) <= a * u
  <2>1. a * u \in Nat
    BY <1>1
  <2>2. QED BY <1>1, <2>1
<1>10. ~ (Signed(w.f) <= Widen(MinInt)) /\ ~ (Signed(w.f) >= Widen(MaxInt))
  BY <1>5, <1>6, <1>7, <1>9
<1>11. DoubleToInt(w.f) = IntVal(n)
  BY <1>2, <1>4, <1>8, <1>10 DEF DoubleToInt, u
<1>12. ASSUME n >= 0 PROVE DoubleToUint(w.f) = UintVal(n)
  <2>1. s = 1 /\ n = a
    BY <1>1, <1>12 DEF s, Sgn
  <2>2. ~ (Signed(w.f) < 0) /\ ~ (Signed(w.f) >= Widen(MaxUint))
    BY <1>5, <1>6, <1>7, <1>9, <2>1
  <2>3. QED BY <1>2, <1>8, <2>1, <2>2 DEF DoubleToUint, u
<1>13. QED BY <1>11, <1>12

LEMMA ConversionOperands ==
  ASSUME Called, op \in {"int", "uint", "double"}
  PROVE  x \in Operands
<1>1. op \notin Arithmetic \cup Roundings \cup Extremes \cup Shifts \cup BitOps \cup Relations
                   \cup {"%", "neg", "not"}
  BY DEF Arithmetic, Relations, Extremes, Roundings, Shifts, BitOps
<1>2. Calls(op) = Operands \X {IntVal(0)}
  BY <1>1 DEF Calls, Operands
<1>3. QED BY <1>2 DEF Called

\* Two operands whose numbers are the same are equal.
LEMMA EqualWhen ==
  ASSUME NEW a \in Operands, NEW b \in Operands, ~ HasNaN(a, b), OnScale(a, b) = OnScale(b, a)
  PROVE  Equal(a, b)
<1>1. OnScale(a, b) \in Int /\ Compare(a, b) = IntVal(Sign(OnScale(a, b) - OnScale(b, a)))
  BY CompareIs
<1>2. Sign(OnScale(a, b) - OnScale(b, a)) = 0
  <2> DEFINE z == OnScale(a, b)
  <2>1. z \in Int /\ OnScale(b, a) = z
    BY <1>1
  <2> HIDE DEF z
  <2>2. Sign(z - z) = 0
    BY <2>1 DEF Sign
  <2>3. QED BY <2>1, <2>2 DEF z
<1>3. QED BY <1>1, <1>2 DEF Equal

\* A conversion of a double.
LEMMA FromDouble ==
  ASSUME NEW o \in {"int", "uint", "double"}, NEW v \in Operands, IsDouble(v),
         NEW w, w = Convert(o, v), w.kind = o
  PROVE  IF (v.f.mag % Pow2[F]) = 0 \/ o = "double"
           THEN v.f = NaN \/ Equal(w, v)
           ELSE Compare(w, v) = IntVal(-v.f.sgn)
<1>1. v.kind = "double"
  BY DEF IsDouble
<1>2. CASE o = "int"
  <2>1. w = DoubleToInt(v.f)
    BY <1>1, <1>2 DEF Convert
  <2>2. Compare(w, v) = IntVal(IF (v.f.mag % Pow2[F]) = 0 THEN 0 ELSE -v.f.sgn)
    BY <1>2, <2>1, DoubleToIntIs
  <2>3. QED BY <1>2, <2>2 DEF Equal
<1>3. CASE o = "uint"
  <2>1. w = DoubleToUint(v.f)
    BY <1>1, <1>3 DEF Convert
  <2>2. Compare(w, v) = IntVal(IF (v.f.mag % Pow2[F]) = 0 THEN 0 ELSE -v.f.sgn)
    BY <1>3, <2>1, DoubleToUintIs
  <2>3. QED BY <1>3, <2>2 DEF Equal
<1>4. CASE o = "double"
  <2>1. w = v
    BY <1>1, <1>4 DEF Convert
  <2>2. v.f # NaN => ~ HasNaN(v, v)
    BY DEF HasNaN
  <2>3. v.f # NaN => Equal(v, v)
    BY <2>2, EqualWhen
  <2>4. QED BY <1>4, <2>1, <2>3
<1>5. QED BY <1>2, <1>3, <1>4

\* A conversion of an int or uint.
LEMMA FromWhole ==
  ASSUME NEW o \in {"int", "uint", "double"}, NEW v \in Operands, IsInt(v) \/ IsUint(v),
         NEW w, w = Convert(o, v), w.kind = o
  PROVE  Equal(w, v) /\ (Abs(v.n) < Pow2[P] => Convert(v.kind, w) = v)
<1>1. v.kind \in {"int", "uint"} /\ v.kind # "double" /\ v.n \in Int
  BY BoundsHold DEF IsInt, IsUint
<1>2. CASE o = "double"
  <2>1. w = Cast(Sgn(v.n), Abs(v.n) * Pow2[F], 1)
    BY <1>1, <1>2 DEF Convert
  <2>2. w \in Operands /\ IsDouble(w) /\ Finite(w.f) /\ Signed(w.f) = Widen(v.n)
    BY <1>1, <1>2, <2>1, ToDoubleIs
  <2>3. w.kind = "double" /\ w.f # NaN
    BY <1>2, <2>2, FiniteParts
  <2>4. ~ HasNaN(w, v)
    BY <1>1, <2>3 DEF HasNaN
  <2>5. OnScale(w, v) = OnScale(v, w)
    BY <1>1, <2>2, <2>3 DEF OnScale
  <2>6. Equal(w, v)
    BY <2>2, <2>4, <2>5, EqualWhen
  <2>7. ASSUME Abs(v.n) < Pow2[P] PROVE Convert(v.kind, w) = v
    <3>1. DoubleToInt(w.f) = IntVal(v.n) /\ (v.n >= 0 => DoubleToUint(w.f) = UintVal(v.n))
      BY <1>1, <2>1, <2>3, <2>7, ShortBack
    <3>2. CASE IsInt(v)
      <4>1. v.kind = "int" /\ v = IntVal(v.n)
        BY <3>2 DEF IsInt
      <4>2. QED BY <2>3, <3>1, <4>1 DEF Convert
    <3>3. CASE IsUint(v)
      <4>1. v.kind = "uint" /\ v = UintVal(v.n) /\ v.n >= 0
        BY <3>3, Widths DEF IsUint
      <4>2. QED BY <2>3, <3>1, <4>1 DEF Convert
    <3>4. QED BY <3>2, <3>3
  <2>8. QED BY <2>6, <2>7
<1>3. CASE o # "double"
  <2>1. w = IF o = "int" THEN ChkInt(v.n) ELSE ChkUint(v.n)
    BY <1>1, <1>3 DEF Convert
  <2>2. w.kind # "error"
    BY <1>3
  <2>3. \/ o = "int" /\ v.n \in MinInt..MaxInt /\ w = IntVal(v.n)
        \/ o = "uint" /\ v.n \in 0..MaxUint /\ w = UintVal(v.n)
    <3>1. CASE o = "int"
      <4>1. w = ChkInt(v.n)
        BY <2>1, <3>1
      <4>2. ~ (v.n < MinInt \/ v.n > MaxInt)
        BY <2>2, <4>1 DEF ChkInt, Err
      <4>3. QED BY <1>1, <3>1, <4>1, <4>2, Widths DEF ChkInt
    <3>2. CASE o = "uint"
      <4>1. w = ChkUint(v.n)
        BY <2>1, <3>2
      <4>2. ~ (v.n < 0 \/ v.n > MaxUint)
        BY <2>2, <4>1 DEF ChkUint, Err
      <4>3. QED BY <1>1, <3>2, <4>1, <4>2, Widths DEF ChkUint
    <3>3. QED BY <1>3, <3>1, <3>2
  <2>4. w.n = v.n /\ w.kind # "double" /\ w \in Operands
    BY <2>3 DEF IntVal, UintVal, Operands, Ints, Uints
  <2>5. Equal(w, v)
    <3>1. ~ HasNaN(w, v)
      BY <1>1, <2>4 DEF HasNaN
    <3>2. OnScale(w, v) = OnScale(v, w)
      BY <1>1, <2>4 DEF OnScale
    <3>3. QED BY <2>4, <3>1, <3>2, EqualWhen
  <2>6. Convert(v.kind, w) = v
    <3>1. CASE IsInt(v)
      <4>1. v.kind = "int" /\ v = IntVal(v.n) /\ ~ (v.n < MinInt \/ v.n > MaxInt)
        BY <3>1, Widths DEF IsInt
      <4>2. Convert(v.kind, w) = ChkInt(v.n)
        BY <2>4, <4>1 DEF Convert
      <4>3. QED BY <4>1, <4>2 DEF ChkInt
    <3>2. CASE IsUint(v)
      <4>1. v.kind = "uint" /\ v = UintVal(v.n) /\ ~ (v.n < 0 \/ v.n > MaxUint)
        BY <3>2, Widths DEF IsUint
      <4>2. Convert(v.kind, w) = ChkUint(v.n)
        BY <2>4, <4>1 DEF Convert
      <4>3. QED BY <4>1, <4>2 DEF ChkUint
    <3>3. QED BY <3>1, <3>2
  <2>7. QED BY <2>5, <2>6
<1>4. QED BY <1>2, <1>3

\* A number equals what it converts to, unless a fraction is cut off, in
\* which case it compares as the fraction says; and it converts back to
\* itself if it has no more bits than a double: at any width and precision
\* (the conversions of 060_stdlib.sql against cel._compare of 020_values.sql).
THEOREM ConversionsHold == Spec => []ConversionsAgree
<1>1. ASSUME CallInv PROVE ConversionsAgree
  <2>1. SUFFICES ASSUME Done, op \in {"int", "uint", "double"}, result.kind = op
                 PROVE  IF x.kind = "double"
                          THEN IF (x.f.mag % Pow2[F]) = 0 \/ op = "double"
                                 THEN x.f = NaN \/ Equal(result, x)
                                 ELSE Compare(result, x) = IntVal(-x.f.sgn)
                          ELSE /\ Equal(result, x)
                               /\ Abs(x.n) < Pow2[P] => Convert(x.kind, result) = x
    BY DEF ConversionsAgree
  <2>2. Called /\ Answers(result)
    BY <1>1, <2>1 DEF CallInv, Done
  <2>3. x \in Operands /\ (IsInt(x) \/ IsUint(x) \/ IsDouble(x))
    BY <2>1, <2>2, ConversionOperands, OperandKinds
  <2>4. result = Convert(op, x)
    BY <2>1, <2>2 DEF Answers, Arithmetic, Relations, Roundings, Extremes, BitOps
  <2>5. CASE IsDouble(x)
    <3>1. x.kind = "double"
      BY <2>5 DEF IsDouble
    <3>2. QED BY <2>1, <2>3, <2>4, <2>5, <3>1, FromDouble
  <2>6. CASE IsInt(x) \/ IsUint(x)
    <3>1. x.kind # "double"
      BY <2>6, BoundsHold
    <3>2. QED BY <2>1, <2>3, <2>4, <2>6, <3>1, FromWhole
  <2>7. QED BY <2>3, <2>5, <2>6
<1>2. QED BY <1>1, AlwaysCall, PTL

-----------------------------------------------------------------------------
(***************************************************************************)
(* Rounding comes to the nearest double.                                   *)
(***************************************************************************)
LEMMA NearestClosest ==
  ASSUME NEW a \in Nat, NEW s \in Nat, s > 0, NEW c \in Nat
  PROVE  Abs(Nearest(a, s) * s - a) <= Abs(c * s - a)
<1> DEFINE q == a \div s
           r == a % s
           n == Nearest(a, s)
<1>1. q \in Nat /\ r \in 0..(s - 1) /\ a = s * q + r
  BY Euclid
<1>2. /\ n = q \/ n = q + 1
      /\ n = q => 2 * r <= s
      /\ n = q + 1 => 2 * r >= s
  <2>1. n = IF 2 * r > s \/ (2 * r = s /\ q % 2 = 1) THEN q + 1 ELSE q
    BY DEF Nearest
  <2> HIDE DEF n, q, r
  <2>2. QED BY <1>1, <2>1
<1> HIDE DEF q, r, n
<1>3. q * s \in Nat /\ s * q = q * s /\ c * s \in Nat /\ (q + 1) * s = q * s + s
  BY <1>1
<1>4. Abs(n * s - a) <= r /\ Abs(n * s - a) <= s - r
  <2>1. CASE n = q
    <3>1. n * s - a = -r
      BY <1>1, <1>3, <2>1
    <3>2. QED BY <1>1, <1>2, <2>1, <3>1 DEF Abs
  <2>2. CASE n = q + 1
    <3>1. n * s - a = s - r
      BY <1>1, <1>3, <2>2
    <3>2. QED BY <1>1, <1>2, <2>2, <3>1 DEF Abs
  <2>3. QED BY <1>2, <2>1, <2>2
<1>5. Abs(n * s - a) \in Int
  BY <1>1, <1>2, <1>3 DEF Abs
<1>6. CASE c <= q
  <2>1. c * s <= q * s
    BY <1>1, <1>6
  <2>2. Abs(c * s - a) >= r
    BY <1>1, <1>3, <2>1 DEF Abs
  <2>3. Abs(c * s - a) \in Int
    BY <1>3 DEF Abs
  <2>4. QED BY <1>1, <1>4, <1>5, <2>2, <2>3 DEF n
<1>7. CASE c >= q + 1
  <2>1. c * s >= (q + 1) * s
    BY <1>1, <1>7
  <2>2. Abs(c * s - a) >= s - r
    BY <1>1, <1>3, <2>1 DEF Abs
  <2>3. Abs(c * s - a) \in Int
    BY <1>3 DEF Abs
  <2>4. QED BY <1>1, <1>4, <1>5, <2>2, <2>3 DEF n
<1>8. QED BY <1>1, <1>6, <1>7

\* Half way between the greatest double and what would be the next.
LEMMA BoundaryMiddle == 2 * Boundary = MaxMag + Beyond
<1> DEFINE h == Pow2[P - 1]
           z == Pow2[E - 1]
<1>1. P - 1 \in Nat /\ E - 1 \in Nat /\ (P - 1) + 1 = P /\ (E - 1) + 1 = E /\ P \in Nat /\ E \in Nat
  BY Ranges
<1>2. h \in Nat /\ z \in Nat
  BY <1>1, TwoAt
<1>3. Pow2[P] = 2 * h /\ Pow2[E] = 2 * z /\ Pow2[P + 1] = 2 * Pow2[P]
  BY <1>1, TwoStep
<1>4. Boundary = (4 * h - 1) * z /\ MaxMag = (2 * h - 1) * (2 * z) /\ Beyond = (2 * h) * (2 * z)
  BY <1>2, <1>3 DEF Boundary, MaxMag, Beyond
<1> HIDE DEF h, z
<1>5. /\ (4 * h - 1) * z = 4 * (h * z) - z /\ (2 * h - 1) * (2 * z) = 4 * (h * z) - 2 * z
      /\ (2 * h) * (2 * z) = 4 * (h * z) /\ h * z \in Nat
  BY <1>2
<1>6. QED BY <1>2, <1>4, <1>5

\* No double is nearer to a / d than Round(a, d), infinity counting as the
\* magnitude that would follow the greatest one.
LEMMA RoundClosest ==
  ASSUME NEW a \in Nat, NEW d \in Nat, d > 0, NEW m \in Mags
  PROVE  Abs(Round(a, d) * d - a) <= Abs(m * d - a)
<1> DEFINE k == Scale(a, d)
           t == Pow2[k]
           s == d * t
           n == Nearest(a, s)
           v == n * t
<1>1. k \in 0..E /\ (k = 0 \/ a >= d * Pow2[P + k - 1])
  BY ScaleAt
<1>2. k \in Nat /\ t \in Nat /\ t >= 1 /\ P \in Nat /\ P - 1 \in Nat /\ E \in Nat
  BY <1>1, Ranges, TwoAt
<1>3. Round(a, d) = Clamp(v)
  BY RoundParts
<1>4. PICK j \in 0..E : \E c \in Nat : c < Pow2[P] /\ m = c * Pow2[j]
  BY MagParts
<1>5. PICK c \in Nat : c < Pow2[P] /\ m = c * Pow2[j]
  BY <1>4
<1>6. m \in Nat /\ m <= MaxMag /\ j \in Nat /\ Pow2[j] \in Nat /\ Pow2[P] \in Nat
  <2>1. j \in Nat
    BY Ranges
  <2>2. QED BY <1>2, <2>1, MagParts, TwoAt
<1> HIDE DEF k
<1>7. s \in Nat /\ s > 0
  BY <1>2
<1>8. n \in Nat /\ v \in Nat /\ v * d = n * s
  <2>1. n \in Nat
    BY <1>7, NearestAt
  <2> HIDE DEF n, t
  <2>2. QED BY <1>2, <2>1
<1>9. Abs(v * d - a) <= Abs(m * d - a) /\ Abs(v * d - a) \in Int /\ Abs(m * d - a) \in Int
  <2>1. CASE k <= j
    <3> DEFINE z == Pow2[j - k]
    <3>1. j - k \in Nat /\ k + (j - k) = j
      BY <1>2, <1>6, <2>1
    <3>2. z \in Nat /\ Pow2[k + (j - k)] = t * z
      BY <1>2, <3>1, TwoSum, TwoAt
    <3>3. Pow2[j] = t * z
      BY <3>1, <3>2
    <3> HIDE DEF z, t
    <3>4. m = (c * z) * t /\ c * z \in Nat
      BY <1>2, <1>5, <3>2, <3>3
    <3>5. m * d = (c * z) * s
      BY <1>2, <3>4
    <3> DEFINE w == c * z
    <3>6. w \in Nat /\ m * d = w * s
      BY <3>4, <3>5
    <3> HIDE DEF w, s
    <3>7. Abs(n * s - a) <= Abs(w * s - a)
      BY <1>7, <3>6, NearestClosest DEF n, s
    <3>8. w * s \in Nat /\ n * s \in Nat
      BY <1>7, <1>8, <3>6
    <3>9. Abs(n * s - a) \in Int /\ Abs(w * s - a) \in Int
      BY <3>8 DEF Abs
    <3>10. v * d = n * s
      BY <1>8 DEF s
    <3>11. QED BY <3>6, <3>7, <3>9, <3>10
  <2>2. CASE j < k
    <3> DEFINE h == Pow2[P - 1]
               z == Pow2[k - 1]
    <3>1. k # 0 /\ k - 1 \in Nat /\ j <= k - 1 /\ (k - 1) + 1 = k /\ (P - 1) + 1 = P /\ (P - 1) + k = P + k - 1
      BY <1>2, <1>6, <2>2
    <3>2. h \in Nat /\ z \in Nat /\ Pow2[j] <= z /\ t = 2 * z /\ Pow2[P] = 2 * h /\ Pow2[P + k - 1] = h * t
      <4>1. h \in Nat /\ z \in Nat
        BY <1>2, <3>1, TwoAt
      <4>2. Pow2[j] <= z
        BY <1>6, <3>1, TwoOrdered
      <4>3. Pow2[(k - 1) + 1] = 2 * z /\ Pow2[(P - 1) + 1] = 2 * h
        BY <1>2, <3>1, TwoStep
      <4>4. Pow2[(P - 1) + k] = h * t
        BY <1>2, TwoSum
      <4>5. QED BY <3>1, <4>1, <4>2, <4>3, <4>4
    <3> HIDE DEF h, z, t
    <3>3. m <= h * t
      <4>1. c * Pow2[j] <= c * z
        BY <1>5, <1>6, <3>2
      <4>2. c * z <= (2 * h) * z
        BY <1>5, <1>6, <3>2
      <4>3. (2 * h) * z = h * t /\ c * z \in Nat /\ h * t \in Nat
        BY <1>2, <3>2
      <4>4. QED BY <1>5, <1>6, <4>1, <4>2, <4>3
    <3>4. m * d <= h * s /\ h * s <= a /\ h * s \in Nat /\ m * d \in Nat
      <4>1. m * d <= (h * t) * d /\ (h * t) * d = h * s /\ (h * t) * d = d * (h * t)
        BY <1>2, <1>6, <3>2, <3>3
      <4>2. a >= d * (h * t)
        BY <1>1, <3>1, <3>2
      <4>3. h * s \in Nat /\ m * d \in Nat
        BY <1>6, <1>7, <3>2
      <4>4. QED BY <4>1, <4>2, <4>3
    <3> HIDE DEF s
    <3>5. Abs(n * s - a) <= Abs(h * s - a)
      BY <1>7, <3>2, NearestClosest DEF n, s
    <3>6. n * s \in Nat /\ v * d = n * s
      BY <1>7, <1>8 DEF s
    <3>7. Abs(h * s - a) = a - h * s /\ Abs(m * d - a) = a - m * d
      BY <3>4 DEF Abs
    <3>8. Abs(n * s - a) \in Int
      BY <3>6 DEF Abs
    <3>9. QED BY <3>4, <3>5, <3>6, <3>7, <3>8
  <2>3. QED BY <1>2, <1>6, <2>1, <2>2
<1> HIDE DEF v, s, n, t
<1>10. CASE v <= MaxMag
  <2>1. Round(a, d) = v
    BY <1>3, <1>8, <1>10, RangeEnds DEF Clamp
  <2>2. QED BY <1>9, <2>1
<1>11. CASE ~ (v <= MaxMag)
  <2>1. Round(a, d) = Beyond
    BY <1>3, <1>8, <1>11, RangeEnds DEF Clamp
  <2>2. a >= Boundary * d
    BY <2>1, RoundTop
  <2>3. MaxMag \in Nat /\ Beyond \in Nat /\ Boundary \in Nat /\ 2 * Boundary = MaxMag + Beyond
    BY RangeEnds, BoundaryAt, BoundaryMiddle
  <2>4. 2 * a >= MaxMag * d + Beyond * d
    <3>1. 2 * (Boundary * d) = (2 * Boundary) * d /\ (MaxMag + Beyond) * d = MaxMag * d + Beyond * d
      BY <2>3
    <3>2. Boundary * d \in Nat
      BY <2>3
    <3>3. QED BY <2>2, <2>3, <3>1, <3>2
  <2>5. m * d <= MaxMag * d /\ MaxMag * d <= Beyond * d
    BY <1>6, <2>3, RangeEnds
  <2>6. m * d \in Nat /\ MaxMag * d \in Nat /\ Beyond * d \in Nat
    BY <1>6, <2>3
  <2>7. Abs(Beyond * d - a) <= Abs(m * d - a)
    BY <2>4, <2>5, <2>6 DEF Abs
  <2>8. QED BY <2>1, <2>7
<1>12. QED BY <1>10, <1>11

-----------------------------------------------------------------------------
(***************************************************************************)
(* Whole numbers.                                                          *)
(***************************************************************************)
LEMMA OneAt == One \in Nat /\ One >= 2 /\ One \div 2 = Pow2[F - 1] /\ One = 2 * Pow2[F - 1]
<1>1. F - 1 \in Nat /\ (F - 1) + 1 = F
  BY Ranges
<1>2. Pow2[F - 1] \in Nat /\ Pow2[F - 1] >= 1
  BY <1>1, TwoAt
<1>3. One = 2 * Pow2[F - 1]
  BY <1>1, TwoStep DEF One
<1>4. (2 * Pow2[F - 1]) \div 2 = Pow2[F - 1]
  <2> DEFINE h == Pow2[F - 1]
             a == 2 * h
  <2>1. a = 2 * h + 0 /\ a \in Int /\ h \in Int /\ 0 \in 0..(2 - 1) /\ 2 \in Nat /\ 2 > 0
    BY <1>2
  <2> HIDE DEF h, a
  <2>2. a \div 2 = h
    BY <2>1, EuclidUnique
  <2>3. QED BY <2>2 DEF a, h
<1>5. QED BY <1>2, <1>3, <1>4

LEMMA OneNat == One \in Nat /\ One >= 2 /\ One > 0
  BY OneAt

LEMMA EuclidOne ==
  ASSUME NEW a \in Nat
  PROVE  /\ a \div One \in Nat /\ (a % One) \in 0..(One - 1)
         /\ a = One * (a \div One) + (a % One)
<1>1. a \in Int /\ a >= 0
  OBVIOUS
<1>2. QED BY <1>1, OneNat, Euclid

\* WholeBelow(n) is the greatest multiple of One that is not above n.
LEMMA WholeBelowAt ==
  ASSUME NEW n \in Int
  PROVE  /\ n % One \in 0..(One - 1) /\ WholeBelow(n) \in Int /\ (n \div One) \in Int
         /\ WholeBelow(n) = One * (n \div One)
         /\ n - WholeBelow(n) = n % One
         /\ n >= 0 => WholeBelow(n) >= 0 /\ WholeBelow(n) <= n
<1> DEFINE q == n \div One
           r == n % One
<1>1. q \in Int /\ r \in 0..(One - 1) /\ n = One * q + r /\ (n >= 0 => q \in Nat)
  BY OneNat, Euclid
<1>2. WholeBelow(n) = n - r
  BY DEF WholeBelow
<1> HIDE DEF q, r
<1>3. One * q \in Int /\ (n >= 0 => One * q \in Nat)
  BY <1>1, OneAt
<1>4. /\ r \in 0..(One - 1) /\ WholeBelow(n) \in Int
      /\ WholeBelow(n) = One * q /\ n - WholeBelow(n) = r
      /\ n >= 0 => WholeBelow(n) >= 0 /\ WholeBelow(n) <= n
  BY <1>1, <1>2, <1>3, OneNat
<1>5. QED BY <1>1, <1>4 DEF q, r

\* A multiple of One, and only that, leaves nothing.
LEMMA Multiple ==
  ASSUME NEW q \in Int
  PROVE  One * q \in Int /\ (One * q) % One = 0 /\ (-(One * q)) % One = 0 /\ (One * q) \div One = q
<1>1. One \in Nat /\ One > 0 /\ 0 \in 0..(One - 1)
  BY OneAt
<1> DEFINE a == One * q
           b == -(One * q)
<1>2. a \in Int /\ a = One * q + 0
  BY <1>1
<1>3. b \in Int /\ b = One * (-q) + 0 /\ -q \in Int
  BY <1>1
<1> HIDE DEF a, b
<1>4. (a % One) = 0 /\ a \div One = q
  BY <1>1, <1>2, EuclidUnique
<1>5. (b % One) = 0
  BY <1>1, <1>3, EuclidUnique
<1>6. QED BY <1>2, <1>4, <1>5 DEF a, b

\* A double of a given sign and magnitude, as a number.
LEMMA DoubleOf ==
  ASSUME NEW s \in {1, -1}, NEW m \in Nat, NEW v, v = DoubleVal(Float(s, m))
  PROVE  Signed(v.f) = s * m /\ v.f.mag = m /\ v.kind = "double"
<1>1. CASE m = 0
  <2>1. v.f.sgn = 1 /\ v.f.mag = 0 /\ v.kind = "double"
    BY <1>1 DEF DoubleVal, Float
  <2>2. s * 0 = 0
    OBVIOUS
  <2>3. QED BY <1>1, <2>1, <2>2 DEF Signed
<1>2. CASE m # 0
  <2>1. v.f.sgn = s /\ v.f.mag = m /\ v.kind = "double"
    BY <1>2 DEF DoubleVal, Float
  <2>2. QED BY <2>1 DEF Signed
<1>3. QED BY <1>1, <1>2

LEMMA FromUnitsIs ==
  ASSUME NEW n \in Int
  PROVE  Signed(FromUnits(n).f) = n
<1>1. Sgn(n) \in {1, -1} /\ Abs(n) \in Nat /\ n = Sgn(n) * Abs(n)
  BY Signs
<1>2. QED BY <1>1, DoubleOf DEF FromUnits

\* The sum with the half that round adds: rounded to a float8, it stays in
\* its whole number or comes to the next.
LEMMA HalfAdded ==
  ASSUME NEW m \in Mags, NEW v, v = m + One \div 2, NEW g, g = Round(v, 1)
  PROVE  /\ v \in Nat /\ g \in Nat
         /\ v \in Mags => g = v
         /\ WholeBelow(g) = WholeBelow(v) \/ WholeBelow(g) = WholeBelow(v) + One
<1> DEFINE h == Pow2[F - 1]
           k == Scale(v, 1)
           w == Pow2[k]
           n == Nearest(v, 1 * w)
           z == v \div One
<1>1. h \in Nat /\ h >= 1 /\ One = 2 * h /\ v = m + h /\ m \in Nat /\ m <= MaxMag
  <2>1. F - 1 \in Nat
    BY Ranges
  <2>2. QED BY <2>1, OneAt, TwoAt, MagParts
<1>2. v \in Nat /\ 1 \in Nat /\ 1 > 0
  BY <1>1
<1>3. g \in Nat
  BY <1>2, RoundTop
<1>4. v \in Mags => g = v
  <2>1. SUFFICES ASSUME v \in Mags PROVE g = v
    OBVIOUS
  <2>2. PICK j \in 0..E : \E c \in Nat : c < Pow2[P] /\ v = c * Pow2[j]
    BY <2>1, MagParts
  <2>3. PICK c \in Nat : c < Pow2[P] /\ v = c * Pow2[j]
    BY <2>2
  <2>4. QED BY <2>3, RoundExact
<1>5. /\ k \in 0..E /\ n \in Nat
      /\ k # E => n <= Pow2[P] /\ n * w <= Pow2[P + k]
  BY <1>2, NearestInBinade
<1>6. k = 0 \/ v >= 1 * Pow2[P + k - 1]
  BY <1>2, ScaleAt
<1>7. g = Clamp(n * w)
  BY RoundParts
<1>8. n = v \div w \/ n = (v \div w) + 1
  <2>1. w \in Nat /\ w >= 1 /\ 1 * w = w
    <3>1. k \in Nat
      BY <1>5
    <3>2. Pow2[k] \in Nat /\ Pow2[k] >= 1
      BY <3>1, TwoAt
    <3>3. QED BY <3>2
  <2>2. QED BY <1>2, <2>1, NearestAt
<1>9. /\ k \in Nat /\ w \in Nat /\ w >= 1 /\ P \in Nat /\ F \in Nat /\ E \in Nat
      /\ F + 1 <= E /\ F - 1 \in Nat
  <2>1. k \in Nat /\ P \in Nat /\ F \in Nat /\ E \in Nat /\ F + 1 <= E /\ F - 1 \in Nat
    BY <1>5, Ranges, WidthFacts
  <2>2. QED BY <2>1, TwoAt
<1> DEFINE rest == v % One
<1>10. z \in Nat /\ v = One * z + rest /\ rest \in 0..(One - 1) /\ One \in Nat /\ One >= 2
  BY <1>2, OneNat, EuclidOne
<1>11. WholeBelow(v) = One * z
  BY <1>2, WholeBelowAt
<1> HIDE DEF h, k, n, z, rest
<1>12. CASE k <= F
  <2> DEFINE e == Pow2[F - k]
             q == v \div w
  <2>1. F - k \in Nat /\ k + (F - k) = F
    BY <1>9, <1>12
  <2>2. Pow2[k + (F - k)] = Pow2[k] * Pow2[F - k] /\ e \in Nat
    BY <1>9, <2>1, TwoSum, TwoAt
  <2>3. One = w * e
    BY <2>1, <2>2 DEF One
  <2>4. q \in Nat
    BY <1>2, <1>9, Euclid
  <2> HIDE DEF w, e, q
  <2>5. v < w * (e * (z + 1)) /\ ~ (v < w * (e * z)) /\ e * (z + 1) \in Nat /\ e * z \in Nat
    <3>1. w * (e * (z + 1)) = One * z + One /\ w * (e * z) = One * z
      BY <1>9, <1>10, <2>2, <2>3
    <3>2. One * z \in Nat
      BY <1>10
    <3>3. v < One * z + One /\ ~ (v < One * z)
      BY <1>2, <1>10, <3>2
    <3>4. QED BY <1>10, <2>2, <3>1, <3>3
  <2>6. q < e * (z + 1) /\ ~ (q < e * z)
    BY <1>2, <1>9, <2>5, DivBelow DEF q
  <2>7. n <= e * (z + 1) /\ n >= e * z
    BY <1>5, <1>8, <2>4, <2>5, <2>6 DEF q
  <2>8. n * w <= One * z + One /\ n * w >= One * z
    <3>1. n * w <= (e * (z + 1)) * w /\ n * w >= (e * z) * w
      BY <1>5, <1>9, <2>5, <2>7
    <3>2. (e * (z + 1)) * w = One * z + One /\ (e * z) * w = One * z
      BY <1>9, <1>10, <2>2, <2>3
    <3>3. QED BY <3>1, <3>2
  <2>9. g = n * w
    <3>1. k # E /\ P + k <= P + E - 1 /\ P + k \in Nat /\ P + E - 1 \in Nat
      BY <1>9, <1>12
    <3>2. Pow2[P + k] <= Pow2[P + E - 1] /\ Pow2[P + k] \in Nat /\ Pow2[P + E - 1] \in Nat
      BY <3>1, TwoOrdered, TwoAt
    <3>3. n * w <= Pow2[P + k] /\ n * w \in Nat
      BY <1>5, <1>9, <3>1 DEF w
    <3>4. n * w <= MaxMag
      BY <3>2, <3>3, RangeEnds
    <3>5. g = Clamp(n * w)
      BY <1>7 DEF w
    <3>6. QED BY <3>3, <3>4, <3>5, RangeEnds DEF Clamp
  <2>10. g >= One * z /\ g <= One * z + One /\ One * z \in Nat
    BY <1>10, <2>8, <2>9
  <2>11. CASE g = One * z + One
    <3>1. g = One * (z + 1) /\ z + 1 \in Int
      BY <1>10, <2>11
    <3>2. g % One = 0
      BY <3>1, Multiple
    <3>3. WholeBelow(g) = g
      BY <1>3, <3>2 DEF WholeBelow
    <3>4. QED BY <1>2, <1>3, <1>4, <1>11, <2>11, <3>3
  <2>12. CASE g < One * z + One
    <3> DEFINE r == g - One * z
    <3>1. z \in Int /\ g \in Int
      BY <1>3, <1>10
    <3>2. g = One * z + r /\ r \in 0..(One - 1)
      BY <1>3, <1>10, <2>10, <2>12
    <3> HIDE DEF r
    <3>3. g \div One = z
      BY <3>1, <3>2, <1>10, EuclidUnique
    <3>4. WholeBelow(g) = One * z
      BY <1>3, <3>3, WholeBelowAt
    <3>5. QED BY <1>2, <1>3, <1>4, <1>11, <3>4
  <2>13. One * z + One \in Nat
    BY <1>10, <2>10
  <2>14. g = One * z + One \/ g < One * z + One
    BY <1>3, <2>10, <2>13
  <2>15. QED BY <2>11, <2>12, <2>14
<1>13. CASE F < k
  <2>1. PICK j \in 0..E : \E c \in Nat : c < Pow2[P] /\ m = c * Pow2[j]
    BY MagParts
  <2>2. PICK c \in Nat : c < Pow2[P] /\ m = c * Pow2[j]
    BY <2>1
  <2> DEFINE y0 == Pow2[k - 1]
             u == Pow2[P]
  <2>3. /\ k - 1 \in Nat /\ (k - 1) + 1 = k /\ P + (k - 1) = P + k - 1
        /\ F - 1 <= k - 1 /\ F <= k - 1 /\ j \in Nat
    BY <1>5, <1>9, <1>13
  <2>4. w = 2 * y0 /\ y0 \in Nat /\ y0 >= 1 /\ u \in Nat /\ u >= 1
    BY <1>9, <2>3, TwoStep, TwoAt
  <2>5. One <= y0 /\ Pow2[P + k - 1] = u * y0
    <3>1. Pow2[F] <= Pow2[k - 1]
      BY <1>9, <2>3, TwoOrdered
    <3>2. Pow2[P + (k - 1)] = Pow2[P] * Pow2[k - 1]
      BY <1>9, <2>3, TwoSum
    <3>3. QED BY <2>3, <3>1, <3>2 DEF One
  <2> HIDE DEF u, y0, w
  <2>6. k <= j
    <3>1. SUFFICES ASSUME j <= k - 1 PROVE FALSE
      BY <1>9, <2>3
    <3>2. Pow2[j] <= y0 /\ Pow2[j] \in Nat
      BY <2>3, <3>1, TwoOrdered, TwoAt DEF y0
    <3>3. c * Pow2[j] <= c * y0
      BY <2>4, <3>2
    <3>4. c * y0 <= (u - 1) * y0
      <4>1. c <= u - 1
        BY <2>2, <2>4 DEF u
      <4>2. QED BY <2>4, <4>1
    <3>5. (u - 1) * y0 = u * y0 - y0 /\ u * y0 \in Nat /\ c * y0 \in Nat /\ c * Pow2[j] \in Nat
      BY <2>4, <3>2
    <3>6. m <= u * y0 - y0
      <4>1. m = c * Pow2[j]
        BY <2>2
      <4>2. c * Pow2[j] <= (u - 1) * y0
        <5>1. (u - 1) * y0 \in Int
          BY <2>4
        <5>2. QED BY <3>3, <3>4, <3>5, <5>1
      <4>3. QED BY <3>5, <4>1, <4>2
    <3>7. v < u * y0
      BY <1>1, <2>4, <2>5, <3>5, <3>6
    <3>8. k # 0
      BY <1>9, <1>13
    <3>9. QED BY <1>2, <1>6, <2>5, <3>5, <3>7, <3>8
  <2> DEFINE e == Pow2[j - k]
             p == c * e
  <2>7. Pow2[j] = w * e /\ e \in Nat
    <3>1. j - k \in Nat /\ k + (j - k) = j
      BY <1>9, <2>3, <2>6
    <3>2. Pow2[k + (j - k)] = Pow2[k] * Pow2[j - k]
      BY <1>9, <3>1, TwoSum
    <3>3. QED BY <3>1, <3>2, TwoAt DEF w
  <2> HIDE DEF e
  <2>8. m = w * p /\ p \in Nat
    BY <1>9, <2>2, <2>4, <2>7
  <2> HIDE DEF p
  <2>9. v = w * p + h /\ h \in 0..(w - 1) /\ 2 * h < w
    BY <1>1, <2>4, <2>5, <2>8
  <2>10. v \div w = p /\ (v % w) = h
    BY <1>2, <2>4, <2>8, <2>9, EuclidUnique
  <2>11. Nearest(v, w) = p
    BY <1>2, <2>4, <2>9, <2>10, NearestAt
  <2>12. n = p /\ n * w = m
    <3>1. 1 * w = w
      BY <2>4
    <3>2. n = Nearest(v, 1 * w)
      BY DEF n, w
    <3>3. QED BY <2>4, <2>8, <2>11, <3>1, <3>2
  <2>13. g = m
    <3>1. g = Clamp(n * w)
      BY <1>7 DEF w
    <3>2. QED BY <1>1, <2>12, <3>1, RangeEnds DEF Clamp
  <2> DEFINE d == Pow2[k - F]
             x0 == d * p
  <2>14. w = One * d /\ d \in Nat
    <3>1. k - F \in Nat /\ F + (k - F) = k
      BY <1>9, <1>13
    <3>2. Pow2[F + (k - F)] = Pow2[F] * Pow2[k - F]
      BY <1>9, <3>1, TwoSum
    <3>3. QED BY <3>1, <3>2, TwoAt DEF w, One
  <2> HIDE DEF d
  <2>15. m = One * x0 /\ x0 \in Int
    BY <1>10, <2>8, <2>14
  <2> HIDE DEF x0
  <2>16. v = One * x0 + h /\ h \in 0..(One - 1) /\ v \in Int
    BY <1>1, <1>2, <2>15
  <2>17. v \div One = x0
    BY <2>15, <2>16, <1>10, EuclidUnique
  <2>18. m % One = 0
    BY <2>15, Multiple
  <2>19. WholeBelow(g) = m
    BY <1>1, <2>13, <2>18 DEF WholeBelow
  <2>20. WholeBelow(v) = m
    BY <1>2, <2>15, <2>17, WholeBelowAt
  <2>21. QED BY <1>2, <1>3, <1>4, <2>19, <2>20
<1>14. QED BY <1>9, <1>12, <1>13

\* ceil and floor, on a number of units.
LEMMA CeilFloor ==
  ASSUME NEW n \in Int
  PROVE  /\ LET v == Signed(FromUnits(-WholeBelow(-n)).f) IN v % One = 0 /\ v - n \in 0..(One - 1)
         /\ LET v == Signed(FromUnits(WholeBelow(n)).f) IN v % One = 0 /\ n - v \in 0..(One - 1)
<1>1. /\ WholeBelow(n) \in Int /\ n \div One \in Int /\ WholeBelow(n) = One * (n \div One)
      /\ n - WholeBelow(n) = n % One /\ (n % One) \in 0..(One - 1)
  BY WholeBelowAt
<1> DEFINE a == WholeBelow(-n)
           b == WholeBelow(n)
<1>2. /\ a \in Int /\ (-n) \div One \in Int /\ a = One * ((-n) \div One)
      /\ -n - a = (-n) % One /\ ((-n) % One) \in 0..(One - 1)
  BY WholeBelowAt
<1>3. (-a) % One = 0 /\ b % One = 0
  BY <1>1, <1>2, Multiple
<1> HIDE DEF a, b
<1>4. Signed(FromUnits(-a).f) = -a /\ Signed(FromUnits(b).f) = b
  BY <1>1, <1>2, FromUnitsIs DEF b
<1>5. -a - n = -n - a
  BY <1>2
<1>6. QED BY <1>1, <1>2, <1>3, <1>4, <1>5 DEF a, b

\* round, on a sign and a magnitude.
LEMMA RoundHalfIs ==
  ASSUME NEW s \in {1, -1}, NEW m \in Mags, NEW v, v = DoubleVal(Float(s, WholeBelow(Round(m + One \div 2, 1))))
  PROVE  /\ Signed(v.f) % One = 0
         /\ v.f.mag - HalfAway(m) \in IF m + One \div 2 \in Mags THEN {0} ELSE {0, One}
<1> DEFINE a == m + One \div 2
           g == Round(a, 1)
           b == WholeBelow(g)
           c == WholeBelow(a)
           q == g \div One
<1>1. /\ a \in Nat /\ g \in Nat
      /\ a \in Mags => g = a
      /\ b = c \/ b = c + One
  BY HalfAdded
<1>2. b \in Nat /\ q \in Int /\ b = One * q
  BY <1>1, WholeBelowAt
<1>3. c \in Int
  BY <1>1, WholeBelowAt
<1>4. Signed(v.f) = s * b /\ v.f.mag = b
  BY <1>2, DoubleOf
<1>5. (One * q) % One = 0 /\ (-(One * q)) % One = 0
  BY <1>2, Multiple
<1>6. HalfAway(m) = c
  BY DEF HalfAway
<1>7. a \in Mags => b = c
  BY <1>1
<1> HIDE DEF b, c, q
<1>8. Signed(v.f) = b \/ Signed(v.f) = -b
  <2>1. s = 1 => s * b = b
    BY <1>2
  <2>2. s = -1 => s * b = -b
    BY <1>2
  <2>3. QED BY <1>4, <2>1, <2>2
<1>9. Signed(v.f) % One = 0
  BY <1>2, <1>5, <1>8
<1>10. b - c \in IF a \in Mags THEN {0} ELSE {0, One}
  BY <1>1, <1>2, <1>3, <1>7, OneNat DEF b, c
<1>11. QED BY <1>4, <1>6, <1>9, <1>10

LEMMA RoundingOperands ==
  ASSUME Called, op \in Roundings
  PROVE  x \in Operands /\ IsDouble(x)
<1>1. op \notin Arithmetic \cup Relations \cup Extremes \cup Shifts \cup BitOps
                   \cup {"%", "neg", "int", "uint", "double", "abs", "sign", "not"}
  BY DEF Arithmetic, Relations, Extremes, Roundings, Shifts, BitOps
<1>2. Calls(op) = Doubles \X {IntVal(0)}
  BY <1>1 DEF Calls
<1>3. x \in Doubles
  BY <1>2 DEF Called
<1>4. x.kind = "double"
  BY <1>3 DEF Doubles, DoubleVal
<1>5. QED BY <1>3, <1>4, OperandKinds DEF Operands, IsInt, IsUint

LEMMA WholeNumbersHold == ASSUME CallInv PROVE WholeNumbers
<1>1. SUFFICES ASSUME Done, op \in Roundings \ {"trunc"}, Finite(x.f) PROVE WholeNumbers
  BY DEF WholeNumbers
<1>2. Called /\ Answers(result)
  BY <1>1 DEF CallInv, Done
<1>3. x \in Operands /\ IsDouble(x)
  BY <1>1, <1>2, RoundingOperands
<1>4. result = Rounding(op, x.f)
  BY <1>1, <1>2 DEF Answers, Arithmetic, Relations, Roundings, Extremes, BitOps
<1> DEFINE s == x.f.sgn
           m == x.f.mag
           d == Signed(x.f) - Signed(result.f)
<1>5. s \in {1, -1} /\ m \in Mags /\ m \in Nat /\ Signed(x.f) = s * m /\ Signed(x.f) \in Int
  BY <1>1, <1>3, FiniteParts, DoubleParts
<1>6. CASE op = "ceil"
  <2>1. result = FromUnits(-WholeBelow(-Signed(x.f)))
    BY <1>1, <1>4, <1>6 DEF Rounding
  <2>2. Signed(result.f) % One = 0 /\ Signed(result.f) - Signed(x.f) \in 0..(One - 1)
    BY <1>5, <2>1, CeilFloor
  <2>3. Signed(result.f) \in Int
    <3>1. -WholeBelow(-Signed(x.f)) \in Int
      BY <1>5, WholeBelowAt
    <3>2. QED BY <2>1, <3>1, FromUnitsIs
  <2>4. -d = Signed(result.f) - Signed(x.f)
    BY <1>5, <2>3
  <2>5. QED BY <1>1, <1>6, <2>2, <2>4 DEF WholeNumbers
<1>7. CASE op = "floor"
  <2>1. result = FromUnits(WholeBelow(Signed(x.f)))
    BY <1>1, <1>4, <1>7 DEF Rounding
  <2>2. Signed(result.f) % One = 0 /\ d \in 0..(One - 1)
    BY <1>5, <2>1, CeilFloor
  <2>3. QED BY <1>1, <1>7, <2>2 DEF WholeNumbers
<1>8. CASE op = "round"
  <2>1. result = DoubleVal(Float(s, WholeBelow(Round(m + One \div 2, 1))))
    BY <1>1, <1>4, <1>8 DEF Rounding, RoundHalf
  <2>2. /\ Signed(result.f) % One = 0
        /\ result.f.mag - HalfAway(m) \in IF m + One \div 2 \in Mags THEN {0} ELSE {0, One}
    BY <1>5, <2>1, RoundHalfIs
  <2>3. QED BY <1>1, <1>8, <2>2 DEF WholeNumbers
<1>9. QED BY <1>1, <1>6, <1>7, <1>8 DEF Roundings

\* trunc.
\* Whole numbers of any size stay whole when they are rounded.
LEMMA WholeRound ==
  ASSUME NEW t \in Nat
  PROVE  t * One \in Nat /\ Round(t * One, 1) \in Nat /\ Round(t * One, 1) % One = 0
<1> DEFINE a == t * One
           k == Scale(a, 1)
           u == Pow2[k]
           n == Nearest(a, 1 * u)
           v == n * u
<1>1. One \in Nat /\ One >= 2 /\ a \in Nat
  BY OneNat
<1>2. k \in 0..E /\ n \in Nat
  BY <1>1, NearestInBinade
<1>3. Round(a, 1) = Clamp(v)
  BY RoundParts
<1>4. Round(a, 1) \in Nat
  BY <1>1, RoundMonotone
<1>5. k \in Nat /\ F \in Nat /\ E \in Nat /\ F <= E /\ P \in Nat
  BY <1>2, WidthFacts, Ranges
<1>6. u \in Nat /\ u >= 1
  BY <1>5, TwoAt
<1> HIDE DEF k
<1>7. \E c \in Nat : v = One * c
  <2>1. CASE F <= k
    <3> DEFINE z == Pow2[k - F]
    <3>1. k - F \in Nat /\ F + (k - F) = k
      BY <1>5, <2>1
    <3>2. z \in Nat /\ u = One * z
      BY <1>5, <3>1, TwoSum, TwoAt DEF One
    <3> HIDE DEF z, u, n
    <3>3. n * z \in Nat /\ n * u = One * (n * z)
      BY <1>1, <1>2, <3>2
    <3>4. QED BY <3>3
  <2>2. CASE k < F
    <3> DEFINE z == Pow2[F - k]
               q == t * z
    <3>1. F - k \in Nat /\ k + (F - k) = F
      BY <1>5, <2>2
    <3>2. z \in Nat /\ One = u * z
      BY <1>5, <3>1, TwoSum, TwoAt DEF One
    <3> HIDE DEF z, u
    <3>3. a = u * q + 0 /\ q \in Nat /\ a \in Int /\ 0 \in 0..(u - 1) /\ 1 * u = u
      BY <1>1, <1>6, <3>2
    <3> HIDE DEF a, q
    <3>4. a \div u = q /\ (a % u) = 0
      BY <1>6, <3>3, EuclidUnique
    <3>5. n = q
      BY <1>1, <1>6, <3>3, <3>4, NearestAt
    <3>6. v = One * t
      <4>1. v = q * u
        BY <3>5
      <4>2. q * u = t * One
        BY <1>1, <1>6, <3>3 DEF a
      <4>3. t * One = One * t
        BY <1>1
      <4>4. QED BY <4>1, <4>2, <4>3
    <3>7. QED BY <3>6
  <2>3. QED BY <1>5, <2>1, <2>2
<1>8. \E c \in Nat : Beyond = One * c
  <2> DEFINE z == Pow2[E - F]
  <2>1. E - F \in Nat /\ F + (E - F) = E
    BY <1>5
  <2>2. z \in Nat /\ Pow2[E] = One * z /\ Pow2[P] \in Nat
    BY <1>5, <2>1, TwoSum, TwoAt DEF One
  <2> HIDE DEF z
  <2>3. Beyond = One * (Pow2[P] * z) /\ Pow2[P] * z \in Nat
    BY <1>1, <2>2 DEF Beyond
  <2>4. QED BY <2>3
<1> HIDE DEF v
<1>9. \E c \in Nat : Round(a, 1) = One * c
  BY <1>3, <1>7, <1>8 DEF Clamp
<1>10. PICK c \in Nat : Round(a, 1) = One * c
  BY <1>9
<1>11. (One * c) % One = 0
  BY Multiple
<1>12. QED BY <1>1, <1>4, <1>10, <1>11

\* A rounded multiple is half a step away at most.
LEMMA NearestHalf ==
  ASSUME NEW a \in Nat, NEW s \in Nat, s > 0
  PROVE  2 * Abs(Nearest(a, s) * s - a) <= s
<1> DEFINE q == a \div s
           r == a % s
           n == Nearest(a, s)
<1>1. q \in Nat /\ r \in 0..(s - 1) /\ a = s * q + r
  BY Euclid
<1>2. n = IF 2 * r > s \/ (2 * r = s /\ q % 2 = 1) THEN q + 1 ELSE q
  BY DEF Nearest
<1> HIDE DEF q, r, n
<1>3. q * s \in Nat /\ s * q = q * s /\ (q + 1) * s = q * s + s
  BY <1>1
<1>4. CASE n = q
  <2>1. n * s - a = -r /\ 2 * r <= s
    BY <1>1, <1>2, <1>3, <1>4
  <2>2. QED BY <1>1, <2>1 DEF Abs, n
<1>5. CASE n = q + 1
  <2>1. n * s - a = s - r /\ 2 * r >= s
    BY <1>1, <1>2, <1>3, <1>5
  <2>2. QED BY <1>1, <2>1 DEF Abs, n
<1>6. QED BY <1>1, <1>2, <1>4, <1>5

LEMMA DigFacts ==
  /\ Dig \in Nat /\ Dig - 1 \in Nat
  /\ PowTen[Dig - 1] \in Nat /\ PowTen[Dig - 1] >= 1 /\ PowTen[Dig] = 10 * PowTen[Dig - 1]
  /\ PowTen[Dig] \in Nat /\ PowTen[Dig] >= 1
  /\ Pow2[P] \in Nat /\ PowTen[Dig] <= Pow2[P]
<1>1. Dig \in Nat /\ Dig - 1 \in Nat /\ (Dig - 1) + 1 = Dig /\ PowTen[Dig] <= Pow2[P]
  BY DigitsAssumption
<1>2. /\ PowTen[Dig - 1] \in Nat /\ PowTen[Dig - 1] >= 1 /\ PowTen[Dig] \in Nat /\ PowTen[Dig] >= 1
      /\ Pow2[P] \in Nat
  BY <1>1, TenAt, TwoAt, Ranges
<1>3. PowTen[(Dig - 1) + 1] = 10 * PowTen[Dig - 1]
  BY <1>1, PowersAre, PowersAt
<1>4. QED BY <1>1, <1>2, <1>3

\* The digits behind the point, when there are any.
LEMMA PlacesExist ==
  ASSUME NEW m \in Nat, m > 0, m < PowTen[Dig] * One
  PROVE  \E b \in 0..(F + Dig) : m * PowTen[b] < PowTen[Dig] * One /\ m * PowTen[b + 1] >= PowTen[Dig] * One
<1> DEFINE c == PowTen[Dig] * One
           T == {b \in 0..(F + Dig) : m * PowTen[b + 1] >= c}
<1>1. F \in Nat /\ Dig \in Nat /\ F + Dig \in Nat /\ One \in Nat /\ c \in Nat
  BY DigFacts, Ranges, OneNat
<1>2. F + Dig \in T
  <2>1. PowTen[F + Dig] = PowTen[F] * PowTen[Dig] /\ PowTen[(F + Dig) + 1] = 10 * PowTen[F + Dig]
    BY <1>1, TenSum, PowersAre, PowersAt
  <2>2. PowTen[F] \in Nat /\ PowTen[Dig] \in Nat /\ One <= PowTen[F] /\ PowTen[F + Dig] \in Nat
    BY <1>1, TenAt, TenAboveTwo DEF One
  <2>3. PowTen[F] * PowTen[Dig] >= One * PowTen[Dig] /\ One * PowTen[Dig] = c
    BY <1>1, <2>2
  <2>4. PowTen[(F + Dig) + 1] >= c /\ PowTen[(F + Dig) + 1] \in Nat
    BY <1>1, <2>1, <2>2, <2>3
  <2>5. m * PowTen[(F + Dig) + 1] >= PowTen[(F + Dig) + 1]
    BY <2>4
  <2>6. m * PowTen[(F + Dig) + 1] \in Nat
    BY <2>4
  <2> HIDE DEF c
  <2>7. m * PowTen[(F + Dig) + 1] >= c
    BY <1>1, <2>4, <2>5, <2>6
  <2>8. F + Dig \in 0..(F + Dig)
    BY <1>1
  <2>9. QED BY <2>7, <2>8 DEF c
<1>3. PICK b \in T : \A j \in T : b <= j
  <2>1. T \subseteq Nat
    OBVIOUS
  <2> HIDE DEF T
  <2>2. QED BY <1>2, <2>1, LeastOf
<1>4. b \in 0..(F + Dig) /\ m * PowTen[b + 1] >= c
  BY <1>3
<1>5. m * PowTen[b] < c
  <2>1. CASE b = 0
    <3>1. m * PowTen[b] = m
      BY <2>1, TenAt
    <3>2. QED BY <3>1
  <2>2. CASE b # 0
    <3>1. b - 1 \in 0..(F + Dig) /\ ~ (b <= b - 1) /\ (b - 1) + 1 = b /\ b \in Nat
      <4>1. b \in Nat /\ b <= F + Dig
        BY <1>1, <1>4
      <4>2. QED BY <1>1, <2>2, <4>1
    <3>2. b - 1 \notin T
      BY <1>3, <3>1
    <3>3. ~ (m * PowTen[b] >= c)
      BY <3>1, <3>2
    <3>4. m * PowTen[b] \in Nat
      BY <3>1, TenAt
    <3> HIDE DEF c
    <3> DEFINE v == m * PowTen[b]
    <3>6. v \in Nat /\ ~ (v >= c) /\ c \in Nat
      BY <1>1, <3>3, <3>4 DEF c
    <3> HIDE DEF v, c
    <3>7. v < c
      BY <3>6
    <3>5. QED BY <3>7 DEF v, c
  <2>3. QED BY <2>1, <2>2
<1>6. QED BY <1>4, <1>5

\* The zeros in front of it.
LEMMA ZerosExist ==
  ASSUME NEW m \in Nat, m <= MaxMag, m >= PowTen[Dig] * One
  PROVE  \E a \in 1..(P + E) : m < PowTen[Dig + a] * One /\ m >= PowTen[Dig + a - 1] * One
<1> DEFINE T == {a \in 0..(P + E) : m < PowTen[Dig + a] * One}
<1>1. P + E \in Nat /\ Dig \in Nat /\ One \in Nat /\ One >= 2
  BY DigFacts, Ranges, OneNat
<1>2. P + E \in T
  <2>1. m < Pow2[P + E] /\ Pow2[P + E] <= PowTen[P + E] /\ Pow2[P + E] \in Nat
    <3>1. m < Beyond /\ Beyond = Pow2[P + E] /\ Beyond \in Nat
      BY RangeEnds
    <3>2. QED BY <1>1, <3>1, TenAboveTwo
  <2>2. PowTen[Dig + (P + E)] = PowTen[Dig] * PowTen[P + E] /\ PowTen[P + E] \in Nat /\ PowTen[Dig] \in Nat /\ PowTen[Dig] >= 1
    BY <1>1, TenSum, TenAt
  <2> DEFINE d == PowTen[Dig]
             e == PowTen[P + E]
             o == One
  <2>3. d \in Nat /\ e \in Nat /\ o \in Nat /\ d >= 1 /\ o >= 1 /\ m < e
    BY <1>1, <2>1, <2>2
  <2> HIDE DEF d, e, o
  <2>4. d * e >= e /\ d * e \in Nat
    BY <2>3
  <2>5. (d * e) * o >= d * e /\ (d * e) * o \in Nat
    BY <2>3, <2>4
  <2>6. m < (d * e) * o
    BY <2>3, <2>4, <2>5
  <2>7. P + E \in 0..(P + E)
    BY <1>1
  <2>8. QED BY <2>2, <2>6, <2>7 DEF d, e, o
<1>3. PICK a \in T : \A j \in T : a <= j
  <2>1. T \subseteq Nat
    OBVIOUS
  <2> HIDE DEF T
  <2>2. QED BY <1>2, <2>1, LeastOf
<1>4. a \in 0..(P + E) /\ m < PowTen[Dig + a] * One /\ a \in Nat
  BY <1>3
<1>5. a # 0
  <2>1. SUFFICES ASSUME a = 0 PROVE FALSE
    OBVIOUS
  <2>2. PowTen[Dig + a] * One = PowTen[Dig] * One /\ PowTen[Dig] * One \in Nat
    BY <1>1, <2>1, TenAt
  <2>3. QED BY <1>4, <2>2
<1>6. a - 1 \in 0..(P + E) /\ ~ (a <= a - 1) /\ Dig + (a - 1) = Dig + a - 1 /\ a \in 1..(P + E)
  BY <1>1, <1>4, <1>5
<1>7. a - 1 \notin T
  BY <1>3, <1>6
<1>8. ~ (m < PowTen[Dig + a - 1] * One)
  BY <1>6, <1>7
<1>9. PowTen[Dig + a - 1] * One \in Nat
  <2>1. Dig + a - 1 \in Nat
    BY <1>1, <1>4, <1>5
  <2>2. QED BY <1>1, <2>1, TenAt
<1>10. m >= PowTen[Dig + a - 1] * One
  BY <1>8, <1>9
<1>11. QED BY <1>4, <1>6, <1>10

\* A common factor cancels.
LEMMA Cancel ==
  ASSUME NEW a \in Int, NEW b \in Int, NEW t \in Nat, t >= 1, a * t <= b * t
  PROVE  a <= b
<1>1. SUFFICES ASSUME b + 1 <= a PROVE FALSE
  OBVIOUS
<1>2. (b + 1) * t <= a * t /\ (b + 1) * t = b * t + t
  BY <1>1
<1>3. b * t \in Int /\ a * t \in Int
  OBVIOUS
<1>4. QED BY <1>2, <1>3

\* Below 10^Dig the cast leaves the whole part, or comes to the next one where
\* the digits do not tell the number from it.
LEMMA CastBelow ==
  ASSUME NEW m \in Nat, m < PowTen[Dig] * One,
         NEW t, t = WholeOfNumeric(m), NEW w, w = m \div One
  PROVE  /\ t \in Nat /\ w \in Nat /\ t <= PowTen[Dig]
         /\ t = w \/ (t = w + 1 /\ m % One # 0 /\ 2 * (t * One - m) * PowTen[Dig - 1] <= m)
<1>1. One \in Nat /\ One >= 2 /\ One > 0
  BY OneNat
<1> DEFINE r == m % One
<1>2. w \in Nat /\ r \in 0..(One - 1) /\ m = One * w + r
  BY EuclidOne
<1>3. PowTen[Dig] \in Nat /\ PowTen[Dig - 1] \in Nat /\ PowTen[Dig - 1] >= 1 /\ PowTen[Dig] = 10 * PowTen[Dig - 1] /\ Dig \in Nat
  BY DigFacts
<1>4. w < PowTen[Dig]
  <2>1. PowTen[Dig] * One = One * PowTen[Dig]
    BY <1>1, <1>3
  <2>2. QED BY <1>1, <1>3, <2>1, DivBelow
<1>5. CASE m = 0
  <2>1. t = 0
    BY <1>5 DEF WholeOfNumeric
  <2>2. w = 0
    <3>1. m < One * 1
      BY <1>1, <1>5
    <3>2. m \div One < 1
      BY <1>1, <3>1, DivBelow
    <3>3. QED BY <1>2, <3>2
  <2>3. QED BY <1>3, <2>1, <2>2
<1>6. CASE m # 0
  <2> DEFINE b == CHOOSE b \in 0..(F + Dig) : m * PowTen[b] < PowTen[Dig] * One /\ m * PowTen[b + 1] >= PowTen[Dig] * One
             p == PowTen[b]
             n == Nearest(m * p, One)
             q == (m * p) \div One
  <2>1. b \in 0..(F + Dig) /\ m * PowTen[b + 1] >= PowTen[Dig] * One
    <3>1. m > 0
      BY <1>6
    <3>2. \E j \in 0..(F + Dig) : m * PowTen[j] < PowTen[Dig] * One /\ m * PowTen[j + 1] >= PowTen[Dig] * One
      BY <3>1, PlacesExist
    <3>3. QED BY <3>2
  <2>2. t = n \div p
    BY <1>6 DEF WholeOfNumeric
  <2> HIDE DEF b
  <2>3. b \in Nat /\ p \in Nat /\ p >= 1 /\ PowTen[b + 1] = 10 * p
    <3>1. b \in Nat
      BY <1>3, <2>1, Ranges
    <3>2. QED BY <3>1, TenAt, PowersAre, PowersAt
  <2> HIDE DEF p, r
  <2>4. m * p \in Nat /\ m * p = One * (w * p) + r * p /\ w * p \in Nat /\ r * p \in Nat /\ (w + 1) * p = w * p + p
    BY <1>1, <1>2, <2>3
  <2>5. q \in Nat /\ w * p <= q /\ q < (w + 1) * p
    <3>1. q \in Nat
      BY <1>1, <2>4, Euclid
    <3>2. One * (w * p) \in Nat /\ ~ (m * p < One * (w * p))
      BY <1>1, <2>4
    <3>3. ~ (q < w * p)
      BY <1>1, <2>4, <3>2, DivBelow
    <3>4. m * p < One * ((w + 1) * p)
      <4>1. m < One * (w + 1)
        BY <1>1, <1>2
      <4>2. m + 1 <= One * (w + 1) /\ One * (w + 1) \in Nat
        BY <1>1, <1>2, <4>1
      <4> DEFINE c == One * (w + 1)
      <4>3. c \in Nat /\ m + 1 <= c
        BY <4>2
      <4> HIDE DEF c
      <4>4. (m + 1) * p <= c * p /\ (m + 1) * p = m * p + p /\ c * p \in Nat
        BY <2>3, <4>3
      <4>5. c * p = One * ((w + 1) * p)
        BY <1>1, <1>2, <2>3 DEF c
      <4>6. m * p < c * p
        BY <2>3, <2>4, <4>4
      <4>7. QED BY <4>5, <4>6
    <3>5. (w + 1) * p \in Nat
      BY <2>3, <2>4
    <3>6. q < (w + 1) * p
      BY <1>1, <2>4, <3>4, <3>5, DivBelow
    <3>7. QED BY <2>4, <3>1, <3>3, <3>6
  <2>6. n \in Nat /\ (n = q \/ n = q + 1)
    BY <1>1, <2>4, NearestAt
  <2> HIDE DEF q, n
  <2>7. n \in Nat /\ w * p <= n /\ n <= (w + 1) * p
    BY <2>3, <2>4, <2>5, <2>6
  <2>8. CASE n = (w + 1) * p
    <3>1. t = w + 1
      <4> DEFINE v == w + 1
      <4>5. w \in Nat
        BY <1>2
      <4>6. v \in Int
        BY <4>5
      <4>7. n = v * p
        BY <2>8
      <4>0. v \in Int /\ n = v * p
        BY <4>6, <4>7
      <4> HIDE DEF v
      <4>3. v * p = p * v + 0
        BY <2>3, <4>0
      <4>1. n = p * v + 0 /\ n \in Int /\ v \in Int /\ 0 \in 0..(p - 1)
        BY <2>3, <2>7, <4>0, <4>3
      <4>4. n \div p = v
        BY <2>3, <4>1, EuclidUnique
      <4>2. QED BY <2>2, <4>4 DEF v
    <3>2. 2 * Abs(n * One - m * p) <= One
      BY <1>1, <2>4, NearestHalf DEF n
    <3> DEFINE e == t * One - m
    <3>3. n * One - m * p = e * p /\ e \in Int
      BY <1>1, <1>2, <2>3, <2>8, <3>1
    <3> HIDE DEF e
    <3>4. e >= 0
      BY <1>1, <1>2, <3>1 DEF e
    <3>5. 2 * (e * p) <= One
      <4>1. e * p >= 0 /\ e * p \in Int
        BY <2>3, <3>3, <3>4
      <4>2. QED BY <3>2, <3>3, <4>1 DEF Abs
    <3> DEFINE d == PowTen[Dig - 1]
    <3>6. d \in Nat /\ d >= 1 /\ PowTen[Dig] = 10 * d
      BY <1>3
    <3> HIDE DEF d
    <3>7. m * p >= d * One
      <4>1. m * (10 * p) >= (10 * d) * One
        BY <2>1, <2>3, <3>6
      <4>2. m * (10 * p) = 10 * (m * p) /\ (10 * d) * One = 10 * (d * One) /\ d * One \in Nat
        BY <1>1, <2>3, <3>6
      <4>3. QED BY <2>4, <4>1, <4>2
    <3>8. (2 * e * d) * p <= m * p
      <4> DEFINE f == 2 * (e * p)
      <4>1. f \in Int /\ f <= One
        BY <2>3, <3>3, <3>5
      <4>2. (2 * e * d) * p = d * f
        BY <2>3, <3>3, <3>6
      <4> HIDE DEF f
      <4>3. d * f <= d * One
        BY <1>1, <3>6, <4>1
      <4>4. d * f \in Int /\ d * One \in Int
        BY <1>1, <3>6, <4>1
      <4>5. QED BY <2>4, <3>7, <4>2, <4>3, <4>4
    <3>9. 2 * e * d \in Int /\ m \in Int
      BY <3>3, <3>6
    <3>10. 2 * e * d <= m
      BY <2>3, <3>8, <3>9, Cancel
    <3>11. r # 0
      <4>1. SUFFICES ASSUME r = 0 PROVE FALSE
        OBVIOUS
      <4>2. m * p = One * (w * p) + 0 /\ m * p \in Int /\ w * p \in Int /\ 0 \in 0..(One - 1)
        BY <1>1, <2>3, <2>4, <4>1
      <4>3. (m * p) \div One = w * p /\ ((m * p) % One) = 0
        BY <1>1, <4>2, EuclidUnique
      <4>4. n = w * p
        BY <1>1, <2>4, <4>3, NearestAt DEF n
      <4>5. QED BY <2>3, <2>4, <2>8, <4>4
    <3>12. QED BY <1>2, <1>3, <1>4, <3>1, <3>10, <3>11 DEF e, d, r
  <2>9. CASE n # (w + 1) * p
    <3>1. (w + 1) * p \in Nat /\ w * p = p * w /\ (w + 1) * p = p * (w + 1)
      BY <1>2, <2>3, <2>4
    <3>2. n < p * (w + 1) /\ ~ (n < p * w)
      BY <2>4, <2>7, <2>9, <3>1
    <3>3. n \div p < w + 1 /\ ~ (n \div p < w)
      BY <1>2, <2>3, <2>7, <3>2, DivBelow
    <3>4. n \div p \in Nat
      BY <2>3, <2>7, Euclid
    <3>5. t = w
      BY <1>2, <2>2, <3>3, <3>4
    <3>6. QED BY <1>2, <1>3, <1>4, <3>5
  <2>10. QED BY <2>8, <2>9
<1>7. QED BY <1>5, <1>6

\* From there on it moves the number by half its last digit at most.
LEMMA CastAbove ==
  ASSUME NEW m \in Nat, m <= MaxMag, m >= PowTen[Dig] * One,
         NEW t, t = WholeOfNumeric(m)
  PROVE  t \in Nat /\ 2 * Abs(t * One - m) * PowTen[Dig - 1] <= m
<1> DEFINE a == CHOOSE a \in 1..(P + E) : m < PowTen[Dig + a] * One /\ m >= PowTen[Dig + a - 1] * One
           p == PowTen[a]
           d == PowTen[Dig - 1]
           s == One * p
           n == Nearest(m, s)
<1>1. a \in 1..(P + E) /\ m >= PowTen[Dig + a - 1] * One
  <2>1. \E j \in 1..(P + E) : m < PowTen[Dig + j] * One /\ m >= PowTen[Dig + j - 1] * One
    BY ZerosExist
  <2>2. QED BY <2>1
<1>2. /\ One \in Nat /\ One >= 2 /\ Dig \in Nat /\ Dig - 1 \in Nat /\ d \in Nat /\ d >= 1
      /\ PowTen[Dig] \in Nat /\ PowTen[Dig] >= 1
  BY OneNat, DigFacts
<1>3. t = n * p
  <2>1. PowTen[Dig] * One \in Nat /\ PowTen[Dig] * One >= 1
    BY <1>2
  <2>2. m # 0 /\ ~ (m < PowTen[Dig] * One)
    BY <2>1
  <2>3. QED BY <2>2 DEF WholeOfNumeric
<1> HIDE DEF a
<1>4. a \in Nat /\ p \in Nat /\ p >= 1 /\ (Dig - 1) + a = Dig + a - 1
  <2>1. a \in Nat
    BY <1>1, Ranges
  <2>2. QED BY <1>2, <2>1, TenAt
<1>5. PowTen[(Dig - 1) + a] = d * p
  BY <1>2, <1>4, TenSum
<1> HIDE DEF p, d
<1>6. s \in Nat /\ s > 0
  BY <1>2, <1>4
<1>7. m >= d * s
  <2>1. m >= (d * p) * One
    BY <1>1, <1>4, <1>5
  <2>2. (d * p) * One = d * s
    BY <1>2, <1>4
  <2>3. QED BY <2>1, <2>2
<1>8. n \in Nat /\ 2 * Abs(n * s - m) <= s
  BY <1>6, NearestAt, NearestHalf
<1> HIDE DEF n
<1>9. t \in Nat /\ t * One = n * s
  BY <1>2, <1>3, <1>4, <1>8
<1> DEFINE e == Abs(t * One - m)
<1>10. e \in Nat /\ 2 * e <= s
  <2>1. t * One - m \in Int
    BY <1>2, <1>9
  <2>2. e \in Nat
    BY <2>1, Signs
  <2>3. QED BY <1>8, <1>9, <2>2
<1> HIDE DEF e, s
<1>11. 2 * e * d <= s * d /\ s * d = d * s /\ d * s \in Nat /\ 2 * e * d \in Nat
  BY <1>2, <1>6, <1>10
<1>12. 2 * e * d <= m
  BY <1>7, <1>11
<1>13. QED BY <1>9, <1>12 DEF e, d

\* What comes back from the cast.
LEMMA CastWhole ==
  ASSUME NEW s \in {1, -1}, NEW t \in Nat, NEW v, v = Cast(s, t * One, 1),
         NEW r, r = IF v = Raised THEN Beyond ELSE v.f.mag
  PROVE  /\ r = Round(t * One, 1) /\ r \in Nat /\ r % One = 0
         /\ v = Raised <=> r = Beyond
         /\ v # Raised /\ r # 0 => v.f.sgn = s
<1> DEFINE a == t * One
           g == Round(a, 1)
<1>1. a \in Nat /\ g \in Nat /\ g % One = 0 /\ One \in Nat /\ One >= 2
  BY WholeRound, OneNat
<1>2. g = 0 <=> 2 * a <= 1
  BY <1>1, RoundLow
<1>3. v = IF a = 0 THEN DoubleVal(Float(1, 0))
          ELSE IF g \in {0, Beyond} THEN Raised ELSE DoubleVal(Float(s, g))
  BY DEF Cast
<1>4. Beyond \in Nat /\ Beyond > 0
  BY RangeEnds
<1>5. \A f : DoubleVal(f) # Raised
  BY DEF DoubleVal, Raised
<1> HIDE DEF a, g
<1>6. CASE a = 0
  <2>1. g = 0 /\ v = DoubleVal(Float(1, 0))
    BY <1>1, <1>2, <1>3, <1>6
  <2>2. v.f.mag = 0
    BY <2>1 DEF DoubleVal, Float
  <2>3. v # Raised /\ r = 0
    BY <1>5, <2>1, <2>2
  <2>4. QED BY <1>1, <1>4, <2>1, <2>3 DEF g, a
<1>7. CASE a # 0 /\ g = Beyond
  <2>1. v = Raised /\ r = Beyond
    BY <1>3, <1>7
  <2>2. QED BY <1>1, <1>7, <2>1 DEF g, a
<1>8. CASE a # 0 /\ g # Beyond
  <2>1. g # 0
    BY <1>1, <1>2, <1>8
  <2>2. v = DoubleVal(Float(s, g))
    BY <1>3, <1>8, <2>1
  <2>3. v.f.mag = g /\ v.f.sgn = s
    BY <2>1, <2>2 DEF DoubleVal, Float
  <2>4. v # Raised /\ r = g
    BY <1>5, <2>2, <2>3
  <2>5. QED BY <1>1, <1>8, <2>3, <2>4 DEF g, a
<1>9. QED BY <1>6, <1>7, <1>8

\* Whole numbers up to 2^P are doubles.
LEMMA SmallWhole ==
  ASSUME NEW t \in Nat, t <= Pow2[P]
  PROVE  t * One \in Nat /\ Round(t * One, 1) = t * One /\ t * One <= MaxMag
<1>1. F \in 0..E /\ F + 1 \in 0..E /\ F \in Nat /\ P \in Nat /\ P - 1 \in Nat /\ (P - 1) + 1 = P
  BY WidthFacts, Ranges
<1>2. Pow2[P] \in Nat /\ Pow2[P - 1] \in Nat /\ Pow2[P - 1] >= 1 /\ Pow2[F] \in Nat
  BY <1>1, TwoAt
<1>3. Pow2[P] = 2 * Pow2[P - 1] /\ Pow2[F + 1] = 2 * Pow2[F]
  BY <1>1, TwoStep
<1>4. CASE t < Pow2[P]
  BY <1>1, <1>4, RoundExact DEF One
<1>5. CASE t = Pow2[P]
  <2>1. t * One = Pow2[P - 1] * Pow2[F + 1]
    BY <1>2, <1>3, <1>5 DEF One
  <2>2. Pow2[P - 1] < Pow2[P]
    BY <1>2, <1>3
  <2>3. QED BY <1>1, <1>2, <2>1, <2>2, RoundExact
<1>6. QED BY <1>2, <1>4, <1>5

LEMMA TruncHolds == ASSUME CallInv PROVE TruncNearlyExact
<1> DEFINE m == x.f.mag
           r == IF result = Raised THEN Beyond ELSE result.f.mag
           d == PowTen[Dig - 1]
<1>1. SUFFICES ASSUME Done, op = "trunc", Finite(x.f)
               PROVE  /\ r % One = 0
                      /\ result # Raised /\ r # 0 => result.f.sgn = x.f.sgn
                      /\ IF m < PowTen[Dig] * One
                           THEN /\ result # Raised
                                /\ \/ r = WholeBelow(m)
                                   \/ r = WholeBelow(m) + One /\ m # WholeBelow(m) /\ 2 * (Abs(r - m) * d) <= m
                           ELSE Abs(r - m) * d <= m
  BY DEF TruncNearlyExact
<1>2. Called /\ Answers(result) /\ op \in Roundings
  BY <1>1 DEF CallInv, Done, Roundings
<1>3. x \in Operands /\ IsDouble(x)
  BY <1>2, RoundingOperands
<1>4. result = Rounding(op, x.f)
  BY <1>1, <1>2 DEF Answers, Arithmetic, Relations, Roundings, Extremes, BitOps
<1>5. x.f.sgn \in {1, -1} /\ m \in Mags /\ m \in Nat /\ m <= MaxMag
  BY <1>1, <1>3, FiniteParts, MagParts
<1> DEFINE t == WholeOfNumeric(m)
           w == m \div One
<1>6. result = Cast(x.f.sgn, t * One, 1)
  BY <1>1, <1>4 DEF Rounding
<1>7. One \in Nat /\ One >= 2 /\ d \in Nat /\ d >= 1 /\ PowTen[Dig] \in Nat /\ Pow2[P] \in Nat /\ PowTen[Dig] <= Pow2[P]
  BY OneNat, DigFacts
<1>8. WholeBelow(m) = One * w /\ m - WholeBelow(m) = m % One
  <2>1. m \in Int
    BY <1>5
  <2>2. QED BY <2>1, WholeBelowAt
<1>9. CASE m < PowTen[Dig] * One
  <2>1. /\ t \in Nat /\ w \in Nat /\ t <= PowTen[Dig]
        /\ t = w \/ (t = w + 1 /\ m % One # 0 /\ 2 * (t * One - m) * d <= m)
    BY <1>5, <1>9, CastBelow
  <2>2. t <= Pow2[P]
    BY <1>7, <2>1
  <2>3. /\ r = Round(t * One, 1) /\ r \in Nat /\ r % One = 0
        /\ result = Raised <=> r = Beyond
        /\ result # Raised /\ r # 0 => result.f.sgn = x.f.sgn
    BY <1>5, <1>6, <2>1, CastWhole
  <2>4. r = t * One /\ r <= MaxMag
    BY <2>1, <2>2, <2>3, SmallWhole
  <2>5. result # Raised
    BY <2>3, <2>4, RangeEnds
  <2> HIDE DEF r, w, t, d, m
  <2>6. CASE t = w
    <3>1. r = WholeBelow(m)
      BY <1>7, <1>8, <2>1, <2>4, <2>6
    <3>2. QED BY <1>9, <2>3, <2>5, <3>1 DEF r
  <2>7. CASE t = w + 1 /\ m % One # 0 /\ 2 * (t * One - m) * d <= m
    <3>1. r = WholeBelow(m) + One
      BY <1>7, <1>8, <2>1, <2>4, <2>7
    <3>2. m # WholeBelow(m)
      BY <1>5, <1>8, <2>7
    <3>3. Abs(r - m) = r - m
      <4>1. m % One \in 0..(One - 1)
        BY <1>5, EuclidOne
      <4>2. WholeBelow(m) \in Int
        BY <1>7, <1>8, <2>1
      <4>3. r - m >= 0
        BY <1>5, <1>7, <1>8, <2>3, <3>1, <4>1, <4>2
      <4>4. QED BY <1>5, <2>3, <4>3 DEF Abs
    <3>4. 2 * ((r - m) * d) <= m
      <4>1. 2 * (r - m) * d = 2 * ((r - m) * d)
        BY <1>5, <1>7, <2>3
      <4>2. QED BY <2>4, <2>7, <4>1
    <3>5. QED BY <1>9, <2>3, <2>5, <3>1, <3>2, <3>3, <3>4 DEF r
  <2>8. QED BY <2>1, <2>6, <2>7 DEF w
<1>10. CASE ~ (m < PowTen[Dig] * One)
  <2>1. PowTen[Dig] * One \in Nat
    BY <1>7
  <2>2. t \in Nat /\ 2 * Abs(t * One - m) * d <= m
    BY <1>5, <1>10, <2>1, CastAbove
  <2>3. /\ r = Round(t * One, 1) /\ r \in Nat /\ r % One = 0
        /\ result # Raised /\ r # 0 => result.f.sgn = x.f.sgn
    BY <1>5, <1>6, <2>2, CastWhole
  <2> DEFINE a == t * One
  <2>4. a \in Nat
    BY <1>7, <2>2
  <2>5. Abs(Round(a, 1) * 1 - a) <= Abs(m * 1 - a)
    BY <1>5, <2>4, RoundClosest
  <2>6. Abs(r * 1 - a) <= Abs(m * 1 - a)
    BY <2>3, <2>5
  <2> HIDE DEF r, t, d, m, a
  <2> DEFINE e == Abs(a - m)
  <2>7. e \in Nat /\ Abs(r - m) \in Nat
    <3>1. a - m \in Int /\ r - m \in Int
      BY <1>5, <2>3, <2>4
    <3>2. QED BY <3>1, Signs
  <2>8. Abs(r - m) <= 2 * e
    <3>1. r * 1 = r /\ m * 1 = m
      BY <1>5, <2>3
    <3>2. Abs(r - a) <= Abs(m - a)
      BY <2>6, <3>1
    <3>3. QED BY <1>5, <2>3, <2>4, <3>2 DEF Abs
  <2>9. 2 * e * d <= m
    BY <2>2 DEF a
  <2> DEFINE z == Abs(r - m)
  <2> HIDE DEF e, z
  <2>10. z * d <= (2 * e) * d /\ (2 * e) * d = 2 * e * d /\ z * d \in Nat /\ 2 * e * d \in Nat
    BY <1>7, <2>7, <2>8 DEF z
  <2>11. Abs(r - m) * d <= m
    BY <1>5, <2>9, <2>10 DEF z
  <2>12. QED BY <1>10, <2>3, <2>11 DEF r, m
<1>11. QED BY <1>9, <1>10

-----------------------------------------------------------------------------
(***************************************************************************)
(* The relations.                                                          *)
(***************************************************************************)
\* Rounding keeps signed numbers, in units, in their order.
LEMMA SignedMonotone ==
  ASSUME NEW a \in Int, NEW b \in Int, a <= b
  PROVE  Sgn(a) * Round(Abs(a), 1) <= Sgn(b) * Round(Abs(b), 1)
<1> DEFINE R(n) == Round(Abs(n), 1)
<1>1. Abs(a) \in Nat /\ Abs(b) \in Nat
  BY Signs
<1>2. R(a) \in Nat /\ R(b) \in Nat
  BY <1>1, RoundMonotone
<1>3. (Abs(a) <= Abs(b) => R(a) <= R(b)) /\ (Abs(b) <= Abs(a) => R(b) <= R(a))
  BY <1>1, RoundMonotone
<1> HIDE DEF R
<1>4. CASE a >= 0
  <2>1. Sgn(a) = 1 /\ Sgn(b) = 1 /\ Abs(a) = a /\ Abs(b) = b
    BY <1>4 DEF Sgn, Abs
  <2>2. QED BY <1>2, <1>3, <2>1 DEF R
<1>5. CASE a < 0 /\ b >= 0
  <2>1. Sgn(a) = -1 /\ Sgn(b) = 1
    BY <1>5 DEF Sgn
  <2>2. QED BY <1>2, <2>1 DEF R
<1>6. CASE b < 0
  <2>1. Sgn(a) = -1 /\ Sgn(b) = -1 /\ Abs(a) = -a /\ Abs(b) = -b
    BY <1>6 DEF Sgn, Abs
  <2>2. QED BY <1>2, <1>3, <2>1 DEF R
<1>7. QED BY <1>4, <1>5, <1>6

\* Widening is rounding of the number in units.
LEMMA WidenUnits ==
  ASSUME NEW n \in Int
  PROVE  /\ n * One \in Int /\ Abs(n * One) = Abs(n) * Pow2[F] /\ Abs(n * One) \in Nat
         /\ Sgn(n * One) = Sgn(n) /\ Sgn(n) \in {1, -1}
         /\ Widen(n) = Sgn(n * One) * Round(Abs(n * One), 1)
<1>1. One \in Nat /\ One > 0
  BY OneNat
<1>2. n * One \in Int /\ (n < 0 <=> n * One < 0)
  <2>1. n < 0 => n * One < 0
    BY <1>1
  <2>2. n >= 0 => n * One >= 0
    BY <1>1
  <2>3. n * One \in Int
    BY <1>1
  <2>4. QED BY <2>1, <2>2, <2>3
<1>3. Sgn(n * One) = Sgn(n) /\ Sgn(n) \in {1, -1}
  BY <1>2 DEF Sgn
<1>4. Abs(n * One) = Abs(n) * One
  <2>1. (-n) * One = -(n * One)
    BY <1>1
  <2>2. QED BY <1>2, <2>1 DEF Abs
<1>5. Abs(n * One) \in Nat
  BY <1>2, Signs
<1>6. QED BY <1>2, <1>3, <1>4, <1>5 DEF Widen, One

LEMMA ZeroInMags == 0 \in Mags
<1>1. 0 \in 0..E /\ 0 \in Nat /\ Pow2[0] = 1 /\ Pow2[P] \in Nat /\ Pow2[P] >= 1
  BY Ranges, TwoAt
<1>2. (0 % 1) = 0 /\ 0 \div 1 = 0
  OBVIOUS
<1>3. 0 \in 0..MaxMag
  BY RangeEnds
<1>4. QED BY <1>1, <1>2, <1>3 DEF Mags

\* No double is nearer to a whole number than what it is widened to.
LEMMA WidenClosest ==
  ASSUME NEW n \in Int, NEW m \in Mags, NEW s \in {1, -1}
  PROVE  Abs(Widen(n) - n * One) <= Abs(s * m - n * One)
<1> DEFINE a == Abs(n * One)
           g == Round(a, 1)
           z == n * One
<1>1. z \in Int /\ a \in Nat /\ Sgn(z) \in {1, -1} /\ Widen(n) = Sgn(z) * g
  BY WidenUnits
<1>2. m \in Nat /\ g \in Nat
  BY <1>1, MagParts, RoundMonotone
<1>3. Abs(g * 1 - a) <= Abs(m * 1 - a) /\ Abs(g * 1 - a) <= Abs(0 * 1 - a)
  BY <1>1, ZeroInMags, RoundClosest
<1> HIDE DEF g
<1>4. Abs(g - a) <= Abs(m - a) /\ Abs(g - a) <= a
  <2>1. g * 1 = g /\ m * 1 = m /\ 0 * 1 = 0
    BY <1>2
  <2>2. Abs(0 - a) = a
    BY <1>1 DEF Abs
  <2>3. QED BY <1>3, <2>1, <2>2
<1>5. a = IF z < 0 THEN -z ELSE z
  BY DEF Abs
<1>6. Sgn(z) = IF z < 0 THEN -1 ELSE 1
  BY DEF Sgn
<1> HIDE DEF a, z
<1>7. Abs(Sgn(z) * g - z) <= Abs(s * m - z)
  <2>1. CASE z < 0 /\ s = 1
    BY <1>1, <1>2, <1>4, <1>5, <1>6, <2>1 DEF Abs
  <2>2. CASE z < 0 /\ s = -1
    BY <1>1, <1>2, <1>4, <1>5, <1>6, <2>2 DEF Abs
  <2>3. CASE z >= 0 /\ s = 1
    BY <1>1, <1>2, <1>4, <1>5, <1>6, <2>3 DEF Abs
  <2>4. CASE z >= 0 /\ s = -1
    BY <1>1, <1>2, <1>4, <1>5, <1>6, <2>4 DEF Abs
  <2>5. QED BY <1>1, <2>1, <2>2, <2>3, <2>4
<1>8. QED BY <1>1, <1>7 DEF z

\* Whole numbers lie within the range of the doubles, and so does what they
\* are widened to.
LEMMA WholeInRange ==
  ASSUME NEW n \in MinInt..MaxUint
  PROVE  /\ n \in Int /\ n * One \in Int /\ Widen(n) \in Int
         /\ -Beyond < n * One /\ n * One < Beyond /\ -Beyond < Widen(n) /\ Widen(n) < Beyond
<1> DEFINE b == Pow2[P + E - 1]
           a == Abs(n * One)
<1>1. n \in Int /\ Abs(n) < Pow2[W] /\ W \in Nat /\ Pow2[W] \in Nat
  <2>1. W \in Nat /\ W - 1 \in Nat /\ W = (W - 1) + 1
    BY WidthFacts
  <2>2. Pow2[W] \in Nat /\ Pow2[W] >= 1 /\ Pow2[W - 1] \in Nat /\ Pow2[W] = 2 * Pow2[W - 1] /\ Pow2[W - 1] >= 1
    BY <2>1, TwoAt, TwoStep
  <2>3. n \in Int /\ -Pow2[W - 1] <= n /\ n <= Pow2[W] - 1
    BY <2>2 DEF MinInt, MaxUint
  <2>4. QED BY <2>1, <2>2, <2>3 DEF Abs
<1>2. F \in Nat /\ W + F \in Nat /\ P + E - 1 \in Nat /\ W + F <= P + E - 1 /\ P - 1 \in Nat /\ E \in Nat /\ (P - 1) + E = P + E - 1
  BY <1>1, WidthAssumption, Ranges
<1>3. a < b /\ a \in Nat /\ b \in Nat
  <2>1. a = Abs(n) * Pow2[F] /\ a \in Nat
    BY <1>1, WidenUnits
  <2>2. Pow2[F] \in Nat /\ Pow2[F] >= 1 /\ b \in Nat /\ Abs(n) \in Nat
    BY <1>1, <1>2, TwoAt, Signs
  <2>3. Abs(n) * Pow2[F] < Pow2[W] * Pow2[F]
    <3> DEFINE u == Pow2[F]
               v == Pow2[W]
               c == Abs(n)
    <3>1. u \in Nat /\ u >= 1 /\ v \in Nat /\ c \in Nat /\ c + 1 <= v
      BY <1>1, <2>2
    <3> HIDE DEF u, v, c
    <3>2. (c + 1) * u <= v * u /\ (c + 1) * u = c * u + u /\ c * u \in Nat /\ v * u \in Nat
      BY <3>1
    <3>3. c * u < v * u
      BY <3>1, <3>2
    <3>4. QED BY <3>3 DEF u, v, c
  <2>4. Pow2[W] * Pow2[F] = Pow2[W + F] /\ Pow2[W + F] <= b /\ Pow2[W + F] \in Nat
    BY <1>1, <1>2, TwoSum, TwoOrdered, TwoAt
  <2>5. QED BY <2>1, <2>2, <2>3, <2>4
<1>4. Round(b, 1) = b /\ b < Beyond /\ Beyond \in Nat
  <2>1. Pow2[P - 1] \in Nat /\ Pow2[P - 1] < Pow2[P] /\ b = Pow2[P - 1] * Pow2[E]
    <3>1. P \in Nat /\ (P - 1) + 1 = P
      BY Ranges
    <3>2. Pow2[P - 1] \in Nat /\ Pow2[P - 1] >= 1 /\ Pow2[P] = 2 * Pow2[P - 1]
      BY <1>2, <3>1, TwoAt, TwoStep
    <3>3. b = Pow2[P - 1] * Pow2[E]
      BY <1>2, TwoSum
    <3>4. QED BY <3>2, <3>3
  <2>2. E \in 0..E
    BY <1>2
  <2>3. Round(b, 1) = b /\ b <= MaxMag
    BY <2>1, <2>2, RoundExact
  <2>4. QED BY <1>3, <2>3, RangeEnds
<1>5. Round(a, 1) <= b /\ Round(a, 1) \in Nat
  <2> HIDE DEF a, b
  <2>1. a <= b /\ 1 \in Nat /\ 1 > 0
    BY <1>3
  <2>2. QED BY <1>3, <1>4, <2>1, RoundMonotone DEF b
<1>6. n * One \in Int /\ Widen(n) = Sgn(n * One) * Round(a, 1) /\ Sgn(n * One) \in {1, -1}
  BY <1>1, WidenUnits
<1> DEFINE g == Round(a, 1)
<1> HIDE DEF g
<1>7. -b <= Widen(n) /\ Widen(n) <= b /\ Widen(n) \in Int
  <2>1. g \in Nat /\ g <= b /\ (Widen(n) = g \/ Widen(n) = -g)
    <3>1. 1 * g = g /\ (-1) * g = -g
      BY <1>5 DEF g
    <3>2. QED BY <1>5, <1>6, <3>1 DEF g
  <2> HIDE DEF b
  <2>2. QED BY <1>3, <2>1 DEF b
<1>8. -b < n * One /\ n * One < b
  <2> HIDE DEF b
  <2>1. QED BY <1>3, <1>6 DEF a, b, Abs
<1>9. QED BY <1>1, <1>3, <1>4, <1>6, <1>7, <1>8

\* A double that does not equal what a whole number is widened to lies on the
\* same side of the number itself.
LEMMA WidenSide ==
  ASSUME NEW v, IsDouble(v), v.f # NaN, NEW n \in MinInt..MaxUint
  PROVE  /\ Signed(v.f) < Widen(n) => Signed(v.f) < n * One
         /\ Signed(v.f) > Widen(n) => Signed(v.f) > n * One
<1> DEFINE g == Signed(v.f)
           z == n * One
           w == Widen(n)
<1>1. /\ n \in Int /\ z \in Int /\ w \in Int
      /\ -Beyond < z /\ z < Beyond /\ -Beyond < w /\ w < Beyond
  BY WholeInRange
<1>2. v.f.sgn \in {1, -1} /\ v.f.mag \in Mags \cup {Beyond} /\ g = v.f.sgn * v.f.mag /\ g \in Int
  BY DoubleParts DEF IsDouble, Signed
<1>3. w = Sgn(z) * Round(Abs(z), 1)
  BY <1>1, WidenUnits
<1>4. CASE v.f.mag = Beyond
  <2>1. Beyond \in Nat
    BY RangeEnds
  <2>2. g = Beyond \/ g = -Beyond
    <3>1. 1 * Beyond = Beyond /\ (-1) * Beyond = -Beyond
      BY <2>1
    <3>2. QED BY <1>2, <1>4, <3>1
  <2> HIDE DEF g, z, w
  <2>3. (g < w => g < z) /\ (g > w => g > z)
    BY <1>1, <2>1, <2>2
  <2>4. QED BY <2>3 DEF g, z, w
<1>5. CASE v.f.mag \in Mags
  <2>1. v.f.mag \in Nat /\ Round(v.f.mag, 1) = v.f.mag
    <3>1. PICK k \in 0..E : \E c \in Nat : c < Pow2[P] /\ v.f.mag = c * Pow2[k]
      BY <1>5, MagParts
    <3>2. QED BY <1>5, <3>1, MagParts, RoundExact
  <2>2. Abs(g) = v.f.mag /\ (v.f.mag # 0 => Sgn(g) = v.f.sgn)
    BY <1>2, <2>1, SignedNumber
  <2>3. Sgn(g) * Round(Abs(g), 1) = g
    <3>1. CASE v.f.mag # 0
      BY <1>2, <2>1, <2>2, <3>1
    <3>2. CASE v.f.mag = 0
      <4>1. g = 0 /\ Round(Abs(g), 1) = 0 /\ Sgn(g) = 1
        BY <1>2, <2>1, <2>2, <3>2 DEF Sgn
      <4>2. QED BY <4>1
    <3>3. QED BY <3>1, <3>2
  <2> HIDE DEF g, z, w
  <2>4. z <= g => w <= g
    BY <1>1, <1>2, <1>3, <2>3, SignedMonotone
  <2>5. g <= z => g <= w
    BY <1>1, <1>2, <1>3, <2>3, SignedMonotone
  <2>6. (g < w => g < z) /\ (g > w => g > z)
    BY <1>1, <1>2, <2>4, <2>5
  <2>7. QED BY <2>6 DEF g, z, w
<1>6. QED BY <1>2, <1>4, <1>5

LEMMA WholeKinds ==
  ASSUME NEW v, IsInt(v) \/ IsUint(v)
  PROVE  v.n \in MinInt..MaxUint /\ v.kind # "double" /\ Units(v) = v.n * One
<1>1. v.kind # "double"
  BY BoundsHold
<1>2. Units(v) = v.n * One
  BY <1>1 DEF Units
<1>3. MinInt <= 0 /\ MaxInt <= MaxUint /\ MinInt \in Int /\ MaxInt \in Int /\ MaxUint \in Int /\ 0 <= MaxUint
  <2>1. W - 1 \in Nat /\ W \in Nat /\ (W - 1) + 1 = W
    BY WidthFacts
  <2>2. Pow2[W - 1] \in Nat /\ Pow2[W] \in Nat /\ Pow2[W] = 2 * Pow2[W - 1] /\ Pow2[W - 1] >= 1
    BY <2>1, TwoAt, TwoStep
  <2>3. QED BY <2>2 DEF MinInt, MaxInt, MaxUint
<1>4. v.n \in MinInt..MaxUint
  <2>1. CASE IsInt(v)
    BY <1>3, <2>1 DEF IsInt
  <2>2. CASE IsUint(v)
    BY <1>3, <2>2 DEF IsUint
  <2>3. QED BY <2>1, <2>2
<1>5. QED BY <1>1, <1>2, <1>4

\* A double against a whole number: as the exact numbers, or they are equal
\* because the number is blurred.
LEMMA AgainstWhole ==
  ASSUME NEW v, IsDouble(v), v.f # NaN, NEW w, IsInt(w) \/ IsUint(w)
  PROVE  /\ Signed(v.f) \in Int /\ Widen(w.n) \in Int /\ Units(v) \in Int /\ Units(w) \in Int
         /\ \/ Sign(Signed(v.f) - Widen(w.n)) = Sign(Units(v) - Units(w))
            \/ Blurred(v, w) /\ Signed(v.f) = Widen(w.n)
<1> DEFINE g == Signed(v.f)
           n == w.n
           z == n * One
           u == Widen(n)
<1>1. n \in MinInt..MaxUint /\ w.kind # "double" /\ Units(w) = z
  BY WholeKinds
<1>2. n \in Int /\ z \in Int /\ u \in Int
  BY <1>1, WholeInRange
<1>3. v.kind = "double" /\ Units(v) = g /\ g \in Int
  BY DoubleParts DEF IsDouble, Units
<1>4. (g < u => g < z) /\ (g > u => g > z)
  BY <1>1, WidenSide
<1>5. CASE g # u
  <2> HIDE DEF g, z, u
  <2>1. Sign(g - u) = Sign(g - z)
    BY <1>2, <1>3, <1>4, <1>5 DEF Sign
  <2>2. QED BY <1>1, <1>2, <1>3, <2>1 DEF g, z, u
<1>6. CASE g = u /\ Abs(z) \in Mags
  <2>1. PICK k \in 0..E : \E c \in Nat : c < Pow2[P] /\ Abs(z) = c * Pow2[k]
    BY <1>6, MagParts
  <2>2. Round(Abs(z), 1) = Abs(z)
    BY <2>1, RoundExact
  <2>3. u = Sgn(z) * Abs(z)
    BY <1>2, <2>2, WidenUnits
  <2>4. u = z
    BY <1>2, <2>3, Signs
  <2>5. QED BY <1>1, <1>2, <1>3, <1>6, <2>4
<1>7. CASE g = u /\ Abs(z) \notin Mags
  <2>1. \A m \in Mags : \A s \in {1, -1} : Abs(u - z) <= Abs(s * m - z)
    BY <1>2, WidenClosest
  <2>2. Blurred(v, w)
    BY <1>1, <1>3, <1>7, <2>1 DEF Blurred
  <2>3. QED BY <1>1, <1>2, <1>3, <1>7, <2>2
<1>8. QED BY <1>5, <1>6, <1>7

\* The difference that is tested has the sign of the exact one, up to blurred
\* numbers.
LEMMA ScaleSign ==
  ASSUME NEW a \in Operands, NEW b \in Operands, ~ HasNaN(a, b)
  PROVE  /\ Units(a) \in Int /\ Units(b) \in Int
         /\ \/ Sign(OnScale(a, b) - OnScale(b, a)) = Sign(Units(a) - Units(b))
            \/ (Blurred(a, b) \/ Blurred(b, a)) /\ OnScale(a, b) - OnScale(b, a) = 0
<1>1. IsInt(a) \/ IsUint(a) \/ IsDouble(a)
  BY OperandKinds
<1>2. IsInt(b) \/ IsUint(b) \/ IsDouble(b)
  BY OperandKinds
<1>3. (IsDouble(a) => a.kind = "double" /\ a.f # NaN) /\ (IsDouble(b) => b.kind = "double" /\ b.f # NaN)
  BY DEF HasNaN, IsDouble
<1>4. CASE IsDouble(a) /\ IsDouble(b)
  <2>1. Signed(a.f) \in Int /\ Signed(b.f) \in Int
    BY <1>3, <1>4, DoubleParts
  <2>2. QED BY <1>3, <1>4, <2>1 DEF OnScale, Units
<1>5. CASE IsDouble(a) /\ (IsInt(b) \/ IsUint(b))
  <2>1. b.kind # "double"
    BY <1>5, WholeKinds
  <2>2. OnScale(a, b) = Signed(a.f) /\ OnScale(b, a) = Widen(b.n)
    BY <1>3, <1>5, <2>1 DEF OnScale
  <2>3. /\ Signed(a.f) \in Int /\ Widen(b.n) \in Int /\ Units(a) \in Int /\ Units(b) \in Int
        /\ \/ Sign(Signed(a.f) - Widen(b.n)) = Sign(Units(a) - Units(b))
           \/ Blurred(a, b) /\ Signed(a.f) = Widen(b.n)
    BY <1>3, <1>5, AgainstWhole
  <2>4. QED BY <2>2, <2>3
<1>6. CASE (IsInt(a) \/ IsUint(a)) /\ IsDouble(b)
  <2>1. a.kind # "double"
    BY <1>6, WholeKinds
  <2>2. OnScale(b, a) = Signed(b.f) /\ OnScale(a, b) = Widen(a.n)
    BY <1>3, <1>6, <2>1 DEF OnScale
  <2>3. /\ Signed(b.f) \in Int /\ Widen(a.n) \in Int /\ Units(a) \in Int /\ Units(b) \in Int
        /\ \/ Sign(Signed(b.f) - Widen(a.n)) = Sign(Units(b) - Units(a))
           \/ Blurred(b, a) /\ Signed(b.f) = Widen(a.n)
    BY <1>3, <1>6, AgainstWhole
  <2>4. ASSUME NEW p \in Int, NEW q \in Int PROVE Sign(q - p) = -Sign(p - q)
    BY DEF Sign
  <2>5. CASE Sign(Signed(b.f) - Widen(a.n)) = Sign(Units(b) - Units(a))
    <3>1. /\ Sign(Widen(a.n) - Signed(b.f)) = -Sign(Signed(b.f) - Widen(a.n))
          /\ Sign(Units(a) - Units(b)) = -Sign(Units(b) - Units(a))
      BY <2>3, <2>4
    <3>2. Sign(Widen(a.n) - Signed(b.f)) = Sign(Units(a) - Units(b))
      BY <2>5, <3>1
    <3>3. QED BY <2>2, <2>3, <3>2
  <2>6. CASE Blurred(b, a) /\ Signed(b.f) = Widen(a.n)
    BY <2>2, <2>3, <2>6
  <2>7. QED BY <2>3, <2>5, <2>6
<1>7. CASE (IsInt(a) \/ IsUint(a)) /\ (IsInt(b) \/ IsUint(b))
  <2>1. /\ a.kind # "double" /\ Units(a) = a.n * One /\ a.n \in MinInt..MaxUint
        /\ b.kind # "double" /\ Units(b) = b.n * One /\ b.n \in MinInt..MaxUint
    BY <1>7, WholeKinds
  <2>2. Units(a) \in Int /\ Units(b) \in Int
    BY <2>1, WholeInRange
  <2>3. OnScale(a, b) = Units(a) /\ OnScale(b, a) = Units(b)
    BY <2>1 DEF OnScale, One
  <2>4. QED BY <2>2, <2>3
<1>8. QED BY <1>1, <1>2, <1>4, <1>5, <1>6, <1>7

\* The relations and == are those of the exact numbers, in all kinds and in
\* both directions, at any width and precision, except that a whole number may
\* equal the double nearest to it if it is none itself; NaN is unordered
\* (cel._compare, cel._equal and the four relations).
THEOREM RelationsHold == Spec => []RelationsNumeric
<1>1. ASSUME CallInv PROVE RelationsNumeric
  <2>1. SUFFICES ASSUME Done, op \in Relations
                 PROVE  IF HasNaN(x, y)
                          THEN result = IF op = "==" THEN BoolVal(FALSE) ELSE Err("nan")
                          ELSE \/ result = BoolVal(Holds(op, Units(x) - Units(y)))
                               \/ /\ Blurred(x, y) \/ Blurred(y, x)
                                  /\ result = BoolVal(Holds(op, 0))
    BY DEF RelationsNumeric, HasNaN
  <2>2. Called /\ Answers(result)
    BY <1>1, <2>1 DEF CallInv, Done
  <2>3. x \in Operands /\ y \in Operands
    BY <2>1, <2>2, RelationOperands
  <2>4. result = IF op = "==" THEN BoolVal(Equal(x, y)) ELSE Relation(op, x, y)
    BY <2>1, <2>2 DEF Answers, Arithmetic, Relations, Roundings, Extremes, BitOps
  <2>5. CASE HasNaN(x, y)
    <3>1. Compare(x, y) = Err("nan")
      BY <2>3, <2>5, CompareIs
    <3>2. Equal(x, y) = FALSE
      BY <3>1 DEF Equal, Err, IntVal
    <3>3. Relation(op, x, y) = Err("nan")
      BY <3>1 DEF Relation, Err
    <3>4. QED BY <2>4, <2>5, <3>2, <3>3
  <2>6. CASE ~ HasNaN(x, y)
    <3> DEFINE d == OnScale(x, y) - OnScale(y, x)
    <3>1. d \in Int /\ Compare(x, y) = IntVal(Sign(d))
      BY <2>3, <2>6, CompareIs
    <3>0. SUFFICES result = BoolVal(Holds(op, d))
      <4> DEFINE e == Units(x) - Units(y)
      <4>1. e \in Int /\ (Sign(d) = Sign(e) \/ ((Blurred(x, y) \/ Blurred(y, x)) /\ d = 0))
        BY <2>3, <2>6, ScaleSign
      <4> HIDE DEF d, e
      <4>2. Holds(op, Sign(d)) = Holds(op, d) /\ Holds(op, Sign(e)) = Holds(op, e)
        BY <2>1, <3>1, <4>1, HoldsOfSign
      <4>3. CASE Sign(d) = Sign(e)
        BY <2>6, <4>2, <4>3 DEF e
      <4>4. CASE (Blurred(x, y) \/ Blurred(y, x)) /\ d = 0
        BY <2>6, <4>4
      <4>5. QED BY <4>1, <4>3, <4>4
    <3> HIDE DEF d
    <3>2. Holds(op, d) \in BOOLEAN /\ Holds(op, Sign(d)) = Holds(op, d) /\ (Sign(d) = 0 <=> d = 0)
      BY <2>1, <3>1, HoldsOfSign
    <3>3. CASE op = "=="
      <4>1. Equal(x, y) <=> Sign(d) = 0
        BY <3>1 DEF Equal, IntVal
      <4>2. Equal(x, y) \in BOOLEAN
        BY DEF Equal
      <4>3. Holds(op, d) <=> d = 0
        BY <3>3 DEF Holds
      <4>4. Equal(x, y) = Holds(op, d)
        BY <3>2, <4>1, <4>2, <4>3
      <4>5. QED BY <2>4, <3>3, <4>4
    <3>4. CASE op # "=="
      <4>1. Compare(x, y).kind # "error" /\ Compare(x, y).n = Sign(d)
        BY <3>1 DEF IntVal
      <4>2. op \in {"<", "<=", ">", ">="}
        BY <2>1, <3>4 DEF Relations
      <4>3. Relation(op, x, y) = BoolVal(Holds(op, Sign(d)))
        <5>1. CASE op = "<"
          BY <4>1, <5>1 DEF Relation, Holds
        <5>2. CASE op = "<="
          BY <4>1, <5>2 DEF Relation, Holds
        <5>3. CASE op = ">"
          BY <4>1, <5>3 DEF Relation, Holds
        <5>4. CASE op = ">="
          BY <4>1, <5>4 DEF Relation, Holds
        <5>5. QED BY <4>2, <5>1, <5>2, <5>3, <5>4
      <4>4. QED BY <2>4, <3>2, <3>4, <4>3
    <3>5. QED BY <3>3, <3>4
  <2>7. QED BY <2>5, <2>6
<1>2. QED BY <1>1, AlwaysCall, PTL

-----------------------------------------------------------------------------
(***************************************************************************)
(* Greatest and least, sign and magnitude.                                 *)
(***************************************************************************)
LEMMA ExtremesHold == ASSUME CallInv PROVE ExtremesNumeric
<1>1. SUFFICES ASSUME Done, op \in Extremes, result.kind # "error", NEW v \in {x, y}
               PROVE  LET d == OnScale(result, v) - OnScale(v, result)
                      IN /\ Holds(IF op = "greatest" THEN ">=" ELSE "<=", d)
                         /\ v = x /\ d = 0 => result = x
  BY DEF ExtremesNumeric
<1>2. Called /\ Answers(result)
  BY <1>1 DEF CallInv, Done
<1>3. x \in Operands /\ y \in Operands
  <2>1. op \notin Arithmetic \cup Relations \cup Roundings \cup Shifts \cup BitOps
                     \cup {"%", "neg", "int", "uint", "double", "abs", "sign", "not"}
    BY <1>1 DEF Arithmetic, Relations, Extremes, Roundings, Shifts, BitOps
  <2>2. Calls(op) = Operands \X Operands
    BY <1>1, <2>1 DEF Calls, Operands
  <2>3. QED BY <1>2, <2>2 DEF Called
<1>4. result = Extreme(op, x, y)
  BY <1>1, <1>2 DEF Answers, Arithmetic, Relations, Roundings, Extremes, BitOps
<1>5. ~ HasNaN(x, y)
  <2>1. SUFFICES ASSUME HasNaN(x, y) PROVE FALSE
    OBVIOUS
  <2>2. Compare(x, y) = Err("nan")
    BY <1>3, <2>1, CompareIs
  <2>3. result.kind = "error"
    BY <1>4, <2>2 DEF Extreme, Err
  <2>4. QED BY <1>1, <2>3
<1> DEFINE a == OnScale(x, y)
           b == OnScale(y, x)
           z == Sign(a - b)
<1>6. a \in Int /\ b \in Int /\ Compare(x, y) = IntVal(z)
  BY <1>3, <1>5, CompareIs
<1>7. ASSUME NEW u \in {x, y} PROVE OnScale(u, u) \in Int
  <2>1. u \in Operands
    BY <1>3
  <2>2. ~ HasNaN(u, u)
    BY <1>5 DEF HasNaN
  <2>3. QED BY <2>1, <2>2, CompareIs
<1>8. result = IF z = (IF op = "greatest" THEN -1 ELSE 1) THEN y ELSE x
  BY <1>4, <1>6 DEF Extreme, IntVal
<1>9. op = "greatest" \/ op = "least"
  BY <1>1 DEF Extremes
<1>10. Holds(">=", 0) /\ Holds("<=", 0)
  BY DEF Holds
<1>11. CASE v = result
  <2>1. OnScale(result, v) - OnScale(v, result) = 0
    <3>1. OnScale(v, v) \in Int
      BY <1>1, <1>7
    <3>2. QED BY <1>11, <3>1
  <2>2. QED BY <1>9, <1>10, <1>11, <2>1
<1>12. CASE v # result /\ result = x
  <2>1. v = y /\ OnScale(result, v) = a /\ OnScale(v, result) = b /\ z # (IF op = "greatest" THEN -1 ELSE 1)
    BY <1>1, <1>8, <1>12
  <2> HIDE DEF a, b
  <2>2. op = "greatest" => a - b >= 0
    BY <1>6, <2>1 DEF Sign
  <2>3. op = "least" => a - b <= 0
    BY <1>6, <1>9, <2>1 DEF Sign
  <2>4. QED BY <1>9, <1>12, <2>1, <2>2, <2>3 DEF Holds
<1>13. CASE v # result /\ result = y /\ result # x
  <2>1. v = x /\ OnScale(result, v) = b /\ OnScale(v, result) = a /\ z = (IF op = "greatest" THEN -1 ELSE 1)
    BY <1>1, <1>8, <1>13
  <2> HIDE DEF a, b
  <2>2. op = "greatest" => b - a >= 0
    BY <1>6, <2>1 DEF Sign
  <2>3. op = "least" => b - a <= 0
    BY <1>6, <1>9, <2>1 DEF Sign
  <2>4. b - a # 0
    BY <1>6, <2>1 DEF Sign
  <2>5. QED BY <1>9, <2>1, <2>2, <2>3, <2>4 DEF Holds
<1>14. QED BY <1>8, <1>11, <1>12, <1>13

\* A sign times its magnitude.
LEMMA SignsHold == ASSUME CallInv PROVE SignTimesAbs
<1>1. SUFFICES ASSUME Done, op = "sign", x # DoubleVal(NaN), Magnitude(x).kind # "error"
               PROVE  IF x.kind = "double"
                      THEN Signed(result.f) * Signed(Magnitude(x).f) = One * Signed(x.f)
                      ELSE result.n * Magnitude(x).n = x.n
  BY DEF SignTimesAbs
<1>2. Called /\ Answers(result)
  BY <1>1 DEF CallInv, Done
<1>3. x \in Operands
  <2>1. op \notin Arithmetic \cup Relations \cup Extremes \cup Roundings \cup Shifts \cup BitOps \cup {"%", "neg"}
    BY <1>1 DEF Arithmetic, Relations, Extremes, Roundings, Shifts, BitOps
  <2>2. Calls(op) = Operands \X {IntVal(0)}
    BY <1>1, <2>1 DEF Calls, Operands
  <2>3. QED BY <1>2, <2>2 DEF Called
<1>4. result = Signum(x)
  BY <1>1, <1>2 DEF Answers, Arithmetic, Relations, Roundings, Extremes, BitOps
<1>5. ASSUME NEW n \in Int PROVE Sign(n) * Abs(n) = n
  BY DEF Sign, Abs
<1>6. CASE IsInt(x)
  <2>1. x.kind = "int" /\ x.n \in Int
    BY <1>6, Widths DEF IsInt
  <2>2. result.n = Sign(x.n)
    BY <1>4, <2>1 DEF Signum, IntVal
  <2>3. Magnitude(x).n = Abs(x.n)
    BY <1>1, <2>1 DEF Magnitude, IntVal, Err
  <2>4. QED BY <1>5, <2>1, <2>2, <2>3
<1>7. CASE IsUint(x)
  <2>1. x.kind = "uint" /\ x.n \in Int /\ x.n >= 0
    BY <1>7, Widths DEF IsUint
  <2>2. result.n = Sign(x.n)
    BY <1>4, <2>1 DEF Signum, UintVal
  <2>3. Magnitude(x).n = Abs(x.n)
    BY <2>1 DEF Magnitude, Abs
  <2>4. QED BY <1>5, <2>1, <2>2, <2>3
<1>8. CASE IsDouble(x)
  <2> DEFINE s == x.f.sgn
             m == x.f.mag
  <2>1. x.f # NaN
    <3>1. NaN.mag # 0
      BY DEF NaN, Float
    <3>2. DoubleVal(NaN) = [kind |-> "double", f |-> NaN]
      BY <3>1 DEF DoubleVal
    <3>3. QED BY <1>1, <1>8, <3>2 DEF IsDouble
  <2>2. s \in {1, -1} /\ m \in Nat /\ x.kind = "double" /\ Signed(x.f) = s * m
    BY <1>8, <2>1, DoubleParts DEF IsDouble, Signed
  <2>3. Magnitude(x) = DoubleVal(Float(1, m))
    BY <2>1, <2>2 DEF Magnitude
  <2>4. Signed(Magnitude(x).f) = 1 * m
    BY <2>2, <2>3, DoubleOf
  <2>5. CASE m = 0
    <3>1. result = DoubleVal(x.f)
      BY <1>4, <2>1, <2>2, <2>5 DEF Signum
    <3>2. result = DoubleVal(Float(1, 0))
      BY <2>5, <3>1 DEF DoubleVal, Float
    <3>3. Signed(result.f) = 1 * 0
      BY <3>2, DoubleOf
    <3>4. s * m = 0
      BY <2>2, <2>5
    <3>5. QED BY <2>2, <2>4, <2>5, <3>3, <3>4, OneNat
  <2>6. CASE m # 0
    <3>1. result = DoubleVal(Float(s, One))
      BY <1>4, <2>1, <2>2, <2>6 DEF Signum
    <3>2. Signed(result.f) = s * One
      BY <2>2, <3>1, OneNat, DoubleOf
    <3> HIDE DEF s, m
    <3>3. (s * One) * (1 * m) = One * (s * m)
      <4>1. CASE s = 1
        BY <2>2, <4>1, OneNat
      <4>2. CASE s = -1
        BY <2>2, <4>2, OneNat
      <4>3. QED BY <2>2, <4>1, <4>2
    <3>4. QED BY <2>2, <2>4, <3>2, <3>3
  <2>7. QED BY <2>5, <2>6
<1>9. QED BY <1>3, <1>6, <1>7, <1>8, OperandKinds

-----------------------------------------------------------------------------
(***************************************************************************)
(* Bits.                                                                   *)
(***************************************************************************)
\* Bit i of a number.
BitAt(n, i) == (n \div Pow2[i]) % 2

LEMMA TwoSplit ==
  ASSUME NEW i \in Nat, NEW k \in Nat, i < k
  PROVE  \E c \in Nat : c >= 1 /\ Pow2[k] = 2 * (Pow2[i] * c) /\ Pow2[k - i] = 2 * c
<1> DEFINE c == Pow2[k - i - 1]
           t == Pow2[i]
<1>1. k - i - 1 \in Nat /\ k - i \in Nat /\ i + (k - i) = k /\ (k - i - 1) + 1 = k - i
  OBVIOUS
<1>2. c \in Nat /\ c >= 1 /\ t \in Nat
  BY <1>1, TwoAt
<1>3. Pow2[k - i] = 2 * c
  BY <1>1, TwoStep
<1>4. Pow2[k] = t * Pow2[k - i]
  BY <1>1, TwoSum
<1> HIDE DEF c, t
<1>5. Pow2[k] = t * (2 * c)
  BY <1>3, <1>4
<1>6. t * (2 * c) = 2 * (t * c)
  BY <1>2
<1>7. QED BY <1>2, <1>3, <1>5, <1>6 DEF t

\* The bits below k are those of the rest modulo 2^k.
LEMMA BitOfRest ==
  ASSUME NEW n \in Int, NEW k \in Nat, NEW i \in Nat, i < k
  PROVE  BitAt(n % Pow2[k], i) = BitAt(n, i)
<1> DEFINE M == Pow2[k]
           t == Pow2[i]
           q == n \div M
           r == n % M
           d == r \div t
           s == r % t
           u == d \div 2
           e == d % 2
<1>1. M \in Nat /\ M > 0 /\ t \in Nat /\ t > 0
  BY TwoAt
<1>2. PICK c \in Nat : M = 2 * (t * c)
  BY TwoSplit
<1> HIDE DEF M, t
<1>3. q \in Int /\ r \in 0..(M - 1) /\ n = M * q + r
  BY <1>1, Euclid
<1>4. r \in Int /\ r >= 0
  BY <1>1, <1>3
<1> HIDE DEF q, r
<1>5. d \in Nat /\ s \in 0..(t - 1) /\ r = t * d + s
  BY <1>1, <1>4, Euclid
<1> HIDE DEF d, s
<1>6. u \in Nat /\ e \in 0..1 /\ d = 2 * u + e
  BY <1>5
<1> HIDE DEF u, e
<1> DEFINE v == c * q
<1>7. v \in Int
  BY <1>3
<1>8. M * q = t * (2 * v)
  BY <1>1, <1>2, <1>3
<1> HIDE DEF v
<1>9. t * (2 * v) + t * d = t * (2 * v + d)
  BY <1>1, <1>5, <1>7
<1>10. 2 * v + d \in Int /\ t * (2 * v) \in Int /\ t * d \in Int
  BY <1>1, <1>5, <1>7
<1>11. n = t * (2 * v + d) + s
  BY <1>3, <1>5, <1>8, <1>9, <1>10
<1>12. n \div t = 2 * v + d
  BY <1>1, <1>5, <1>10, <1>11, EuclidUnique
<1>13. (2 * v + d) % 2 = e
  <2>1. 2 * v + d = 2 * (v + u) + e /\ v + u \in Int /\ e \in 0..(2 - 1)
    BY <1>6, <1>7
  <2>2. QED BY <1>10, <2>1, EuclidUnique
<1>14. BitAt(n, i) = e
  BY <1>12, <1>13 DEF BitAt, t
<1>15. BitAt(r, i) = e
  BY DEF BitAt, e, d, t
<1>16. QED BY <1>14, <1>15 DEF r, M

\* Two shifts to the right are one.
LEMMA DivTwice ==
  ASSUME NEW n \in Nat, NEW i \in Nat, NEW j \in Nat
  PROVE  /\ n \div Pow2[i] \in Nat
         /\ (n \div Pow2[i]) \div Pow2[j] = n \div Pow2[i + j]
<1> DEFINE t == Pow2[i]
           w == Pow2[j]
           q == n \div t
           r == n % t
           p == q \div w
           s == q % w
<1>1. t \in Nat /\ t > 0 /\ w \in Nat /\ w > 0 /\ i + j \in Nat
  BY TwoAt
<1>2. Pow2[i + j] = t * w
  BY TwoSum
<1> HIDE DEF t, w
<1>3. q \in Nat /\ r \in 0..(t - 1) /\ n = t * q + r
  BY <1>1, Euclid
<1> HIDE DEF q, r
<1>4. p \in Nat /\ s \in 0..(w - 1) /\ q = w * p + s
  BY <1>1, <1>3, Euclid
<1> HIDE DEF p, s
<1>5. t * q = t * (w * p) + t * s
  BY <1>1, <1>4
<1>6. t * (w * p) = (t * w) * p
  BY <1>1, <1>4
<1>7. t * s \in Nat /\ t * s <= t * (w - 1)
  BY <1>1, <1>4
<1>8. t * (w - 1) = t * w - t /\ t * w \in Nat /\ t * w > 0
  BY <1>1
<1>9. t * s + r \in 0..((t * w) - 1)
  BY <1>1, <1>3, <1>7, <1>8
<1>10. n = (t * w) * p + (t * s + r)
  <2>1. (t * w) * p \in Int
    BY <1>4, <1>8
  <2>2. QED BY <1>3, <1>5, <1>6, <1>7, <2>1
<1> DEFINE M == t * w
           z == t * s + r
<1>11. M \in Nat /\ M > 0 /\ z \in 0..(M - 1) /\ n = M * p + z
  BY <1>8, <1>9, <1>10
<1> HIDE DEF M, z
<1>12. n \div M = p
  BY <1>4, <1>11, EuclidUnique
<1>13. QED BY <1>2, <1>3, <1>12 DEF q, p, M, t, w

\* A number whose bits are moved to the left has none below.
LEMMA MulBits ==
  ASSUME NEW n \in Nat, NEW k \in Nat, NEW i \in Nat
  PROVE  BitAt(n * Pow2[k], i) = IF i >= k THEN BitAt(n, i - k) ELSE 0
<1>1. CASE i >= k
  <2>1. i - k \in Nat /\ k + (i - k) = i
    BY <1>1
  <2>2. Pow2[k] \in Nat /\ Pow2[k] > 0
    BY TwoAt
  <2>3. (n * Pow2[k]) \div Pow2[k] = n /\ n * Pow2[k] \in Nat
    <3> DEFINE t == Pow2[k]
    <3>1. t \in Nat /\ t > 0
      BY <2>2
    <3> HIDE DEF t
    <3>2. n * t \in Nat /\ n * t = t * n + 0 /\ 0 \in 0..(t - 1)
      BY <3>1
    <3>3. (n * t) \div t = n
      BY <3>1, <3>2, EuclidUnique
    <3>4. QED BY <3>2, <3>3 DEF t
  <2>4. ((n * Pow2[k]) \div Pow2[k]) \div Pow2[i - k] = (n * Pow2[k]) \div Pow2[k + (i - k)]
    BY <2>1, <2>3, DivTwice
  <2>5. n \div Pow2[i - k] = (n * Pow2[k]) \div Pow2[i]
    BY <2>1, <2>3, <2>4
  <2>6. QED BY <1>1, <2>5 DEF BitAt
<1>2. CASE ~ (i >= k)
  <2> DEFINE t == Pow2[i]
  <2>1. i < k
    BY <1>2
  <2>2. PICK c \in Nat : Pow2[k] = 2 * (t * c)
    BY <2>1, TwoSplit
  <2>3. t \in Nat /\ t > 0
    BY TwoAt
  <2> DEFINE M == Pow2[k]
             v == n * c
  <2>4. v \in Nat /\ M = 2 * (t * c)
    BY <2>2
  <2> HIDE DEF t, M
  <2>5. n * M = t * (2 * v) + 0 /\ n * M \in Nat
    BY <2>2, <2>3, <2>4
  <2> HIDE DEF v
  <2>6. 2 * v \in Int /\ 0 \in 0..(t - 1)
    BY <2>3, <2>4
  <2>7. (n * M) \div t = 2 * v
    BY <2>3, <2>5, <2>6, EuclidUnique
  <2>8. (2 * v) % 2 = 0
    BY <2>4
  <2>9. QED BY <1>2, <2>7, <2>8 DEF BitAt, t, M
<1>3. QED BY <1>1, <1>2

\* A number has no bits above its own.
LEMMA HighBits ==
  ASSUME NEW n \in Nat, NEW k \in Nat, n < Pow2[k], NEW i \in Nat, i >= k
  PROVE  n \div Pow2[i] = 0 /\ BitAt(n, i) = 0
<1> DEFINE t == Pow2[i]
<1>1. t \in Nat /\ t > 0 /\ n < t
  <2>1. Pow2[k] <= Pow2[i] /\ Pow2[k] \in Nat /\ Pow2[i] \in Nat
    BY TwoOrdered, TwoAt
  <2>2. QED BY <2>1
<1> HIDE DEF t
<1>2. t * 0 = 0 /\ n \in 0..(t - 1)
  BY <1>1
<1>3. n = t * 0 + n
  BY <1>2
<1>4. n \div t = 0
  BY <1>1, <1>2, <1>3, EuclidUnique
<1>5. 0 % 2 = 0
  OBVIOUS
<1>6. QED BY <1>4, <1>5 DEF BitAt, t

\* The complement flips every bit.
LEMMA FlippedBits ==
  ASSUME NEW k \in Nat, NEW n \in 0..(Pow2[k] - 1), NEW i \in Nat, i < k
  PROVE  BitAt(Pow2[k] - 1 - n, i) = 1 - BitAt(n, i)
<1> DEFINE M == Pow2[k]
           t == Pow2[i]
           q == n \div t
           r == n % t
           u == q \div 2
           e == q % 2
<1>1. M \in Nat /\ M > 0 /\ t \in Nat /\ t > 0
  BY TwoAt
<1>2. PICK c \in Nat : M = 2 * (t * c)
  BY TwoSplit
<1> HIDE DEF M
<1>3. n \in Nat
  BY <1>1 DEF M
<1> HIDE DEF t
<1>4. q \in Nat /\ r \in 0..(t - 1) /\ n = t * q + r
  BY <1>1, <1>3, Euclid
<1> HIDE DEF q, r
<1>5. u \in Nat /\ e \in 0..1 /\ q = 2 * u + e
  BY <1>4
<1> HIDE DEF u, e
<1> DEFINE p == 2 * c - 1 - q
           m == M - 1 - n
<1>6. p \in Int /\ m \in Int /\ t - 1 - r \in 0..(t - 1)
  BY <1>1, <1>3, <1>4
<1>7. t * p = 2 * (t * c) - t - t * q
  BY <1>1, <1>4
<1>8. t * c \in Nat /\ t * q \in Nat /\ t * p \in Int
  BY <1>1, <1>4, <1>6
<1> HIDE DEF p
<1>9. m = t * p + (t - 1 - r)
  BY <1>1, <1>2, <1>4, <1>7, <1>8
<1> HIDE DEF m
<1>10. m \div t = p
  BY <1>1, <1>6, <1>9, EuclidUnique
<1>11. p % 2 = 1 - e
  <2>1. p = 2 * (c - 1 - u) + (1 - e)
    BY <1>4, <1>5 DEF p
  <2>2. c - 1 - u \in Int /\ 1 - e \in 0..(2 - 1)
    BY <1>5
  <2>3. QED BY <1>6, <2>1, <2>2, EuclidUnique
<1>12. BitAt(m, i) = 1 - e
  BY <1>10, <1>11 DEF BitAt, t
<1>13. BitAt(n, i) = e
  BY DEF BitAt, e, q, t
<1>14. QED BY <1>12, <1>13 DEF m, M

\* An int or a uint.
IsWhole(v) == IsInt(v) \/ IsUint(v)

\* The bits of a value are those of its number.
LEMMA BitsThere ==
  ASSUME NEW v, IsWhole(v)
  PROVE  /\ v.n \in Int /\ BitsOf(v) \in 0..(Pow2[W] - 1) /\ BitsOf(v) \in Nat
         /\ \A i \in 0..(W - 1) : Bit(v, i) = BitAt(v.n, i) /\ Bit(v, i) = BitAt(BitsOf(v), i)
<1>1. v.n \in Int
  BY Widths DEF IsWhole, IsInt, IsUint
<1> DEFINE M == Pow2[W]
<1>2. M \in Nat /\ M > 0 /\ W \in Nat
  BY WidthFacts, TwoAt
<1>3. (v.n % M) \in 0..(M - 1)
  <2> HIDE DEF M
  <2> QED BY <1>1, <1>2, Euclid
<1>4. ASSUME NEW i \in 0..(W - 1) PROVE Bit(v, i) = BitAt(v.n, i) /\ Bit(v, i) = BitAt(BitsOf(v), i)
  <2>1. i \in Nat /\ i < W
    BY <1>2
  <2>2. BitAt(v.n % Pow2[W], i) = BitAt(v.n, i)
    BY <1>1, <1>2, <2>1, BitOfRest
  <2>3. QED BY <2>2 DEF Bit, BitsOf, BitAt
<1>5. BitsOf(v) \in 0..(Pow2[W] - 1)
  BY <1>3 DEF BitsOf
<1>6. BitsOf(v) \in Nat
  <2> HIDE DEF M
  <2> QED BY <1>2, <1>3 DEF BitsOf, M
<1>7. QED BY <1>1, <1>4, <1>5, <1>6

\* Taken for the bits of a value, u gives that value back.
LEMMA BitsBack ==
  ASSUME NEW v, IsWhole(v), NEW u \in 0..(Pow2[W] - 1), NEW w, w = BitsVal(u, v)
  PROVE  w.kind = v.kind /\ IsWhole(w) /\ BitsOf(w) = u
<1> DEFINE M == Pow2[W]
           H == Pow2[W - 1]
<1>1. M \in Nat /\ M > 0 /\ H \in Nat /\ M = 2 * H /\ MinInt = -H /\ MaxInt = H - 1 /\ MaxUint = M - 1
  <2>1. W - 1 \in Nat /\ (W - 1) + 1 = W
    BY WidthFacts
  <2>2. QED BY <2>1, TwoAt, TwoStep DEF MinInt, MaxInt, MaxUint
<1>2. u \in 0..(M - 1)
  OBVIOUS
<1> HIDE DEF M, H
<1>3. u \in Nat /\ u < M
  BY <1>1, <1>2
<1>4. CASE v.kind = "uint"
  <2>1. w = UintVal(u)
    BY <1>4 DEF BitsVal
  <2>2. w.kind = "uint" /\ w.n = u
    BY <2>1 DEF UintVal
  <2>3. IsUint(w)
    BY <1>1, <1>3, <2>1, <2>2 DEF IsUint
  <2>4. M * 0 = 0
    BY <1>1
  <2>5. u % M = u
    BY <1>1, <1>2, <1>3, <2>4, EuclidUnique
  <2>6. QED BY <1>4, <2>2, <2>3, <2>5 DEF IsWhole, BitsOf, M
<1>5. CASE v.kind = "int"
  <2> DEFINE n == IF u >= H THEN u - M ELSE u
  <2>1. w = IntVal(n)
    BY <1>5 DEF BitsVal, M, H
  <2>2. n \in Int /\ n \in MinInt..MaxInt
    BY <1>1, <1>3
  <2>3. w.kind = "int" /\ w.n = n
    BY <2>1 DEF IntVal
  <2>4. IsInt(w)
    BY <2>1, <2>2, <2>3 DEF IsInt
  <2>5. M * 0 = 0 /\ M * (-1) = -M
    BY <1>1
  <2>6. n = M * 0 + u \/ n = M * (-1) + u
    BY <1>1, <1>3, <2>5
  <2>7. n % M = u
    <3> HIDE DEF n
    <3>1. 0 \in Int /\ -1 \in Int
      OBVIOUS
    <3>2. QED BY <1>1, <1>2, <2>2, <2>6, <3>1, EuclidUnique
  <2>8. QED BY <1>5, <2>3, <2>4, <2>7 DEF IsWhole, BitsOf, M
<1>6. QED BY <1>4, <1>5 DEF IsWhole, IsInt, IsUint

LEMMA WholeOperands ==
  /\ \A v \in Ints : IsWhole(v) /\ v.kind = "int" /\ v.n \in Int
  /\ \A v \in Uints : IsWhole(v) /\ v.kind = "uint"
  BY Widths DEF Ints, Uints, IntVal, UintVal, IsWhole, IsInt, IsUint

LEMMA ZeroBits == ASSUME NEW i \in Nat PROVE BitAt(0, i) = 0
<1>1. Pow2[0] = 1 /\ 0 \in Nat /\ 0 < 1 /\ i >= 0
  BY TwoAt
<1>2. QED BY <1>1, HighBits

\* Shifts and the complement.
LEMMA BitsMovedHold == ASSUME CallInv PROVE BitsMoved
<1>1. SUFFICES ASSUME Done, op \in Shifts \cup {"not"}, result.kind # "error"
               PROVE  /\ result.kind = x.kind
                      /\ \A i \in 0..(W - 1) :
                           LET j == IF op = "shl" THEN i - y.n ELSE IF op = "shr" THEN i + y.n ELSE i
                           IN Bit(result, i) = IF op = "not" THEN 1 - Bit(x, i)
                                               ELSE IF j \in 0..(W - 1) THEN Bit(x, j) ELSE 0
  BY DEF BitsMoved
<1>2. Called /\ Answers(result)
  BY <1>1 DEF CallInv, Done
<1>3. op \notin Arithmetic \cup Relations \cup Extremes \cup Roundings \cup BitOps
                   \cup {"%", "neg", "int", "uint", "double", "abs", "sign"}
  BY <1>1 DEF Arithmetic, Relations, Extremes, Roundings, Shifts, BitOps
<1>4. IsWhole(x) /\ (op \in Shifts => y.n \in Int)
  <2>1. Calls(op) = IF op \in Shifts THEN (Ints \cup Uints) \X Ints ELSE (Ints \cup Uints) \X {IntVal(0)}
    <3>1. (op \in Shifts /\ op # "not") \/ (op = "not" /\ op \notin Shifts)
      BY <1>1 DEF Shifts
    <3>2. CASE op \in Shifts /\ op # "not"
      BY <1>3, <3>2 DEF Calls
    <3>3. CASE op = "not" /\ op \notin Shifts
      BY <1>3, <3>3 DEF Calls
    <3>4. QED BY <3>1, <3>2, <3>3
  <2>2. x \in Ints \cup Uints /\ (op \in Shifts => y \in Ints)
    BY <1>2, <2>1 DEF Called
  <2>3. QED BY <2>2, WholeOperands
<1> DEFINE M == Pow2[W]
           b == BitsOf(x)
           k == y.n
<1>5. W \in Nat /\ M \in Nat /\ M > 0
  BY WidthFacts, TwoAt
<1>6. b \in 0..(M - 1) /\ b \in Nat
  BY <1>4, BitsThere
<1>7. \A i \in 0..(W - 1) : Bit(x, i) = BitAt(b, i)
  BY <1>4, BitsThere
<1>8. ASSUME NEW u \in 0..(M - 1), result = BitsVal(u, x)
      PROVE  result.kind = x.kind /\ \A i \in 0..(W - 1) : Bit(result, i) = BitAt(u, i)
  BY <1>4, <1>8, BitsBack, BitsThere
<1> HIDE DEF b, M
<1>9. 0 \in 0..(M - 1)
  BY <1>5
<1>10. \A i \in 0..(W - 1) : i \in Nat /\ i < W
  BY <1>5
<1>11. CASE op = "shl"
  <2>1. result = ShiftLeft(x, k) /\ k \in Int
    BY <1>1, <1>2, <1>3, <1>4, <1>11 DEF Answers, Shifts
  <2>2. k >= 0
    BY <1>1, <2>1 DEF ShiftLeft, Err
  <2>3. CASE k >= W
    <3>1. result = BitsVal(0, x)
      BY <1>5, <2>1, <2>2, <2>3 DEF ShiftLeft
    <3>2. result.kind = x.kind /\ \A i \in 0..(W - 1) : Bit(result, i) = 0
      BY <1>8, <1>9, <1>10, <3>1, ZeroBits
    <3>3. \A i \in 0..(W - 1) : i - k \notin 0..(W - 1)
      BY <1>5, <2>1, <2>3
    <3>4. QED BY <1>11, <3>2, <3>3
  <2>4. CASE ~ (k >= W)
    <3> DEFINE u == (b * Pow2[k]) % M
    <3>1. result = BitsVal(u, x)
      BY <1>5, <2>1, <2>2, <2>4 DEF ShiftLeft, b, M
    <3>2. k \in Nat /\ k < W
      BY <1>5, <2>1, <2>2, <2>4
    <3>3. b * Pow2[k] \in Nat
      <4>1. Pow2[k] \in Nat
        BY <3>2, TwoAt
      <4>2. QED BY <1>6, <4>1
    <3>4. u \in 0..(M - 1)
      BY <1>5, <3>3, Euclid
    <3>5. result.kind = x.kind /\ \A i \in 0..(W - 1) : Bit(result, i) = BitAt(u, i)
      BY <1>8, <3>1, <3>4
    <3>6. ASSUME NEW i \in 0..(W - 1)
          PROVE  Bit(result, i) = IF i - k \in 0..(W - 1) THEN Bit(x, i - k) ELSE 0
      <4>1. i \in Nat /\ i < W
        BY <1>10
      <4>2. BitAt(u, i) = BitAt(b * Pow2[k], i)
        <5>1. b * Pow2[k] \in Int
          BY <3>3
        <5>2. QED BY <1>5, <4>1, <5>1, BitOfRest DEF M
      <4>3. BitAt(b * Pow2[k], i) = IF i >= k THEN BitAt(b, i - k) ELSE 0
        BY <1>6, <3>2, <4>1, MulBits
      <4>4. i >= k <=> i - k \in 0..(W - 1)
        BY <1>5, <3>2, <4>1
      <4>5. QED BY <1>7, <3>5, <4>2, <4>3, <4>4
    <3>7. QED BY <1>11, <3>5, <3>6
  <2>5. QED BY <2>3, <2>4
<1>12. CASE op = "shr"
  <2>1. result = ShiftRight(x, k) /\ k \in Int
    BY <1>1, <1>2, <1>3, <1>4, <1>12 DEF Answers, Shifts
  <2>2. k >= 0
    BY <1>1, <2>1 DEF ShiftRight, Err
  <2>3. CASE k >= W
    <3>1. result = BitsVal(0, x)
      BY <1>5, <2>1, <2>2, <2>3 DEF ShiftRight
    <3>2. result.kind = x.kind /\ \A i \in 0..(W - 1) : Bit(result, i) = 0
      BY <1>8, <1>9, <1>10, <3>1, ZeroBits
    <3>3. \A i \in 0..(W - 1) : i + k \notin 0..(W - 1)
      BY <1>5, <2>1, <2>3
    <3>4. QED BY <1>12, <3>2, <3>3
  <2>4. CASE ~ (k >= W)
    <3> DEFINE u == b \div Pow2[k]
    <3>1. result = BitsVal(u, x)
      BY <1>5, <2>1, <2>2, <2>4 DEF ShiftRight, b
    <3>2. k \in Nat /\ k < W
      BY <1>5, <2>1, <2>2, <2>4
    <3>3. u \in 0..(M - 1)
      <4> DEFINE t == Pow2[k]
      <4>1. t \in Nat /\ t > 0
        BY <3>2, TwoAt
      <4> HIDE DEF t
      <4>2. b \div t \in Nat /\ b \div t <= b
        BY <1>6, <4>1, DivBelow
      <4>3. QED BY <1>5, <1>6, <4>2 DEF t
    <3>4. result.kind = x.kind /\ \A i \in 0..(W - 1) : Bit(result, i) = BitAt(u, i)
      BY <1>8, <3>1, <3>3
    <3>5. ASSUME NEW i \in 0..(W - 1)
          PROVE  Bit(result, i) = IF i + k \in 0..(W - 1) THEN Bit(x, i + k) ELSE 0
      <4>1. i \in Nat /\ i < W
        BY <1>10
      <4>2. u \div Pow2[i] = b \div Pow2[i + k]
        <5>1. (b \div Pow2[k]) \div Pow2[i] = b \div Pow2[k + i]
          BY <1>6, <3>2, <4>1, DivTwice
        <5>2. k + i = i + k
          BY <3>2, <4>1
        <5>3. QED BY <5>1, <5>2
      <4>3. BitAt(u, i) = BitAt(b, i + k)
        BY <4>2 DEF BitAt
      <4>4. CASE i + k \in 0..(W - 1)
        BY <1>7, <3>4, <4>3, <4>4
      <4>5. CASE i + k \notin 0..(W - 1)
        <5>1. i + k \in Nat /\ i + k >= W
          BY <1>5, <3>2, <4>1, <4>5
        <5>2. b < Pow2[W]
          BY <1>5, <1>6 DEF M
        <5>3. BitAt(b, i + k) = 0
          BY <1>5, <1>6, <5>1, <5>2, HighBits
        <5>4. QED BY <3>4, <4>3, <4>5, <5>3
      <4>6. QED BY <4>4, <4>5
    <3>6. QED BY <1>12, <3>4, <3>5
  <2>5. QED BY <2>3, <2>4
<1>13. CASE op = "not"
  <2>1. result = Complement(x)
    BY <1>1, <1>2, <1>3, <1>13 DEF Answers, Shifts
  <2> DEFINE u == M - 1 - b
  <2>2. u \in 0..(M - 1) /\ u \in Int
    BY <1>5, <1>6
  <2>3. IsWhole(result) /\ result.kind = x.kind /\ BitsOf(result) = u
    <3>1. CASE x.kind = "uint"
      <4>1. x.n \in 0..MaxUint /\ MaxUint = M - 1
        BY <1>4, <3>1 DEF IsWhole, IsInt, IsUint, MaxUint, M
      <4>2. result = UintVal(MaxUint - x.n)
        BY <2>1, <3>1 DEF Complement
      <4>3. x.n \in Nat /\ x.n < M /\ M * 0 = 0
        BY <1>5, <4>1
      <4>4. b = x.n
        <5>1. x.n = M * 0 + x.n /\ x.n \in 0..(M - 1) /\ x.n \in Int
          BY <4>3, <1>5
        <5>2. (x.n % M) = x.n
          BY <1>5, <5>1, EuclidUnique
        <5>3. QED BY <5>2 DEF b, BitsOf, M
      <4>5. result = UintVal(u) /\ result.n = u /\ result.kind = "uint"
        BY <4>1, <4>2, <4>4 DEF UintVal
      <4>6. IsUint(result)
        BY <1>5, <2>2, <4>1, <4>5 DEF IsUint
      <4>7. (u % M) = u
        <5> HIDE DEF u
        <5>1. u = M * 0 + u
          BY <2>2, <4>3
        <5>2. QED BY <1>5, <2>2, <5>1, EuclidUnique
      <4>8. QED BY <3>1, <4>5, <4>6, <4>7 DEF IsWhole, BitsOf, M
    <3>2. CASE x.kind = "int"
      <4>1. x.n \in MinInt..MaxInt /\ x.n \in Int
        BY <1>4, <3>2, Widths DEF IsWhole, IsInt, IsUint
      <4> DEFINE n == -x.n - 1
                 q == x.n \div M
      <4>2. result = IntVal(n) /\ result.n = n /\ result.kind = "int"
        BY <2>1, <3>2 DEF Complement, IntVal
      <4>3. n \in MinInt..MaxInt /\ n \in Int
        BY <4>1, Widths
      <4>4. IsInt(result)
        BY <4>2, <4>3 DEF IsInt
      <4>5. q \in Int /\ x.n = M * q + b
        BY <1>5, <4>1, Euclid DEF b, BitsOf, M
      <4> HIDE DEF q
      <4>6. M * (-q - 1) = -(M * q) - M /\ M * q \in Int /\ M * (-q - 1) \in Int
        BY <1>5, <4>5
      <4>7. n = M * (-q - 1) + u /\ -q - 1 \in Int
        BY <1>5, <1>6, <4>5, <4>6
      <4> HIDE DEF n, u
      <4>8. (n % M) = u
        BY <1>5, <2>2, <4>3, <4>7, EuclidUnique
      <4>9. QED BY <3>2, <4>2, <4>4, <4>8 DEF IsWhole, BitsOf, M
    <3>3. QED BY <1>4, <3>1, <3>2 DEF IsWhole, IsInt, IsUint
  <2>4. ASSUME NEW i \in 0..(W - 1) PROVE Bit(result, i) = 1 - Bit(x, i)
    <3>1. i \in Nat /\ i < W
      BY <1>10
    <3>2. Bit(result, i) = BitAt(u, i)
      BY <2>3, BitsThere
    <3>3. BitAt(u, i) = 1 - BitAt(b, i)
      BY <1>5, <1>6, <3>1, FlippedBits DEF M
    <3>4. QED BY <1>7, <3>2, <3>3
  <2>5. QED BY <1>13, <2>3, <2>4
<1>14. QED BY <1>1, <1>11, <1>12, <1>13 DEF Shifts

LEMMA BitValue ==
  ASSUME NEW n \in Int, NEW i \in Nat
  PROVE  BitAt(n, i) \in {0, 1}
<1> DEFINE t == Pow2[i]
<1>1. t \in Nat /\ t > 0
  BY TwoAt
<1> HIDE DEF t
<1>2. n \div t \in Int
  BY <1>1, Euclid
<1>3. (n \div t) % 2 \in {0, 1}
  BY <1>2
<1>4. QED BY <1>3 DEF BitAt, t

\* A number one bit longer.
LEMMA TopBit ==
  ASSUME NEW j \in Nat, NEW m \in 0..(Pow2[j] - 1), NEW e \in {0, 1}, NEW p, p = m + e * Pow2[j]
  PROVE  /\ p \in 0..(Pow2[j + 1] - 1) /\ BitAt(p, j) = e
         /\ \A i \in 0..(j - 1) : BitAt(p, i) = BitAt(m, i)
<1> DEFINE t == Pow2[j]
<1>1. t \in Nat /\ t > 0 /\ Pow2[j + 1] = 2 * t /\ m \in 0..(t - 1)
  BY TwoAt, TwoStep
<1>2. p = m + e * t
  OBVIOUS
<1> HIDE DEF t
<1>3. e * t = t * e /\ t * e \in Nat /\ t * e <= t /\ e \in Int
  BY <1>1
<1>4. p = t * e + m /\ p \in Nat /\ p < 2 * t
  BY <1>1, <1>2, <1>3
<1>5. p \div t = e /\ (p % t) = m
  <2>1. p \in Int
    BY <1>4
  <2>2. QED BY <1>1, <1>3, <1>4, <2>1, EuclidUnique
<1>6. e % 2 = e
  OBVIOUS
<1>7. ASSUME NEW i \in 0..(j - 1) PROVE BitAt(p, i) = BitAt(m, i)
  <2>1. i \in Nat /\ i < j /\ p \in Int
    BY <1>4
  <2>2. BitAt(p % Pow2[j], i) = BitAt(p, i)
    BY <2>1, BitOfRest
  <2>3. QED BY <1>5, <2>2 DEF t
<1>8. BitAt(p, j) = e
  BY <1>5, <1>6 DEF BitAt, t
<1>9. p \in 0..(Pow2[j + 1] - 1)
  BY <1>1, <1>4
<1>10. QED BY <1>7, <1>8, <1>9

\* There is a number of any given bits.
LEMMA BitsBuilt ==
  ASSUME NEW n \in Nat, NEW f, \A i \in 0..(n - 1) : f[i] \in {0, 1}
  PROVE  \E m \in 0..(Pow2[n] - 1) : \A i \in 0..(n - 1) : BitAt(m, i) = f[i]
<1> DEFINE Built(j) == \E m \in 0..(Pow2[j] - 1) : \A i \in 0..(j - 1) : BitAt(m, i) = f[i]
           G == {j \in 0..n : Built(j)}
<1>1. 0 \in G
  <2>1. Pow2[0] = 1 /\ 0 \in 0..(1 - 1) /\ \A i \in 0..(0 - 1) : FALSE
    BY TwoAt
  <2>2. Built(0)
    BY <2>1
  <2>3. QED BY <2>2
<1>2. ASSUME NEW j \in 0..(n - 1), j \in G PROVE j + 1 \in G
  <2>1. PICK m \in 0..(Pow2[j] - 1) : \A i \in 0..(j - 1) : BitAt(m, i) = f[i]
    BY <1>2
  <2>2. j \in Nat /\ j + 1 \in 0..n /\ f[j] \in {0, 1}
    OBVIOUS
  <2> DEFINE p == m + f[j] * Pow2[j]
  <2>3. /\ p \in 0..(Pow2[j + 1] - 1) /\ BitAt(p, j) = f[j]
        /\ \A i \in 0..(j - 1) : BitAt(p, i) = BitAt(m, i)
    BY <2>2, TopBit
  <2> HIDE DEF p
  <2>4. ASSUME NEW i \in 0..((j + 1) - 1) PROVE BitAt(p, i) = f[i]
    <3>1. i = j \/ i \in 0..(j - 1)
      BY <2>2
    <3>2. QED BY <2>1, <2>3, <3>1
  <2>5. Built(j + 1)
    BY <2>3, <2>4
  <2>6. QED BY <2>2, <2>5
<1>3. \A j \in 0..n : j \in G
  <2> HIDE DEF G
  <2> QED BY <1>1, <1>2, UpTo
<1>4. n \in G
  BY <1>3
<1>5. QED BY <1>4

\* What the rest gains with one bit more.
LEMMA NextRest ==
  ASSUME NEW n \in Nat, NEW j \in Nat
  PROVE  /\ (n % Pow2[j + 1]) = (n % Pow2[j]) + BitAt(n, j) * Pow2[j]
         /\ (n % Pow2[j]) \in Nat /\ Pow2[j] \in Nat
<1> DEFINE t == Pow2[j]
           q == n \div t
           r == n % t
           u == q \div 2
           e == q % 2
<1>1. t \in Nat /\ t > 0 /\ Pow2[j + 1] = 2 * t
  BY TwoAt, TwoStep
<1> HIDE DEF t
<1>2. q \in Nat /\ r \in 0..(t - 1) /\ n = t * q + r
  BY <1>1, Euclid
<1> HIDE DEF q, r
<1>3. u \in Nat /\ e \in 0..1 /\ q = 2 * u + e
  BY <1>2
<1> HIDE DEF u, e
<1> DEFINE M == 2 * t
           z == r + e * t
<1>4. M \in Nat /\ M > 0
  BY <1>1
<1>5. e * t \in Nat /\ e * t <= t
  BY <1>1, <1>3
<1>6. z \in 0..(M - 1)
  BY <1>1, <1>2, <1>5
<1>7. t * q = M * u + e * t /\ M * u \in Nat
  BY <1>1, <1>3
<1>8. n = M * u + z
  BY <1>1, <1>2, <1>5, <1>7
<1>9. (n % M) = z
  <2> HIDE DEF M, z
  <2>1. u \in Int /\ n \in Int
    BY <1>3
  <2>2. QED BY <1>4, <1>6, <1>8, <2>1, EuclidUnique
<1>10. BitAt(n, j) = e
  BY DEF BitAt, e, q, t
<1>11. r \in Nat
  BY <1>1, <1>2
<1>12. QED BY <1>1, <1>9, <1>10, <1>11 DEF r, t

\* Numbers add up alike if their bits do, place by place.
LEMMA SumOfBits ==
  ASSUME NEW n \in Nat, NEW p \in 0..(Pow2[n] - 1), NEW q \in 0..(Pow2[n] - 1),
         NEW r \in 0..(Pow2[n] - 1), NEW s \in 0..(Pow2[n] - 1),
         \A i \in 0..(n - 1) : BitAt(p, i) + BitAt(q, i) = BitAt(r, i) + BitAt(s, i)
  PROVE  p + q = r + s
<1> DEFINE Rest(m, j) == m % Pow2[j]
           G == {j \in 0..n : Rest(p, j) + Rest(q, j) = Rest(r, j) + Rest(s, j)}
<1>1. Pow2[n] \in Nat
  BY TwoAt
<1>2. p \in Nat /\ q \in Nat /\ r \in Nat /\ s \in Nat
  BY <1>1
<1>3. 0 \in G
  <2>1. \A m \in Nat : Rest(m, 0) = 0
    BY TwoAt
  <2> HIDE DEF Rest
  <2>2. QED BY <1>2, <2>1
<1>4. ASSUME NEW j \in 0..(n - 1), j \in G PROVE j + 1 \in G
  <2>1. j \in Nat /\ j + 1 \in 0..n
    OBVIOUS
  <2> DEFINE t == Pow2[j]
             Top(m) == BitAt(m, j)
  <2>2. t \in Nat
    BY <2>1, TwoAt
  <2>3. ASSUME NEW m \in Nat
        PROVE  Rest(m, j + 1) = Rest(m, j) + Top(m) * t /\ Rest(m, j) \in Nat /\ Top(m) \in {0, 1}
    <3>1. m \in Int
      OBVIOUS
    <3>2. QED BY <2>1, <3>1, NextRest, BitValue
  <2>4. Top(p) + Top(q) = Top(r) + Top(s)
    OBVIOUS
  <2>5. Rest(p, j) + Rest(q, j) = Rest(r, j) + Rest(s, j)
    BY <1>4
  <2> HIDE DEF t, Top, Rest
  <2>6. Top(p) * t + Top(q) * t = Top(r) * t + Top(s) * t
    <3>1. Top(p) \in {0, 1} /\ Top(q) \in {0, 1} /\ Top(r) \in {0, 1} /\ Top(s) \in {0, 1}
      BY <1>2, <2>3
    <3>2. QED BY <2>2, <2>4, <3>1
  <2>7. \A m \in Nat : Top(m) * t \in Nat
    BY <2>2, <2>3
  <2>8. Rest(p, j + 1) + Rest(q, j + 1) = Rest(r, j + 1) + Rest(s, j + 1)
    <3>1. /\ Rest(p, j + 1) = Rest(p, j) + Top(p) * t /\ Rest(p, j) \in Nat /\ Top(p) * t \in Nat
          /\ Rest(q, j + 1) = Rest(q, j) + Top(q) * t /\ Rest(q, j) \in Nat /\ Top(q) * t \in Nat
          /\ Rest(r, j + 1) = Rest(r, j) + Top(r) * t /\ Rest(r, j) \in Nat /\ Top(r) * t \in Nat
          /\ Rest(s, j + 1) = Rest(s, j) + Top(s) * t /\ Rest(s, j) \in Nat /\ Top(s) * t \in Nat
      BY <1>2, <2>3, <2>7
    <3>2. QED BY <2>5, <2>6, <3>1
  <2>9. QED BY <2>1, <2>8
<1>5. \A j \in 0..n : j \in G
  <2> HIDE DEF G
  <2> QED BY <1>3, <1>4, UpTo
<1>6. Rest(p, n) + Rest(q, n) = Rest(r, n) + Rest(s, n)
  BY <1>5
<1>7. ASSUME NEW m \in 0..(Pow2[n] - 1) PROVE Rest(m, n) = m
  <2> DEFINE M == Pow2[n]
  <2>1. M \in Nat /\ M > 0 /\ m \in 0..(M - 1)
    BY TwoAt
  <2> HIDE DEF M
  <2>2. M * 0 = 0 /\ m \in Int
    BY <2>1
  <2>3. m = M * 0 + m
    BY <2>2
  <2>4. (m % M) = m
    BY <2>1, <2>2, <2>3, EuclidUnique
  <2>5. QED BY <2>4 DEF M
<1> HIDE DEF Rest
<1>8. QED BY <1>6, <1>7

\* The bit that an operation makes of two.
Together(o, p, q) ==
  CASE o = "and" -> p * q
    [] o = "or" -> IF p + q > 0 THEN 1 ELSE 0
    [] o = "xor" -> (p + q) % 2

LEMMA TogetherIs ==
  ASSUME NEW p \in {0, 1}, NEW q \in {0, 1}
  PROVE  /\ \A o \in BitOps : Together(o, p, q) \in {0, 1}
         /\ Together("and", p, q) + Together("or", p, q) = p + q
         /\ Together("xor", p, q) + Together("and", p, q) = Together("or", p, q) + 0
<1>1. /\ Together("and", p, q) = p * q
      /\ Together("or", p, q) = IF p + q > 0 THEN 1 ELSE 0
      /\ Together("xor", p, q) = (p + q) % 2
  BY DEF Together
<1>2. CASE p = 0 /\ q = 0
  BY <1>1, <1>2 DEF BitOps
<1>3. CASE p = 0 /\ q = 1
  BY <1>1, <1>3 DEF BitOps
<1>4. CASE p = 1 /\ q = 0
  BY <1>1, <1>4 DEF BitOps
<1>5. CASE p = 1 /\ q = 1
  BY <1>1, <1>5 DEF BitOps
<1>6. QED BY <1>2, <1>3, <1>4, <1>5

LEMMA SignedBitsAt ==
  ASSUME NEW o \in BitOps, NEW a \in Int, NEW b \in Int
  PROVE  /\ SignedBits(o, a, b) \in MinInt..MaxInt
         /\ \A i \in 0..(W - 1) :
              BitAt(SignedBits(o, a, b), i) = Together(o, BitAt(a, i), BitAt(b, i))
<1> DEFINE f == [i \in 0..(W - 1) |-> Together(o, BitAt(a, i), BitAt(b, i))]
           Fits(r) == \A i \in 0..(W - 1) : BitAt(r, i) = f[i]
<1>1. W \in Nat /\ \A i \in 0..(W - 1) : i \in Nat
  BY WidthFacts
<1>2. \A i \in 0..(W - 1) : f[i] \in {0, 1}
  <2>1. ASSUME NEW i \in 0..(W - 1) PROVE f[i] \in {0, 1}
    <3>1. BitAt(a, i) \in {0, 1} /\ BitAt(b, i) \in {0, 1}
      BY <1>1, BitValue
    <3>2. QED BY <3>1, TogetherIs
  <2>2. QED BY <2>1
<1>3. \E r \in MinInt..MaxInt : Fits(r)
  <2> HIDE DEF f
  <2>1. PICK m \in 0..(Pow2[W] - 1) : \A i \in 0..(W - 1) : BitAt(m, i) = f[i]
    BY <1>1, <1>2, BitsBuilt
  <2> DEFINE v == IntVal(0)
             w == BitsVal(m, v)
  <2>2. IsWhole(v) /\ v.kind = "int"
    <3>1. 0 \in MinInt..MaxInt
      BY Widths
    <3>2. QED BY <3>1 DEF IntVal, IsWhole, IsInt
  <2> HIDE DEF v
  <2>3. w.kind = "int" /\ IsWhole(w) /\ BitsOf(w) = m
    BY <2>2, BitsBack
  <2> HIDE DEF w
  <2>4. w.n \in MinInt..MaxInt
    BY <2>3 DEF IsWhole, IsInt, IsUint
  <2>5. \A i \in 0..(W - 1) : BitAt(w.n, i) = BitAt(m, i)
    <3>1. \A i \in 0..(W - 1) : Bit(w, i) = BitAt(w.n, i) /\ Bit(w, i) = BitAt(BitsOf(w), i)
      BY <2>3, BitsThere
    <3>2. QED BY <2>3, <3>1
  <2>6. QED BY <2>1, <2>4, <2>5
<1> DEFINE c == CHOOSE r \in MinInt..MaxInt : Fits(r)
<1>4. c \in MinInt..MaxInt /\ Fits(c)
  <2> HIDE DEF Fits
  <2> QED BY <1>3
<1>5. SignedBits(o, a, b) = c
  BY DEF SignedBits, BitAt, Together
<1>6. QED BY <1>4, <1>5

\* The bits of the result, on two values of one kind.
LEMMA BitOpAt ==
  ASSUME NEW o \in BitOps, NEW v, NEW w, IsWhole(v), IsWhole(w), NEW r, r = BitOp(o, v, w)
  PROVE  /\ r.kind = v.kind /\ IsWhole(r) /\ BitsOf(r) \in 0..(Pow2[W] - 1)
         /\ \A i \in 0..(W - 1) : BitAt(BitsOf(r), i) = Together(o, Bit(v, i), Bit(w, i))
<1> DEFINE AsInt(u) == BitsVal(BitsOf(u), IntVal(0))
           a == AsInt(v).n
           b == AsInt(w).n
           c == SignedBits(o, a, b)
<1>1. IsWhole(IntVal(0))
  <2>1. 0 \in MinInt..MaxInt
    BY Widths
  <2>2. QED BY <2>1 DEF IntVal, IsWhole, IsInt
<1>2. ASSUME NEW u, IsWhole(u)
      PROVE  AsInt(u).n \in Int /\ \A i \in 0..(W - 1) : BitAt(AsInt(u).n, i) = Bit(u, i)
  <2> DEFINE z == AsInt(u)
  <2>1. BitsOf(u) \in 0..(Pow2[W] - 1) /\ \A i \in 0..(W - 1) : Bit(u, i) = BitAt(BitsOf(u), i)
    BY <1>2, BitsThere
  <2>2. IsWhole(z) /\ BitsOf(z) = BitsOf(u)
    BY <1>1, <2>1, BitsBack
  <2> HIDE DEF z
  <2>3. z.n \in Int /\ \A i \in 0..(W - 1) : Bit(z, i) = BitAt(z.n, i) /\ Bit(z, i) = BitAt(BitsOf(z), i)
    BY <2>2, BitsThere
  <2>4. QED BY <2>1, <2>2, <2>3 DEF z
<1>3. a \in Int /\ b \in Int /\ \A i \in 0..(W - 1) : BitAt(a, i) = Bit(v, i) /\ BitAt(b, i) = Bit(w, i)
  BY <1>2
<1>4. r = BitsVal(BitsOf(IntVal(c)), v)
  BY DEF BitOp
<1> HIDE DEF a, b
<1>5. c \in MinInt..MaxInt /\ \A i \in 0..(W - 1) : BitAt(c, i) = Together(o, BitAt(a, i), BitAt(b, i))
  BY <1>3, SignedBitsAt
<1> HIDE DEF c
<1> DEFINE z == IntVal(c)
<1>6. IsWhole(z) /\ z.n = c
  BY <1>5 DEF IntVal, IsWhole, IsInt
<1> HIDE DEF z
<1>7. /\ BitsOf(z) \in 0..(Pow2[W] - 1)
      /\ \A i \in 0..(W - 1) : Bit(z, i) = BitAt(z.n, i) /\ Bit(z, i) = BitAt(BitsOf(z), i)
  BY <1>6, BitsThere
<1>8. r.kind = v.kind /\ IsWhole(r) /\ BitsOf(r) = BitsOf(z)
  BY <1>4, <1>7, BitsBack DEF z
<1>9. \A i \in 0..(W - 1) : BitAt(BitsOf(r), i) = Together(o, Bit(v, i), Bit(w, i))
  BY <1>3, <1>5, <1>6, <1>7, <1>8
<1>10. QED BY <1>7, <1>8, <1>9

\* and, or and xor.
LEMMA BitsCombinedHold == ASSUME CallInv PROVE BitsCombined
<1> DEFINE both == BitsOf(BitOp("and", x, y))
           either == BitsOf(BitOp("or", x, y))
<1>1. SUFFICES ASSUME Done, op \in BitOps
               PROVE  /\ result.kind = x.kind
                      /\ both + either = BitsOf(x) + BitsOf(y)
                      /\ op = "xor" => BitsOf(result) = either - both
  BY DEF BitsCombined
<1>2. Called /\ Answers(result)
  BY <1>1 DEF CallInv, Done
<1>3. op \notin Arithmetic \cup Relations \cup Extremes \cup Roundings \cup Shifts
                   \cup {"%", "neg", "int", "uint", "double", "abs", "sign", "not"}
  BY <1>1 DEF Arithmetic, Relations, Extremes, Roundings, Shifts, BitOps
<1>4. IsWhole(x) /\ IsWhole(y)
  <2>1. Calls(op) = (Ints \X Ints) \cup (Uints \X Uints)
    BY <1>1, <1>3 DEF Calls
  <2>2. x \in Ints \cup Uints /\ y \in Ints \cup Uints
    BY <1>2, <2>1 DEF Called
  <2>3. QED BY <2>2, WholeOperands
<1>5. result = BitOp(op, x, y)
  BY <1>1, <1>2, <1>3 DEF Answers, Shifts
<1> DEFINE u == Pow2[W] - 1
           other == BitsOf(BitOp("xor", x, y))
<1>6. /\ both \in 0..u /\ either \in 0..u /\ other \in 0..u
      /\ \A i \in 0..(W - 1) :
           /\ BitAt(both, i) = Together("and", Bit(x, i), Bit(y, i))
           /\ BitAt(either, i) = Together("or", Bit(x, i), Bit(y, i))
           /\ BitAt(other, i) = Together("xor", Bit(x, i), Bit(y, i))
  <2>1. "and" \in BitOps /\ "or" \in BitOps /\ "xor" \in BitOps
    BY DEF BitOps
  <2>2. QED BY <1>4, <2>1, BitOpAt
<1>7. result.kind = x.kind
  BY <1>1, <1>4, <1>5, BitOpAt
<1>8. BitsOf(x) \in 0..u /\ BitsOf(y) \in 0..u
  BY <1>4, BitsThere
<1>9. W \in Nat /\ u \in Nat /\ 0 \in 0..u
  <2>1. Pow2[W] \in Nat /\ Pow2[W] >= 1
    BY WidthFacts, TwoAt
  <2>2. QED BY <2>1, WidthFacts
<1>10. ASSUME NEW i \in 0..(W - 1)
       PROVE  /\ BitAt(both, i) + BitAt(either, i) = BitAt(BitsOf(x), i) + BitAt(BitsOf(y), i)
              /\ BitAt(other, i) + BitAt(both, i) = BitAt(either, i) + BitAt(0, i)
  <2>1. Bit(x, i) = BitAt(BitsOf(x), i) /\ Bit(y, i) = BitAt(BitsOf(y), i)
    BY <1>4, BitsThere
  <2>2. i \in Nat /\ BitsOf(x) \in Int /\ BitsOf(y) \in Int
    BY <1>8, <1>9
  <2>3. Bit(x, i) \in {0, 1} /\ Bit(y, i) \in {0, 1}
    BY <2>1, <2>2, BitValue
  <2>4. BitAt(0, i) = 0
    BY <2>2, ZeroBits
  <2>5. QED BY <1>6, <2>1, <2>3, <2>4, TogetherIs
<1> HIDE DEF both, either, other
<1>11. both + either = BitsOf(x) + BitsOf(y)
  <2> DEFINE p == BitsOf(x)
             q == BitsOf(y)
  <2>1. /\ p \in 0..(Pow2[W] - 1) /\ q \in 0..(Pow2[W] - 1)
        /\ both \in 0..(Pow2[W] - 1) /\ either \in 0..(Pow2[W] - 1)
        /\ \A i \in 0..(W - 1) : BitAt(both, i) + BitAt(either, i) = BitAt(p, i) + BitAt(q, i)
    BY <1>6, <1>8, <1>10
  <2> HIDE DEF p, q
  <2>2. both + either = p + q
    BY <1>9, <2>1, SumOfBits
  <2>3. QED BY <2>2 DEF p, q
<1>12. other + both = either + 0
  BY <1>6, <1>9, <1>10, SumOfBits
<1>13. other = either - both
  BY <1>6, <1>9, <1>12
<1>14. QED BY <1>5, <1>7, <1>11, <1>13 DEF other

\* The rounding functions, greatest and least, sign and abs, the shifts and
\* the bit operations are exact on operands of any width (130_ext_math.sql);
\* round is one too large where the half it adds is rounded, and trunc moves
\* by what 15 digits leave out.
THEOREM MathHolds == Spec => []MathExact
<1>1. CallInv => MathExact
  BY WholeNumbersHold, TruncHolds, ExtremesHold, SignsHold, BitsMovedHold, BitsCombinedHold DEF MathExact
<1>2. QED BY <1>1, AlwaysCall, PTL
=============================================================================
