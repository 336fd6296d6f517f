----------------------------- MODULE PgNumeric -----------------------------
(***************************************************************************)
(* The arithmetic of PostgreSQL that the standard library calls, at a      *)
(* small scale: numeric (exact, except that / rounds its quotient to a     *)
(* number of digits that depends on the operands), float8 (IEEE rounding,  *)
(* but an exception where a finite result leaves the range) and the cast   *)
(* of a float8 to numeric, which keeps some of its decimal digits.         *)
(* A float8 is a sign and a magnitude, a number of units 2^-F that has at  *)
(* most P significant bits.                                                *)
(***************************************************************************)
EXTENDS Integers

CONSTANTS
  Base,   \* base of a numeric digit; 10000
  Sig,    \* NUMERIC_MIN_SIG_DIGITS in such digits; 4
  P,      \* significant bits of a float8; 53
  E,      \* exponent of the greatest ones: (2^P - 1) * 2^E units
  F,      \* fractional bits: the least float8 is 2^-F
  Dig     \* DBL_DIG, the decimal digits every float8 can carry; 15

ASSUME ScaleAssumption ==
  Base \in Nat /\ Base > 1 /\ Sig \in Nat /\ P \in Nat \ {0} /\ E \in Nat \ {0} /\ F \in Nat \ {0}

\* Powers are written out as recursive functions, since the provers have no
\* facts about ^.
PowTen[k \in Nat] == IF k = 0 THEN 1 ELSE 10 * PowTen[k - 1]
Pow2[k \in Nat] == IF k = 0 THEN 1 ELSE 2 * Pow2[k - 1]
PowBase[k \in Nat] == IF k = 0 THEN 1 ELSE Base * PowBase[k - 1]

\* Below 10^Dig, every whole number is a float8.
ASSUME DigitsAssumption == Dig \in Nat \ {0} /\ PowTen[Dig] <= Pow2[P]

Abs(n) == IF n < 0 THEN -n ELSE n
Sgn(n) == IF n < 0 THEN -1 ELSE 1

-----------------------------------------------------------------------------
(***************************************************************************)
(* numeric / numeric, with trunc(_, 0) around it, and mod.                 *)
(***************************************************************************)
\* The weight of the first digit of n > 0, and that digit.
Weight(n) == CHOOSE w \in 0..n : PowBase[w] <= n /\ n < PowBase[w + 1]
FirstDigit(n) == n \div PowBase[Weight(n)]

\* select_div_scale: the more digits the quotient has before the point, the
\* fewer it gets after it.
DivScale(m, n) ==
  LET weight == Weight(m) - Weight(n) - (IF FirstDigit(m) <= FirstDigit(n) THEN 1 ELSE 0)
  IN IF weight >= Sig THEN 0 ELSE Sig - weight

\* The quotient is rounded, half away from zero, before trunc sees it.
TruncOfDiv(x, y) ==
  IF x = 0 THEN 0
  ELSE LET m == Abs(x)
           n == Abs(y)
           unit == PowBase[DivScale(m, n)]
           rounded == (2 * m * unit + n) \div (2 * n)
       IN Sgn(x) * Sgn(y) * (rounded \div unit)

\* mod is exact; the remainder has the sign of the dividend.
Mod(x, y) == Sgn(x) * (Abs(x) % Abs(y))

-----------------------------------------------------------------------------
(***************************************************************************)
(* float8.                                                                 *)
(***************************************************************************)
MaxMag == (Pow2[P] - 1) * Pow2[E]
Beyond == Pow2[P] * Pow2[E]

Mags == {m \in 0..MaxMag : \E k \in 0..E : m % Pow2[k] = 0 /\ m \div Pow2[k] < Pow2[P]}

Float(sgn, mag) == [sgn |-> sgn, mag |-> mag]
Inf(sgn) == Float(sgn, Beyond)
NaN == Float(1, -1)

Floats == [sgn : {1, -1}, mag : Mags \cup {Beyond}] \cup {NaN}

IsInf(f) == f.mag = Beyond
Finite(f) == f.mag \in 0..MaxMag

\* f < g, f <> g included; false on NaN.
Signed(f) == f.sgn * f.mag

\* num / step, to the nearest whole number, ties to even.
Nearest(num, step) ==
  LET q == num \div step
      r == 2 * (num % step)
  IN IF r > step \/ (r = step /\ q % 2 = 1) THEN q + 1 ELSE q

\* num / den units, to the nearest magnitude, ties to even; Beyond when that
\* is past the greatest one.
Round(num, den) ==
  LET k == CHOOSE j \in 0..E : (j = E \/ num < den * Pow2[P + j]) /\ (j = 0 \/ num >= den * Pow2[P + j - 1])
      n == Nearest(num, den * Pow2[k])
  IN IF n * Pow2[k] > MaxMag THEN Beyond ELSE n * Pow2[k]

\* The whole part of float8::numeric, which prints the float8 with "%.15g":
\* with Dig digits, of which some may be behind the point.
One == Pow2[F]

WholeOfNumeric(mag) ==
  IF mag = 0 THEN 0
  ELSE IF mag < PowTen[Dig] * One
    THEN LET places == CHOOSE b \in 0..(F + Dig) :
                         /\ mag * PowTen[b] < PowTen[Dig] * One
                         /\ mag * PowTen[b + 1] >= PowTen[Dig] * One
         IN Nearest(mag * PowTen[places], One) \div PowTen[places]
    ELSE LET zeros == CHOOSE a \in 1..(P + E) :
                        /\ mag < PowTen[Dig + a] * One
                        /\ mag >= PowTen[Dig + a - 1] * One
         IN Nearest(mag, One * PowTen[zeros]) * PowTen[zeros]

\* IEEE on operands of which one is not finite, the divisor not zero.
Special(op, f, g) ==
  CASE f = NaN \/ g = NaN -> NaN
    [] op \in {"+", "-"} ->
         LET h == IF op = "+" THEN g ELSE Float(-g.sgn, g.mag) IN
         IF IsInf(f) /\ IsInf(h) /\ f.sgn # h.sgn THEN NaN ELSE IF IsInf(f) THEN f ELSE h
    [] op = "*" -> IF f.mag = 0 \/ g.mag = 0 THEN NaN ELSE Inf(f.sgn * g.sgn)
    [] op = "/" -> IF ~ IsInf(g) THEN Inf(f.sgn * g.sgn)
                   ELSE IF IsInf(f) THEN NaN ELSE Float(f.sgn * g.sgn, 0)
=============================================================================
