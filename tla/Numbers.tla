------------------------------ MODULE Numbers ------------------------------
(***************************************************************************)
(* The numeric part of the standard library at a small width: checked int  *)
(* and uint arithmetic, double arithmetic, the conversions between them    *)
(* (060_stdlib.sql), ordering and equality across kinds (020_values.sql),  *)
(* and the math extension (130_ext_math.sql). One behaviour is one call on *)
(* any operands.                                                           *)
(***************************************************************************)
EXTENDS PgNumeric

CONSTANTS
  W,        \* bits of an int or uint; 64
  TinyNum,  \* the underflow literal 2.4703282292062327e-324 in units, as
  TinyDen   \* a fraction; a unit is 2^-1074

\* A double has fewer bits than an int, and reaches beyond all of them.
ASSUME WidthAssumption == W \in Nat /\ P + 1 < W /\ W + F < P + E

\* The literal is half a unit, cut after 17 digits.
ASSUME TinyAssumption == TinyNum \in Nat /\ TinyDen \in Nat /\ 2 * TinyNum < TinyDen

MinInt == -(Pow2[W - 1])
MaxInt == Pow2[W - 1] - 1
MaxUint == Pow2[W] - 1

IntVal(n) == [kind |-> "int", n |-> n]
UintVal(n) == [kind |-> "uint", n |-> n]
\* cel._dbl_val: the payload is a jsonb number, a numeric, which has no
\* negative zero.
DoubleVal(f) == [kind |-> "double", f |-> IF f.mag = 0 THEN Float(1, 0) ELSE f]
BoolVal(b) == [kind |-> "bool", b |-> b]
Err(why) == [kind |-> "error", why |-> why]
Raised == [kind |-> "exception"]

Ints == {IntVal(n) : n \in MinInt..MaxInt}
Uints == {UintVal(n) : n \in 0..MaxUint}
Doubles == {DoubleVal(f) : f \in Floats}

VARIABLES
  op,       \* the operation called
  x, y,     \* its operands; a unary one ignores y
  result    \* its result, once evaluated

vars == <<op, x, y, result>>

Pending == [kind |-> "pending"]

-----------------------------------------------------------------------------
(***************************************************************************)
(* int and uint.                                                           *)
(***************************************************************************)
ChkInt(n) == IF n < MinInt \/ n > MaxInt THEN Err("overflow") ELSE IntVal(n)
ChkUint(n) == IF n < 0 \/ n > MaxUint THEN Err("overflow") ELSE UintVal(n)

Ring(o, a, b) == CASE o = "+" -> a + b [] o = "-" -> a - b [] o = "*" -> a * b

DivideInt(a, b) == IF b = 0 THEN Err("zero") ELSE ChkInt(TruncOfDiv(a, b))
DivideUint(a, b) == IF b = 0 THEN Err("zero") ELSE ChkUint(TruncOfDiv(a, b))

\* Variant: without the sentinel.
ModuloIntPlain(a, b) == IF b = 0 THEN Err("zero") ELSE IntVal(Mod(a, b))

\* MinInt % -1 is an overflow.
ModuloInt(a, b) ==
  IF b = 0 THEN Err("zero")
  ELSE IF a = MinInt /\ b = -1 THEN Err("overflow") ELSE IntVal(Mod(a, b))

ModuloUint(a, b) == IF b = 0 THEN Err("zero") ELSE ChkUint(Mod(a, b))

IntOp(o, a, b) ==
  CASE o \in {"+", "-", "*"} -> ChkInt(Ring(o, a, b))
    [] o = "/" -> DivideInt(a, b)
    [] o = "%" -> ModuloInt(a, b)
    [] o = "neg" -> ChkInt(-a)

UintOp(o, a, b) ==
  CASE o \in {"+", "-", "*"} -> ChkUint(Ring(o, a, b))
    [] o = "/" -> DivideUint(a, b)
    [] o = "%" -> ModuloUint(a, b)

-----------------------------------------------------------------------------
(***************************************************************************)
(* double: finite operands go through numeric, num / den being the exact   *)
(* result in units.                                                        *)
(***************************************************************************)
\* Variant: the greatest finite double.
BoundaryLow == MaxMag

\* 2^1024 - 2^970, where rounding reaches infinity.
Boundary == (Pow2[P + 1] - 1) * Pow2[E - 1]

\* abs(n) <= 2.4703282292062327e-324.
Tiny(num, den) == num * TinyDen <= TinyNum * den

\* A cast or a float8 operation that rounds out of range is an exception.
Cast(sgn, num, den) ==
  IF num = 0 THEN DoubleVal(Float(1, 0))
  ELSE IF Round(num, den) \in {0, Beyond} THEN Raised
  ELSE DoubleVal(Float(sgn, Round(num, den)))

\* cel._dbl_of_numeric; the division makes the same tests on its operands.
DblOfNumeric(sgn, num, den) ==
  IF num >= Boundary * den THEN DoubleVal(Inf(sgn))
  ELSE IF num # 0 /\ Tiny(num, den) THEN DoubleVal(Float(sgn, 0))
  ELSE Cast(sgn, num, den)

DivideFinite(f, g) ==
  IF g.mag = 0 THEN DoubleVal(IF f.mag = 0 THEN NaN ELSE Inf(f.sgn * g.sgn))
  ELSE IF f.mag = 0 THEN DoubleVal(Float(f.sgn * g.sgn, 0))
  ELSE DblOfNumeric(f.sgn * g.sgn, f.mag * Pow2[F], g.mag)

DblBin(o, f, g) ==
  IF ~ Finite(f) \/ ~ Finite(g)
    THEN IF o = "/" /\ g.mag = 0
           THEN DoubleVal(IF f = NaN THEN NaN ELSE Inf(f.sgn * g.sgn))
           ELSE DoubleVal(Special(o, f, g))
  ELSE IF o = "/" THEN DivideFinite(f, g)
  ELSE IF o = "*" THEN DblOfNumeric(f.sgn * g.sgn, f.mag * g.mag, Pow2[F])
  ELSE LET n == Ring(o, Signed(f), Signed(g)) IN DblOfNumeric(Sgn(n), Abs(n), 1)

-----------------------------------------------------------------------------
(***************************************************************************)
(* Ordering and equality.                                                  *)
(***************************************************************************)
Sign(d) == IF d < 0 THEN -1 ELSE IF d > 0 THEN 1 ELSE 0

\* n::float8, in units.
Widen(n) == Sgn(n) * Round(Abs(n) * Pow2[F], 1)

\* A double against an int or uint: the bounds of the kind first (as float8
\* they round up), then the integer is widened.
DoubleAgainst(f, lo, hi, n) ==
  IF Signed(f) < Widen(lo) THEN -1
  ELSE IF Signed(f) > Widen(hi) THEN 1
  ELSE Sign(Signed(f) - Widen(n))

Bounds(v) == IF v.kind = "int" THEN <<MinInt, MaxInt>> ELSE <<0, MaxUint>>

\* Variant: one direction loses its sign.
CompareUnmirrored(a, b) ==
  IF NaN \in {v.f : v \in {u \in {a, b} : u.kind = "double"}} THEN Err("nan")
  ELSE IF a.kind = "double" /\ b.kind = "double" THEN IntVal(Sign(Signed(a.f) - Signed(b.f)))
  ELSE IF a.kind = "double" THEN IntVal(DoubleAgainst(a.f, Bounds(b)[1], Bounds(b)[2], b.n))
  ELSE IF b.kind = "double" THEN IntVal(DoubleAgainst(b.f, Bounds(a)[1], Bounds(a)[2], a.n))
  ELSE IntVal(Sign(a.n - b.n))

\* cel._compare on numbers.
Compare(a, b) ==
  IF NaN \in {v.f : v \in {u \in {a, b} : u.kind = "double"}} THEN Err("nan")
  ELSE IF a.kind = "double" /\ b.kind = "double" THEN IntVal(Sign(Signed(a.f) - Signed(b.f)))
  ELSE IF a.kind = "double" THEN IntVal(DoubleAgainst(a.f, Bounds(b)[1], Bounds(b)[2], b.n))
  ELSE IF b.kind = "double" THEN IntVal(-DoubleAgainst(b.f, Bounds(a)[1], Bounds(a)[2], a.n))
  ELSE IntVal(Sign(a.n - b.n))

\* cel._equal on numbers: NaN equals nothing.
Equal(a, b) == Compare(a, b) = IntVal(0)

\* cel._f_lt, _f_le, _f_gt, _f_ge.
Relation(o, a, b) ==
  LET c == Compare(a, b) IN
  IF c.kind = "error" THEN c
  ELSE BoolVal(CASE o = "<" -> c.n < 0 [] o = "<=" -> c.n <= 0
              [] o = ">" -> c.n > 0 [] o = ">=" -> c.n >= 0)

-----------------------------------------------------------------------------
(***************************************************************************)
(* Conversions.                                                            *)
(***************************************************************************)
\* Both boundaries, as float8, are overflow; then truncation.
DoubleToInt(f) ==
  IF ~ Finite(f) \/ Signed(f) <= Widen(MinInt) \/ Signed(f) >= Widen(MaxInt)
    THEN Err("overflow")
    ELSE IntVal(f.sgn * (f.mag \div Pow2[F]))

\* Variant: the fraction is rounded up.
DoubleToUintRounded(f) ==
  IF ~ Finite(f) \/ Signed(f) < 0 \/ Signed(f) >= Widen(MaxUint)
    THEN Err("overflow")
    ELSE UintVal((f.mag + Pow2[F] - 1) \div Pow2[F])

DoubleToUint(f) ==
  IF ~ Finite(f) \/ Signed(f) < 0 \/ Signed(f) >= Widen(MaxUint)
    THEN Err("overflow")
    ELSE UintVal(f.mag \div Pow2[F])

Convert(o, a) ==
  CASE o = "int" -> IF a.kind = "double" THEN DoubleToInt(a.f) ELSE ChkInt(a.n)
    [] o = "uint" -> IF a.kind = "double" THEN DoubleToUint(a.f) ELSE ChkUint(a.n)
    [] o = "double" -> IF a.kind = "double" THEN a ELSE Cast(Sgn(a.n), Abs(a.n) * Pow2[F], 1)

-----------------------------------------------------------------------------
(***************************************************************************)
(* The math extension: 130_ext_math.sql.                                   *)
(***************************************************************************)
\* The whole number of units below n.
WholeBelow(n) == n - (n % One)
FromUnits(n) == DoubleVal(Float(Sgn(n), Abs(n)))

\* floor(f + 0.5) on the magnitude: the sum is rounded to a float8 first.
RoundHalf(f) ==
  DoubleVal(Float(f.sgn, WholeBelow(Round(f.mag + One \div 2, 1))))

\* trunc goes through float8::numeric and back.
Rounding(o, f) ==
  IF ~ Finite(f) THEN DoubleVal(f)
  ELSE CASE o = "ceil" -> FromUnits(-WholeBelow(-Signed(f)))
         [] o = "floor" -> FromUnits(WholeBelow(Signed(f)))
         [] o = "trunc" -> Cast(f.sgn, WholeOfNumeric(f.mag) * One, 1)
         [] o = "round" -> RoundHalf(f)

\* cel._math_pair: the first of two that compare equal.
Extreme(o, a, b) ==
  LET c == Compare(a, b) IN
  IF c.kind = "error" THEN c
  ELSE IF c.n = (IF o = "greatest" THEN -1 ELSE 1) THEN b ELSE a

Magnitude(a) ==
  CASE a.kind = "double" -> DoubleVal(IF a.f = NaN THEN NaN ELSE Float(1, a.f.mag))
    [] a.kind = "int" -> IF a.n = MinInt THEN Err("overflow") ELSE IntVal(Abs(a.n))
    [] a.kind = "uint" -> a

Signum(a) ==
  CASE a.kind = "double" ->
         DoubleVal(IF a.f = NaN THEN NaN ELSE IF a.f.mag = 0 THEN a.f ELSE Float(a.f.sgn, One))
    [] a.kind = "int" -> IntVal(Sign(a.n))
    [] a.kind = "uint" -> UintVal(Sign(a.n))

\* Two's complement: onto 0..2^W - 1 and back.
BitsOf(v) == v.n % Pow2[W]
BitsVal(u, v) ==
  IF v.kind = "uint" THEN UintVal(u) ELSE IntVal(IF u >= Pow2[W - 1] THEN u - Pow2[W] ELSE u)

ShiftLeft(v, k) ==
  IF k < 0 THEN Err("offset")
  ELSE IF k >= W THEN BitsVal(0, v) ELSE BitsVal((BitsOf(v) * Pow2[k]) % Pow2[W], v)

\* Variant: the value's sign is shifted in.
ShiftRightSigned(v, k) ==
  IF k < 0 THEN Err("offset")
  ELSE IF k >= W THEN BitsVal(0, v) ELSE BitsVal((v.n \div Pow2[k]) % Pow2[W], v)

ShiftRight(v, k) ==
  IF k < 0 THEN Err("offset")
  ELSE IF k >= W THEN BitsVal(0, v) ELSE BitsVal(BitsOf(v) \div Pow2[k], v)

\* a & b, a | b and a # b on a signed integer.
SignedBits(o, a, b) ==
  CHOOSE r \in MinInt..MaxInt :
    \A i \in 0..(W - 1) :
      LET bit(n) == (n \div Pow2[i]) % 2
      IN bit(r) = CASE o = "and" -> bit(a) * bit(b)
                    [] o = "or" -> IF bit(a) + bit(b) > 0 THEN 1 ELSE 0
                    [] o = "xor" -> (bit(a) + bit(b)) % 2

\* A uint travels as the int with the same bits.
BitOp(o, v, w) ==
  LET AsInt(u) == BitsVal(BitsOf(u), IntVal(0))
  IN BitsVal(BitsOf(IntVal(SignedBits(o, AsInt(v).n, AsInt(w).n))), v)

Complement(v) == IF v.kind = "uint" THEN UintVal(MaxUint - v.n) ELSE IntVal(-v.n - 1)

-----------------------------------------------------------------------------
Roundings == {"ceil", "floor", "round", "trunc"}
Extremes == {"greatest", "least"}
Shifts == {"shl", "shr"}
BitOps == {"and", "or", "xor"}
MathOps == Roundings \cup Extremes \cup Shifts \cup BitOps \cup {"abs", "sign", "not"}

Arithmetic == {"+", "-", "*", "/"}
Relations == {"<", "<=", ">", ">=", "=="}

Calls(o) ==
  CASE o \in Arithmetic -> (Ints \X Ints) \cup (Uints \X Uints) \cup (Doubles \X Doubles)
    [] o = "%" -> (Ints \X Ints) \cup (Uints \X Uints)
    [] o = "neg" -> (Ints \cup Doubles) \X {IntVal(0)}
    [] o \in Relations -> (Ints \cup Uints \cup Doubles) \X (Ints \cup Uints \cup Doubles)
    [] o \in {"int", "uint", "double", "abs", "sign"} -> (Ints \cup Uints \cup Doubles) \X {IntVal(0)}
    [] o \in Extremes -> (Ints \cup Uints \cup Doubles) \X (Ints \cup Uints \cup Doubles)
    [] o \in Roundings -> Doubles \X {IntVal(0)}
    [] o \in Shifts -> (Ints \cup Uints) \X Ints
    [] o \in BitOps -> (Ints \X Ints) \cup (Uints \X Uints)
    [] o = "not" -> (Ints \cup Uints) \X {IntVal(0)}

CONSTANT Ops   \* the operations considered

ASSUME OpsAssumption ==
  Ops \subseteq Arithmetic \cup Relations \cup MathOps \cup {"%", "neg", "int", "uint", "double"}

Init ==
  /\ op \in Ops
  /\ \E call \in Calls(op) : x = call[1] /\ y = call[2]
  /\ result = Pending

Evaluates(v) ==
  /\ result = Pending
  /\ result' = v
  /\ UNCHANGED <<op, x, y>>

CallInt == op \in Arithmetic \cup {"%", "neg"} /\ x.kind = "int" /\ Evaluates(IntOp(op, x.n, y.n))

CallUint == op \in Arithmetic \cup {"%"} /\ x.kind = "uint" /\ Evaluates(UintOp(op, x.n, y.n))

CallDouble == op \in Arithmetic /\ x.kind = "double" /\ Evaluates(DblBin(op, x.f, y.f))

NegateDouble ==
  /\ op = "neg" /\ x.kind = "double"
  /\ Evaluates(DoubleVal(IF x.f = NaN THEN NaN ELSE Float(-x.f.sgn, x.f.mag)))

CallRelation ==
  /\ op \in Relations
  /\ Evaluates(IF op = "==" THEN BoolVal(Equal(x, y)) ELSE Relation(op, x, y))

CallConversion == op \in {"int", "uint", "double"} /\ Evaluates(Convert(op, x))

CallRounding == op \in Roundings /\ Evaluates(Rounding(op, x.f))

CallExtreme == op \in Extremes /\ Evaluates(Extreme(op, x, y))

CallMagnitude ==
  \/ op = "abs" /\ Evaluates(Magnitude(x))
  \/ op = "sign" /\ Evaluates(Signum(x))

CallBits ==
  \/ op \in BitOps /\ Evaluates(BitOp(op, x, y))
  \/ op = "shl" /\ Evaluates(ShiftLeft(x, y.n))
  \/ op = "shr" /\ Evaluates(ShiftRight(x, y.n))
  \/ op = "not" /\ Evaluates(Complement(x))

Next ==
  \/ CallInt \/ CallUint \/ CallDouble \/ NegateDouble \/ CallRelation \/ CallConversion
  \/ CallRounding \/ CallExtreme \/ CallMagnitude \/ CallBits

Spec == Init /\ [][Next]_vars

-----------------------------------------------------------------------------
(***************************************************************************)
(* Properties.                                                             *)
(***************************************************************************)
Done == result # Pending

\* Division of int and uint truncates towards zero (060_stdlib.sql, 15-16:
\* "Postgres numeric is exact").
Truncates(q, a, b) ==
  /\ Abs(q * b) <= Abs(a) /\ Abs(a) < Abs(q * b) + Abs(b)
  /\ q # 0 => Sgn(q) = Sgn(a) * Sgn(b)

DivisionExact ==
  op = "/" /\ x.kind # "double" /\ result.kind = x.kind => Truncates(result.n, x.n, y.n)

\* What holds of it: / and % fail on the same operands; below 2 * 10^16 the
\* quotient is the truncated one and the two satisfy a = (a / b) * b + a % b;
\* beyond, it may be one step too far from zero.
QuotientNearlyExact ==
  Done /\ op = "/" /\ x.kind # "double" =>
    LET rest == IF x.kind = "int" THEN ModuloInt(x.n, y.n) ELSE ModuloUint(x.n, y.n) IN
    IF result.kind = "error" THEN rest.kind = "error"
    ELSE /\ rest.kind = x.kind
         /\ result.n * y.n + rest.n = x.n
              \/ /\ Abs(x.n) >= 2 * PowBase[Sig]
                 /\ result.n * y.n + rest.n = x.n + Sgn(x.n) * Abs(y.n)

\* IEEE 754 on finite operands, without a look at the boundaries: the exact
\* result num / den rounded once, infinite beyond the range.
Exact(o, f, g) ==
  CASE o \in {"+", "-"} -> <<Ring(o, Signed(f), Signed(g)), 1>>
    [] o = "*" -> <<Signed(f) * Signed(g), Pow2[F]>>
    [] o = "/" -> <<Signed(f) * g.sgn * Pow2[F], g.mag>>

\* Doubles are computed as IEEE 754 demands, the sign of a zero aside, but for
\* the strip of results from the literal to half the least double, which
\* would round to zero and raise.
RoundedLikeIeee ==
  Done /\ op \in Arithmetic /\ x.kind = "double" /\ Finite(x.f) /\ Finite(y.f)
       /\ (op = "/" => y.f.mag # 0) =>
    LET n == Exact(op, x.f, y.f)
        mag == Round(Abs(n[1]), n[2])
    IN IF 2 * Abs(n[1]) <= n[2] /\ TinyDen * Abs(n[1]) > TinyNum * n[2]
         THEN result = Raised
       ELSE /\ result.kind = "double" /\ result.f.mag = mag
            /\ mag # 0 => result.f.sgn = Sgn(n[1])

\* "the true rounding boundaries: [...] 2^-1075 for underflow", because
\* "Postgres raises [...] where IEEE wants": 060_stdlib.sql, 178-183.
NeverRaises == op \in Arithmetic => result # Raised

\* A number on the scale of the doubles, an int or uint rounded to it when
\* the other operand is a double.
OnScale(v, other) ==
  IF v.kind = "double" THEN Signed(v.f)
  ELSE IF other.kind = "double" THEN Widen(v.n) ELSE v.n * Pow2[F]

Holds(o, d) ==
  CASE o = "<" -> d < 0 [] o = "<=" -> d <= 0 [] o = ">" -> d > 0
    [] o = ">=" -> d >= 0 [] o = "==" -> d = 0

\* A number exactly, in units.
Units(v) == IF v.kind = "double" THEN Signed(v.f) ELSE v.n * One

\* v is a double and w a whole number that is none; no other double is nearer
\* to w than v.
Blurred(v, w) ==
  /\ v.kind = "double" /\ w.kind # "double" /\ Abs(Units(w)) \notin Mags
  /\ \A m \in Mags : \A s \in {1, -1} : Abs(Units(v) - Units(w)) <= Abs(s * m - Units(w))

\* The relations and == are those of the exact numbers, in all kinds and in
\* both directions, whichever bounds are tested on the way, except that a
\* whole number may equal the double nearest to it if it is none itself; NaN
\* is unordered.
RelationsNumeric ==
  Done /\ op \in Relations =>
    IF \E v \in {x, y} : v.kind = "double" /\ v.f = NaN
      THEN result = IF op = "==" THEN BoolVal(FALSE) ELSE Err("nan")
      ELSE \/ result = BoolVal(Holds(op, Units(x) - Units(y)))
           \/ /\ Blurred(x, y) \/ Blurred(y, x)
              /\ result = BoolVal(Holds(op, 0))

\* "a bare widen would call 9223372036854775807 equal to 2^63 as a double",
\* the bounds check would not: 020_values.sql, 260-263.
BoundsTellApart ==
  Done /\ op = "==" /\ x = IntVal(MaxInt) /\ y.kind = "double" =>
    (Signed(y.f) = Pow2[W - 1] * One => result = BoolVal(FALSE))

\* Conversion and equality agree: a number equals what it converts to,
\* unless a fraction is cut off; and it converts back to itself unless it
\* needs more bits than a double has or rounds to a bound of its kind.
ConversionsAgree ==
  Done /\ op \in {"int", "uint", "double"} /\ result.kind = op =>
    IF x.kind = "double"
      THEN IF x.f.mag % Pow2[F] = 0 \/ op = "double"
             THEN x.f = NaN \/ Equal(result, x)
             ELSE Compare(result, x) = IntVal(-x.f.sgn)
      ELSE /\ Equal(result, x)
           /\ Abs(x.n) < Pow2[P] => Convert(x.kind, result) = x

\* The nearest whole number to mag, in units, a half being rounded up.
HalfAway(mag) == WholeBelow(mag + One \div 2)

\* "math.Round: half away from zero": 130_ext_math.sql, 107.
RoundsHalfAway ==
  Done /\ op = "round" /\ Finite(x.f) => result.f.mag = HalfAway(x.f.mag)

\* ceil and floor are exact; round is, if the double has a bit to spare for
\* the half that is added, and otherwise is one too large at most.
WholeNumbers ==
  Done /\ op \in Roundings \ {"trunc"} /\ Finite(x.f) =>
    LET d == Signed(x.f) - Signed(result.f) IN
    /\ Signed(result.f) % One = 0
    /\ CASE op = "ceil" -> -d \in 0..(One - 1)
         [] op = "floor" -> d \in 0..(One - 1)
         [] op = "round" ->
              result.f.mag - HalfAway(x.f.mag) \in
                IF x.f.mag + One \div 2 \in Mags THEN {0} ELSE {0, One}

\* math.trunc cuts the fraction off what the cast "identifies [...] uniquely":
\* 020_values.sql, 463-464.
TruncCutsOff ==
  Done /\ op = "trunc" /\ Finite(x.f) =>
    result = DoubleVal(Float(x.f.sgn, WholeBelow(x.f.mag)))

\* What holds of it: below 10^15, whole numbers stay and others lose their
\* fraction, unless 15 digits do not tell them from the next whole number,
\* to which they go; from there on, whole numbers move by their last digits,
\* beyond the greatest double with an exception.
TruncNearlyExact ==
  Done /\ op = "trunc" /\ Finite(x.f) =>
    LET mag == x.f.mag
        r == IF result = Raised THEN Beyond ELSE result.f.mag
        near(n) == Abs(n - mag) * PowTen[Dig - 1]
    IN /\ r % One = 0
       /\ result # Raised /\ r # 0 => result.f.sgn = x.f.sgn
       /\ IF mag < PowTen[Dig] * One
            THEN /\ result # Raised
                 /\ \/ r = WholeBelow(mag)
                    \/ r = WholeBelow(mag) + One /\ mag # WholeBelow(mag) /\ 2 * near(r) <= mag
            ELSE near(r) <= mag

\* greatest and least answer an operand that no other one exceeds, whatever
\* the kinds; an int and a double that are equal do not change places.
ExtremesNumeric ==
  Done /\ op \in Extremes /\ result.kind # "error" =>
    \A v \in {x, y} :
      LET d == OnScale(result, v) - OnScale(v, result)
      IN /\ Holds(IF op = "greatest" THEN ">=" ELSE "<=", d)
         /\ v = x /\ d = 0 => result = x

\* A number is its sign times its magnitude, if it has one.
SignTimesAbs ==
  Done /\ op = "sign" /\ x # DoubleVal(NaN) /\ Magnitude(x).kind # "error" =>
    IF x.kind = "double" THEN Signed(result.f) * Signed(Magnitude(x).f) = One * Signed(x.f)
    ELSE result.n * Magnitude(x).n = x.n

\* Bit i of a number in two's complement.
Bit(v, i) == (BitsOf(v) \div Pow2[i]) % 2

\* Shifts and complement move, or flip, the bits one by one: nothing of the
\* sign is shifted in, and what is shifted past either end is gone.
BitsMoved ==
  Done /\ op \in Shifts \cup {"not"} /\ result.kind # "error" =>
    /\ result.kind = x.kind
    /\ \A i \in 0..(W - 1) :
         LET j == IF op = "shl" THEN i - y.n ELSE IF op = "shr" THEN i + y.n ELSE i
         IN Bit(result, i) = IF op = "not" THEN 1 - Bit(x, i)
                             ELSE IF j \in 0..(W - 1) THEN Bit(x, j) ELSE 0

\* Taken as numbers from 0 to 2^W - 1, what two operands have in common and
\* what either has add up to their sum; xor is the difference of the two.
BitsCombined ==
  Done /\ op \in BitOps =>
    LET both == BitsOf(BitOp("and", x, y))
        either == BitsOf(BitOp("or", x, y))
    IN /\ result.kind = x.kind
       /\ both + either = BitsOf(x) + BitsOf(y)
       /\ op = "xor" => BitsOf(result) = either - both

\* The math extension computes what its names say on every operand, up to
\* what round and trunc get wrong.
MathExact == WholeNumbers /\ TruncNearlyExact /\ ExtremesNumeric /\ SignTimesAbs /\ BitsMoved /\ BitsCombined
=============================================================================
