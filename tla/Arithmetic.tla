----------------------------- MODULE Arithmetic -----------------------------
(***************************************************************************)
(* The arithmetic the compiler calls for: the bit counts of bitops.c, and  *)
(* the floating functions of math_runtime.c and stdlib.c.  A float here    *)
(* has Precision significant bits; its magnitude is counted in the         *)
(* smallest one, of which there are One in 1.0; the largest is Largest.    *)
(***************************************************************************)
EXTENDS Printing

-------------------------------------------------------------------------------
(***************************************************************************)
(* Bits of a value of so many bits.                                        *)
(***************************************************************************)
BitSet(v, bits) == {i \in 0 .. bits - 1 : (v \div 2 ^ i) % 2 = 1}

RECURSIVE FirstSetBit(_, _), LeadingZeros(_, _), TrailingZeros(_), Popcount(_)
FirstSetBit(v, position) ==
    IF v = 0 THEN 0 ELSE IF v % 2 = 1 THEN position ELSE FirstSetBit(v \div 2, position + 1)
Ffs(v) == FirstSetBit(v, 1)

\* From the bit of the mask down.
LeadingZeros(v, mask) == IF v \div mask = 1 THEN 0 ELSE 1 + LeadingZeros(v, mask \div 2)
Clz(v, bits) == IF v = 0 THEN bits ELSE LeadingZeros(v, 2 ^ (bits - 1))

TrailingZeros(v) == IF v % 2 = 1 THEN 0 ELSE 1 + TrailingZeros(v \div 2)
Ctz(v, bits) == IF v = 0 THEN bits ELSE TrailingZeros(v)

Popcount(v) == IF v = 0 THEN 0 ELSE (v % 2) + Popcount(v \div 2)
Parity(v) == Popcount(v) % 2

-------------------------------------------------------------------------------
(***************************************************************************)
(* Floats: a sign, a kind and a magnitude n; rounded to nearest, to even.  *)
(***************************************************************************)
Precision == 3
One == 2 ^ 6
Largest == (2 ^ Precision - 1) * 2 ^ 9
Smallest == 2 ^ (Precision - 1)                   \* FLT_MIN
Epsilon == One \div 2 ^ (Precision - 1)           \* FLT_EPSILON
Big == Largest \div 2                             \* RBIG_F
Big2 == (Big * Epsilon) \div One                  \* RMAX2_F

Inf(s) == [s |-> s, k |-> "inf", n |-> 0]
NaN == [s |-> 0, k |-> "nan", n |-> 0]
Fin(s, n) == [s |-> s, k |-> "fin", n |-> n]

IsNaN(v) == v.k = "nan"
IsInf(v) == v.k = "inf"
IsFinite(v) == v.k = "fin"
IsZero(v) == v.k = "fin" /\ v.n = 0
Neg(v) == IF IsNaN(v) THEN v ELSE [v EXCEPT !.s = 1 - @]
Copysign(v, w) == [v EXCEPT !.s = w.s]

\* num / den units, rounded to so many bits.
RECURSIVE Ulp(_, _, _, _)
Ulp(num, den, bits, u) == IF num < den * u * 2 ^ bits THEN u ELSE Ulp(num, den, bits, 2 * u)
RoundedTo(num, den, bits) ==
    LET u    == Ulp(num, den, bits, 1)
        q    == num \div (den * u)
        rest == 2 * (num - q * den * u)
        up   == rest > den * u \/ (rest = den * u /\ q % 2 = 1)
    IN  (IF up THEN q + 1 ELSE q) * u
Float(s, n, largest) == IF n > largest THEN Inf(s) ELSE Fin(s, n)
Round(s, num, den) == Float(s, RoundedTo(num, den, Precision), Largest)

Signed(v) == IF v.s = 1 THEN -v.n ELSE v.n
Add(v, w) ==
    CASE IsNaN(v) \/ IsNaN(w) \/ (IsInf(v) /\ IsInf(w) /\ v.s # w.s) -> NaN
      [] ~IsNaN(w) /\ IsInf(v) /\ (IsInf(w) => v.s = w.s) -> v
      [] ~IsNaN(v) /\ ~IsInf(v) /\ IsInf(w) -> w
      [] IsFinite(v) /\ IsFinite(w) ->
           LET sum == Signed(v) + Signed(w)
           IN  IF sum = 0 THEN Fin(IF v.s = 1 /\ w.s = 1 THEN 1 ELSE 0, 0)
               ELSE IF sum < 0 THEN Round(1, -sum, 1) ELSE Round(0, sum, 1)
Sub(v, w) == Add(v, Neg(w))

SignBoth(v, w) == IF v.s = w.s THEN 0 ELSE 1
Mul(v, w) ==
    CASE IsNaN(v) \/ IsNaN(w) \/ (IsInf(v) /\ IsZero(w)) \/ (IsZero(v) /\ IsInf(w)) -> NaN
      [] IsFinite(v) /\ IsFinite(w) -> Round(SignBoth(v, w), v.n * w.n, One)
      [] OTHER -> Inf(SignBoth(v, w))
Div(v, w) ==
    CASE IsNaN(v) \/ IsNaN(w) \/ (IsInf(v) /\ IsInf(w)) \/ (IsZero(v) /\ IsZero(w)) -> NaN
      [] IsFinite(v) /\ IsFinite(w) /\ w.n # 0 -> Round(SignBoth(v, w), v.n * One, w.n)
      [] IsFinite(v) /\ IsInf(w) -> Fin(SignBoth(v, w), 0)
      [] OTHER -> Inf(SignBoth(v, w))

\* |v| < n units, and |v| >= n units: neither of a NaN.
Under(v, n) == IsFinite(v) /\ v.n < n
AtLeast(v, n) == IsInf(v) \/ (IsFinite(v) /\ v.n >= n)
Smaller(v, w) == ~IsNaN(v) /\ ~IsNaN(w) /\ IsFinite(v) /\ (IsInf(w) \/ v.n < w.n)

\* fmaxl()
Less(v, w) ==
    LET rank(x) == IF IsInf(x) THEN (IF x.s = 1 THEN -1 ELSE 1) * (Largest + 1) ELSE Signed(x)
    IN  ~IsNaN(v) /\ ~IsNaN(w) /\ rank(v) < rank(w)
Fmaxl(v, w) ==
    CASE IsNaN(v) -> w
      [] ~IsNaN(v) /\ IsNaN(w) -> v
      [] Less(w, v) -> v
      [] Less(v, w) -> w
      [] ~IsNaN(v) /\ ~IsNaN(w) /\ ~Less(w, v) /\ ~Less(v, w) ->
           IF IsZero(v) /\ IsZero(w) /\ v.s = 1 THEN w ELSE v

\* ilogbl() of the fields of a double, FractionBits and a Bias for 1.0: a
\* subnormal's exponent is the least one, less the shift to its first bit.
FractionBits == Precision - 1
ExponentMask == 15
Bias == 5
Ilogb0 == -(2 ^ 30)
IlogbNaN == 2 ^ 30
IlogbInf == 2 ^ 30 - 1

RECURSIVE ShiftOf(_)
ShiftOf(fraction) ==
    IF (fraction \div 2 ^ (FractionBits - 1)) % 2 = 1 THEN 0 ELSE 1 + ShiftOf(fraction * 2)

Ilogbl(exponent, fraction) ==
    CASE exponent = 0 -> IF fraction = 0 THEN Ilogb0 ELSE 1 - Bias - ShiftOf(fraction)
      [] exponent = ExponentMask -> IF fraction = 0 THEN IlogbInf ELSE IlogbNaN
      [] OTHER -> exponent - Bias

-------------------------------------------------------------------------------
(***************************************************************************)
(* __divsc3() and __divdc3(): (a + ib) / (c + id).                         *)
(***************************************************************************)
Halved(v) == Div(v, Fin(0, 2 * One))
ScaledUp(v) == Mul(v, Div(Fin(0, One), Fin(0, Epsilon)))

\* Away from the ends of the range; by is the larger part of the divisor.
Shrunk(q, by) == IF AtLeast(by, Big) THEN [x \in DOMAIN q |-> Halved(q[x])] ELSE q
TooSmall(q, by) ==
    LET small(v, w) == Under(v, Smallest) /\ Under(w, Big2) /\ Under(by, Big2)
    IN  Under(by, Epsilon) \/ small(q.a, q.b) \/ small(q.b, q.a)

\* Fault: one part of the dividend is left as it is.
GrownButOne(q, by) ==
    IF TooSmall(q, by) THEN [x \in DOMAIN q |-> IF x = "b" THEN q[x] ELSE ScaledUp(q[x])] ELSE q

Grown(q, by) == IF TooSmall(q, by) THEN [x \in DOMAIN q |-> ScaledUp(q[x])] ELSE q

\* One divides by the larger part; a ratio too small is not multiplied by.
Times(v, ratio, by, other) == IF AtLeast(ratio, Smallest + 1) THEN Mul(v, ratio) ELSE Mul(other, Div(v, by))
Quotient(q, x, y, denom) == [q |-> q, x |-> Div(x, denom), y |-> Div(y, denom)]
ByImaginary(q, ratio) ==
    Quotient(q, Add(Times(q.a, ratio, q.d, q.c), q.b), Sub(Times(q.b, ratio, q.d, q.c), q.a),
             Add(Mul(q.c, ratio), q.d))
ByReal(q, ratio) ==
    Quotient(q, Add(Times(q.b, ratio, q.c, q.d), q.a), Sub(q.b, Times(q.a, ratio, q.c, q.d)),
             Add(Mul(q.d, ratio), q.c))

OverImaginary(q) == ByImaginary(q, Div(q.c, q.d))
OverReal(q) == ByReal(q, Div(q.d, q.c))
GrownImaginary(q) == OverImaginary(Grown(q, q.d))
GrownReal(q) == OverReal(Grown(q, q.c))
Smith(q) == IF Smaller(q.c, q.d) THEN GrownImaginary(Shrunk(q, q.d)) ELSE GrownReal(Shrunk(q, q.c))

\* 1 for an infinity and 0 for what is finite, with its sign.
Unit(v) == Copysign(Fin(0, IF IsInf(v) THEN One ELSE 0), v)
AnyInf(v, w) == IsInf(v) \/ IsInf(w)

\* Where both parts came out as NaN: the infinities and zeros they should be.
Recovered(r) ==
    LET a == r.q.a  b == r.q.b  c == r.q.c  d == r.q.d
        times(v, p, q, u, w) ==
            [r EXCEPT !.x = Mul(v, Add(Mul(p, u), Mul(q, w))), !.y = Mul(v, Sub(Mul(q, u), Mul(p, w)))]
    IN  CASE IsZero(c) /\ IsZero(d) /\ (~IsNaN(a) \/ ~IsNaN(b)) ->
               [r EXCEPT !.x = Mul(Copysign(Inf(0), c), a), !.y = Mul(Copysign(Inf(0), c), b)]
          [] ~(IsZero(c) /\ IsZero(d)) /\ AnyInf(a, b) /\ IsFinite(c) /\ IsFinite(d) ->
               times(Inf(0), Unit(a), Unit(b), c, d)
          [] AnyInf(c, d) /\ IsFinite(a) /\ IsFinite(b) -> times(Fin(0, 0), a, b, Unit(c), Unit(d))
          [] OTHER -> r

Divided3(r) == IF IsNaN(r.x) /\ IsNaN(r.y) THEN Recovered(r) ELSE r
Divc3(a, b, c, d) == Divided3(Smith([a |-> a, b |-> b, c |-> c, d |-> d]))

-------------------------------------------------------------------------------
(***************************************************************************)
(* strtod(): the digits are an integer, of at most MaxDigits digits, made  *)
(* a double and scaled by powers of ten.  [value, end], end the characters *)
(* it took.  A double has five bits here, and the powers up to 10^2 are    *)
(* the ones that it holds exactly: 5^2 has five, as 5^22 has 52 of 53.     *)
(***************************************************************************)
MaxDigits == 3                                   \* 19 in the code
DoubleBits == 5                                  \* 53
DoubleOne == 2 ^ 10                              \* units in 1.0
DoubleLargest == (2 ^ DoubleBits - 1) * 2 ^ 18   \* DBL_MAX
LastPower == 2                                   \* pow10tab ends with 10^22

Double(num, den) == Float(0, RoundedTo(num, den, DoubleBits), DoubleLargest)
TimesPower(v, k) == IF IsInf(v) THEN v ELSE Double(v.n * 10 ^ k, 1)

\* Fault: by the power's reciprocal, which is rounded itself.
ByReciprocal(v, k) ==
    IF IsInf(v) THEN v ELSE Double(v.n * RoundedTo(2 ^ 9, 10 ^ k, DoubleBits), 2 ^ 9)

OverPower(v, k) == IF IsInf(v) THEN v ELSE Double(v.n, 10 ^ k)

\* The loops: no more than LastPower powers at a time.
RECURSIVE ScaledBy(_, _)
ScaledBy(v, e) ==
    LET step == Min({IF e > 0 THEN e ELSE -e, LastPower})
    IN  CASE e > 0 -> ScaledBy(TimesPower(v, step), e - step)
          [] e < 0 -> ScaledBy(OverPower(v, step), e + step)
          [] OTHER -> v

FromDigits(mant, e) ==
    LET result == Double(mant * DoubleOne, 1)
    IN  IF IsZero(result) THEN result ELSE ScaledBy(result, e)

IsDigit(c) == c \in {Digs[i] : i \in 1 .. 10}
DigitOf(c) == (CHOOSE k \in 1 .. 10 : Digs[k] = c) - 1
CharAt(text, i) == IF i <= Len(text) THEN text[i] ELSE "NUL"
RunEnd(text, i) == Min({j \in i .. Len(text) + 1 : ~IsDigit(CharAt(text, j))})

Mantissa(mant, exp, digits) == [mant |-> mant, exp |-> exp, digits |-> digits]

\* A digit of the integer part and one of the fraction.
TakeWhole(r, d) ==
    CASE r.mant = 0 /\ d = 0 -> r
      [] (r.mant # 0 \/ d # 0) /\ r.digits < MaxDigits -> Mantissa(r.mant * 10 + d, r.exp, r.digits + 1)
      [] OTHER -> Mantissa(r.mant, r.exp + 1, r.digits)
TakeFraction(r, d) ==
    CASE r.mant = 0 /\ d = 0 -> Mantissa(0, r.exp - 1, r.digits)
      [] (r.mant # 0 \/ d # 0) /\ r.digits < MaxDigits -> Mantissa(r.mant * 10 + d, r.exp - 1, r.digits + 1)
      [] OTHER -> r

DigitsIn(text, from, to) == [i \in 1 .. to - from |-> DigitOf(text[from + i - 1])]

\* The exponent from e on, if there is one: r is the mantissa that ends there.
Exponent(text, from, to, negative) ==
    FoldLeft(LAMBDA acc, d : IF acc < 100000 THEN acc * 10 + d ELSE acc, 0, DigitsIn(text, from, to))
      * (IF negative THEN -1 ELSE 1)

Result(mant, e, negative, end) ==
    LET v == FromDigits(mant, e)
    IN  [value |-> IF negative THEN Neg(v) ELSE v, end |-> end]

WithExponent(text, e, digits, end, negative, r) ==
    Result(r.mant, r.exp + Exponent(text, digits, end, CharAt(text, e + 1) = "-"), negative, end - 1)

AtExponent(text, e, negative, r) ==
    LET digits == IF CharAt(text, e + 1) \in {"-", "+"} THEN e + 2 ELSE e + 1
    IN  IF CharAt(text, e) \in {"e", "E"} /\ IsDigit(CharAt(text, digits))
          THEN WithExponent(text, e, digits, RunEnd(text, digits), negative, r)
          ELSE Result(r.mant, r.exp, negative, e - 1)

AtFraction(text, from, to, negative, whole) ==
    AtExponent(text, to, negative, FoldLeft(TakeFraction, whole, DigitsIn(text, from, to)))

AtDot(text, dot, negative, whole) ==
    IF CharAt(text, dot) = "." THEN AtFraction(text, dot + 1, RunEnd(text, dot + 1), negative, whole)
    ELSE AtExponent(text, dot, negative, whole)

AtDigits(text, from, to, negative) ==
    AtDot(text, to, negative, FoldLeft(TakeWhole, Mantissa(0, 0, 0), DigitsIn(text, from, to)))

AtSign(text, i) ==
    LET digits == IF CharAt(text, i) \in {"-", "+"} THEN i + 1 ELSE i
    IN  AtDigits(text, digits, RunEnd(text, digits), CharAt(text, i) = "-")

Strtod(text) == AtSign(text, Min({i \in 1 .. Len(text) + 1 : CharAt(text, i) # " "}))

-------------------------------------------------------------------------------
\* The counts of bits agree with the set of the bits, 0 included.
CountsBits(v, bits) ==
    LET set == BitSet(v, bits)
    IN  /\ Popcount(v) = Cardinality(set) /\ Parity(v) = Cardinality(set) % 2
        /\ Clz(v, bits) = (IF set = {} THEN bits ELSE bits - 1 - Max(set))
        /\ Ctz(v, bits) = (IF set = {} THEN bits ELSE Min(set))
        /\ Ffs(v) = (IF set = {} THEN 0 ELSE Min(set) + 1)

\* A normal number's ilogb is the power of two at or below it; fmaxl returns
\* the larger, a number before a NaN and +0 before -0, in either order.
FindsExponents(exponent, fraction) ==
    exponent \in 1 .. ExponentMask - 1 =>
        LET n == (2 ^ FractionBits + fraction) * 2 ^ (exponent - 1)
            i == Ilogbl(exponent, fraction) + 6          \* One is 2^6 units
        IN  2 ^ i <= n /\ n < 2 ^ (i + 1)
FindsLarger(v, w) ==
    LET m == Fmaxl(v, w)
    IN  /\ m \in {v, w} /\ (IsNaN(m) => IsNaN(v) /\ IsNaN(w)) /\ ~Less(m, v) /\ ~Less(m, w)
        /\ m = Fmaxl(w, v)
        /\ IsZero(m) /\ m.s = 1 => Fin(0, 0) \notin {v, w}

\* num / den in whole units.
InUnits(num, den) == IF num < 0 THEN -((-num * One) \div den) ELSE (num * One) \div den

\* Both parts of the result are a quotient's that no part of leaves the range: off
\* by what roundings to three bits come to, a unit or a seventh of the larger
\* part (and one for InUnits), where a scaling that misses one operand is off by
\* a factor of two or four.
IsNear(r, x, y) ==
    LET most == Max({x, -x, y, -y})
        near(v, n) == IsFinite(v) /\ Signed(v) - n \in -Max({1, most \div 7}) - 1 .. Max({1, most \div 7}) + 1
    IN  most <= Big => near(r.x, x) /\ near(r.y, y)
IsFiniteQuotient(a, b, c, d, r) ==
    LET den == c * c + d * d
    IN  den # 0 => IsNear(r, InUnits(a * c + b * d, den), InUnits(b * c - a * d, den))

\* The quotient of finite numbers is right wherever it is in range, though its
\* operands are at the ends of it.  What is not zero divided by zero is infinite,
\* infinite by finite is infinite and finite by infinite zero, whatever the
\* scaling before has done and though the other part may be a NaN.
IsQuotient(a, b, c, d, r) ==
    /\ (\A v \in {a, b, c, d} : IsFinite(v)) => IsFiniteQuotient(Signed(a), Signed(b), Signed(c), Signed(d), r)
    /\ IsZero(c) /\ IsZero(d) /\ (\E v \in {a, b} : ~IsNaN(v) /\ ~IsZero(v)) => AnyInf(r.x, r.y)
    /\ AnyInf(a, b) /\ IsFinite(c) /\ IsFinite(d) => AnyInf(r.x, r.y)
    /\ IsFinite(a) /\ IsFinite(b) /\ AnyInf(c, d) => IsZero(r.x) /\ IsZero(r.y)
DividesAtTheEnds(a, b, c, d) == IsQuotient(a, b, c, d, Divc3(a, b, c, d))

\* The double nearest to m * 10^e, m of at most MaxDigits digits: infinite from
\* 10^4 on, which no double reaches, and 0 below 10^-4, which half a unit exceeds.
Nearest(m, e) ==
    CASE m = 0 \/ DigitCount(m, 10) + e <= -4 -> Fin(0, 0)
      [] m # 0 /\ DigitCount(m, 10) + e > 4 -> Inf(0)
      [] OTHER -> Double(m * DoubleOne * 10 ^ Max({e, 0}), 10 ^ Max({-e, 0}))

\* How often the code rounds on the way: the digits made a double, if it does
\* not hold them, and once for each power it scales by.
Roundings(m, e) ==
    (IF Double(m * DoubleOne, 1).n = m * DoubleOne THEN 0 ELSE 1)
        + ((Max({e, -e}) + LastPower - 1) \div LastPower)

\* At most so many units in the last place apart; infinite is next to the largest.
Apart(v, w, ulps) ==
    LET place(x) == IF IsInf(x) THEN DoubleLargest + 2 ^ 18 ELSE x.n
        most     == Max({place(v), place(w)})
    IN  Max({place(v) - place(w), place(w) - place(v)}) <= ulps * Ulp(most, 1, DoubleBits, 1)

\* The value is the number's, correctly rounded where that takes one rounding, as
\* stdlib.c:230-232 has it, and off by a unit in the last place for each other;
\* end is where the number ends.
IsFloat(r, x, negative, end) ==
    /\ IsFinite(r.value) \/ IsInf(r.value)
    /\ Apart(r.value, Nearest(x.m, x.e), Max({Roundings(x.m, x.e) - 1, 0}))
    /\ r.value.s = IF negative THEN 1 ELSE 0
    /\ r.end = end

\* The number the digits are, those beyond the MaxDigits-th taken as zeros, and
\* their exponent.
Kept(digits) ==
    LET sig   == {i \in DOMAIN digits : digits[i] # "0"}
        first == Min(sig \cup {Len(digits) + 1})
        last  == Min({first + MaxDigits - 1, Len(digits)})
    IN  Decimal(NumberOf(SubSeq(digits, first, last)), Len(digits) - last)
ExponentOf(e) == IF e = <<>> THEN 0 ELSE DigitOf(Last(e)) * IF e[2] = "-" THEN -1 ELSE 1

\* The longest prefix that is a number is taken: an "e" without digits is not
\* part of it.  (Texts that begin a number.)
ParsesFloat(sign, whole, fraction, e, rest) ==
    LET text == sign \o whole \o (IF fraction = <<>> THEN <<>> ELSE <<".">> \o fraction) \o e
        kept == Kept(whole \o fraction)
    IN  IsFloat(Strtod(text \o rest), Decimal(kept.m, kept.e + ExponentOf(e) - Len(fraction)),
                sign = <<"-">>, Len(text))

\* What %f and %g print is the number printed, to the last digit, and strtod
\* reads it as the double for that.
Printable(d, x) ==
    IF d.conv = "g" THEN CSignificant(x.value, Max({d.precision, 1}))
    ELSE Decimal(NumberOf(SelectSeq(CFixed(x.value, d.precision), IsDigit)), -d.precision)
Unsigned(text, negative) == IF negative THEN Tail(text) ELSE text
TextIsFloat(text, x, negative) ==
    LET number == Reading(Unsigned(text, negative))
    IN  SameDecimal(number, x) /\ IsFloat(Strtod(text), number, negative, Len(text))
FloatsReadBack(d, x) ==
    DigitCount(Printable(d, x).m, 10) <= MaxDigits => TextIsFloat(Converted(d, x), Printable(d, x), x.negative)
===============================================================================
