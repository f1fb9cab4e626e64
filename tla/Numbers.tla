------------------------------- MODULE Numbers -------------------------------
(***************************************************************************)
(* The strto... functions of atoi.c on a machine whose long has LBits bits *)
(* and whose long long has LLBits.  A text is a sequence of characters; a  *)
(* call's outcome is its value, how many characters it took, and whether   *)
(* it set errno to ERANGE.                                                 *)
(***************************************************************************)
EXTENDS Integers, Sequences, FiniteSets

CONSTANTS LBits, LLBits

ASSUME NumbersAssumption == LBits \in 1 .. LLBits /\ LLBits \in 1 .. 30

LONG_MAX == 2 ^ (LBits - 1) - 1
LONG_MIN == -(2 ^ (LBits - 1))
ULONG_MAX == 2 ^ LBits - 1
LLONG_MAX == 2 ^ (LLBits - 1) - 1
LLONG_MIN == -(2 ^ (LLBits - 1))
ULLONG_MAX == 2 ^ LLBits - 1

\* Arithmetic of unsigned long and unsigned long long.
InULong(n) == n % 2 ^ LBits
InULLong(n) == n % 2 ^ LLBits

Outcome(value, taken, erange) == [value |-> value, taken |-> taken, erange |-> erange]

-------------------------------------------------------------------------------
(***************************************************************************)
(* Reading.                                                                *)
(***************************************************************************)

At(text, i) == IF i \in DOMAIN text THEN text[i] ELSE "end"

Digits == <<"0", "1", "2", "3", "4", "5", "6", "7", "8", "9", "a", "b", "c", "d", "e", "f">>

\* digit(): the value of a character in a base of up to 16, -1 if it has none.
Digit(c, base) ==
    IF \E d \in 1 .. base : Digits[d] = c THEN (CHOOSE d \in 1 .. base : Digits[d] = c) - 1 ELSE -1

Least(S) == CHOOSE x \in S : \A y \in S : x <= y

AfterBlanks(text) == Least({i \in 1 .. Len(text) + 1 : At(text, i) # " "})

HasSign(text, i) == At(text, i) \in {"-", "+"}
Negative(text) == At(text, AfterBlanks(text)) = "-"
AfterSign(text) ==
    LET i == AfterBlanks(text) IN IF HasSign(text, i) THEN i + 1 ELSE i

\* strto_base(): the base meant by 0, ...
BaseAt(text, i, base) ==
    CASE base # 0 -> base
      [] base = 0 /\ At(text, i) # "0" -> 10
      [] base = 0 /\ At(text, i) = "0" ->
            CASE At(text, i + 1) = "x" -> 16
              [] At(text, i + 1) = "b" -> 2
              [] OTHER -> 8

\* ... and whether a prefix is stepped over, digits behind it or not.
HasPrefix(text, i, base) ==
    /\ At(text, i) = "0"
    /\ <<BaseAt(text, i, base), At(text, i + 1)>> \in {<<16, "x">>, <<2, "b">>}

\* The loop over the digits: num wraps, and overflow remembers that it did.
RECURSIVE Accumulate(_, _, _, _, _)
Accumulate(text, i, base, limit, acc) ==
    LET dig == Digit(At(text, i), base)
    IN  IF dig < 0 THEN [num |-> acc.num, overflow |-> acc.overflow, next |-> i]
        ELSE Accumulate(text, i + 1, base, limit,
               [num |-> InULLong(acc.num * base + dig),
                overflow |-> \/ acc.overflow
                             \/ acc.num > limit \div base
                             \/ acc.num = limit \div base /\ dig > limit % base])

\* What strtoull() and strtoll() share: the magnitude against a limit, and how
\* many characters were taken.  A prefix with nothing behind it converts its 0,
\* and without a digit nothing is taken.
Taken(i, start, read) ==
    [num |-> read.num, overflow |-> read.overflow,
     taken |-> CASE read.next > start -> read.next - 1
                 [] read.next = start /\ start > i -> i
                 [] OTHER -> 0]
ScanAt(text, i, start, base, limit) ==
    Taken(i, start, Accumulate(text, start, BaseAt(text, i, base), limit, [num |-> 0, overflow |-> FALSE]))
ScanFrom(text, i, base, limit) ==
    ScanAt(text, i, IF HasPrefix(text, i, base) THEN i + 2 ELSE i, base, limit)
Scan(text, base, limit) == ScanFrom(text, AfterSign(text), base, limit)

-------------------------------------------------------------------------------
(***************************************************************************)
(* The functions.                                                          *)
(***************************************************************************)

ULLong(r, negative) ==
    IF r.overflow THEN Outcome(ULLONG_MAX, r.taken, TRUE)
    ELSE Outcome(IF negative THEN InULLong(-r.num) ELSE r.num, r.taken, FALSE)
Strtoull(text, base) == ULLong(Scan(text, base, ULLONG_MAX), Negative(text))

\* Fault: one limit for both signs.
LimitForPositive(text) == LLONG_MAX

\* LLONG_MIN has no positive counterpart.
LimitFor(text) == IF Negative(text) THEN LLONG_MAX + 1 ELSE LLONG_MAX

LLong(r, negative) ==
    IF r.overflow THEN Outcome(IF negative THEN LLONG_MIN ELSE LLONG_MAX, r.taken, TRUE)
    ELSE Outcome(IF negative THEN -r.num ELSE r.num, r.taken, FALSE)
Strtoll(text, base) == LLong(Scan(text, base, LimitFor(text)), Negative(text))

\* strtol() narrows strtoll(), which has its own range error.
Long(v) ==
    CASE v.value > LONG_MAX -> Outcome(LONG_MAX, v.taken, TRUE)
      [] v.value < LONG_MIN -> Outcome(LONG_MIN, v.taken, TRUE)
      [] OTHER -> v
Strtol(text, base) == Long(Strtoll(text, base))

\* strtoul() checks the magnitude, which it has from negating strtoull()'s
\* negation.
ULong(v, magnitude, negative) ==
    CASE v.erange \/ magnitude > ULONG_MAX -> Outcome(ULONG_MAX, v.taken, TRUE)
      [] ~(v.erange \/ magnitude > ULONG_MAX) /\ negative -> Outcome(InULong(-magnitude), v.taken, FALSE)
      [] OTHER -> Outcome(magnitude, v.taken, FALSE)
Narrowed(v, negative) == ULong(v, IF negative THEN InULLong(-v.value) ELSE v.value, negative)
Strtoul(text, base) == Narrowed(Strtoull(text, base), Negative(text))

\* atoi() and atol(), of the same width here, have no limit.  A signed sum that
\* overflows is undefined in C; here it wraps, which is what the machine's
\* addition does, and it may wrap twice on the way to a value that fits.
InLong(n) == InULong(n + 2 ^ (LBits - 1)) - 2 ^ (LBits - 1)

Atol(text) ==
    LET r == Accumulate(text, AfterSign(text), 10, ULLONG_MAX, [num |-> 0, overflow |-> FALSE])
    IN  InLong(IF Negative(text) THEN -r.num ELSE r.num)

-------------------------------------------------------------------------------
(***************************************************************************)
(* What C says of them.                                                    *)
(***************************************************************************)

\* The value of the digits from i to j, written out.
RECURSIVE ValueOf(_, _, _, _)
ValueOf(text, i, j, base) ==
    IF j < i THEN 0 ELSE ValueOf(text, i, j - 1, base) * base + Digit(text[j], base)

\* Where the text has an integer of the expected form, as where its digits are
\* and in what base: a prefix belongs to it only if a digit follows.
Forms(text, base) ==
    LET i == AfterSign(text)
    IN  {[from |-> from, to |-> to, base |-> b] :
            from \in {i, i + 2}, to \in i .. Len(text), b \in {2, 8, 10, 16}}

IsForm(text, base, f) ==
    LET i        == AfterSign(text)
        prefixed == f.from = i + 2
    IN  /\ f.from <= f.to
        /\ \A k \in f.from .. f.to : Digit(text[k], f.base) >= 0
        /\ prefixed =>
              /\ At(text, i) = "0"
              /\ <<At(text, i + 1), f.base>> \in {<<"x", 16>>, <<"b", 2>>}
              /\ base \in {0, f.base}
        /\ ~prefixed =>
              f.base = IF base # 0 THEN base ELSE IF At(text, i) = "0" THEN 8 ELSE 10

\* The longest of them, which C wants taken.
Longest(text, base) ==
    LET forms == {f \in Forms(text, base) : IsForm(text, base, f)}
    IN  {f \in forms : \A g \in forms : g.to <= f.to}

\* The integer the text spells, and how much of it.
SpelledBy(text, f) ==
    [value |-> ValueOf(text, f.from, f.to, f.base) * IF Negative(text) THEN -1 ELSE 1, taken |-> f.to]
SpelledByOne(text, longest) ==
    IF longest = {} THEN [value |-> 0, taken |-> 0]
    ELSE SpelledBy(text, CHOOSE f \in longest : \A g \in longest : g.from <= f.from)
Spelled(text, base) == SpelledByOne(text, Longest(text, base))

\* A signed result saturates.
Saturated(n, min, max) == IF n < min THEN min ELSE IF n > max THEN max ELSE n

IsSigned(outcome, n, min, max) ==
    outcome = Outcome(Saturated(n.value, min, max), n.taken, n.value \notin min .. max)

\* An unsigned one is negated in its type, and saturates when its magnitude
\* does not fit.
IsUnsigned(outcome, n, max) ==
    outcome = IF n.value \notin -max .. max
                THEN Outcome(max, n.taken, TRUE)
                ELSE Outcome(n.value % (max + 1), n.taken, FALSE)

\* strtol and its kin return the integer the text spells, the end of the
\* longest text that spells it, and ERANGE exactly when their type cannot hold
\* it: at every boundary of both widths, for every base and prefix.  atol
\* returns it where its type holds it.
ReadsAs(text, base, n) ==
    /\ IsSigned(Strtoll(text, base), n, LLONG_MIN, LLONG_MAX)
    /\ IsSigned(Strtol(text, base), n, LONG_MIN, LONG_MAX)
    /\ IsUnsigned(Strtoull(text, base), n, ULLONG_MAX)
    /\ IsUnsigned(Strtoul(text, base), n, ULONG_MAX)
    /\ base = 10 /\ n.value \in LONG_MIN .. LONG_MAX => Atol(text) = n.value
ReadsRight(text, base) == ReadsAs(text, base, Spelled(text, base))
===============================================================================
