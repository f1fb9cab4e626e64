------------------------------ MODULE Printing ------------------------------
(***************************************************************************)
(* Formatted output: vfprintf() of stdio.c and the conversions it calls.   *)
(* A text is a sequence of characters.  A directive is a record: its       *)
(* flags, width, whether it has a ".", the precision behind it (None       *)
(* where no digits follow), size and conversion; a width or precision      *)
(* given as "*" may be negative.  Integer types have the bits of BitsOf; a *)
(* floating value is the decimal m * 10^e, exactly.                        *)
(***************************************************************************)
EXTENDS Integers, Sequences, SequencesExt, FiniteSetsExt

None == -1
Digs == <<"0", "1", "2", "3", "4", "5", "6", "7", "8", "9", "a", "b", "c", "d", "e", "f">>
DigsUc == [Digs EXCEPT ![11] = "A", ![12] = "B", ![13] = "C", ![14] = "D", ![15] = "E", ![16] = "F"]
BitsOf == [hh |-> 2, h |-> 3, int |-> 4, l |-> 4, ll |-> 6]

Spaces(n) == [i \in 1 .. Max({n, 0}) |-> " "]
Zeros(n) == [i \in 1 .. Max({n, 0}) |-> "0"]
Take(s, n) == SubSeq(s, 1, Min({n, Len(s)}))

\* digits(), 1 for 0, and the digits themselves.
RECURSIVE DigitCount(_, _)
DigitCount(n, base) == IF n < base THEN 1 ELSE 1 + DigitCount(n \div base, base)
NumberText(n, base, digs) ==
    LET d == DigitCount(n, base)
    IN  [i \in 1 .. d |-> digs[((n \div base ^ (d - i)) % base) + 1]]

-------------------------------------------------------------------------------
(***************************************************************************)
(* Strings and integers.                                                   *)
(***************************************************************************)

\* ostr() pads to wid; on the left it lets the padding count as characters.
Ostr(s, wid, left, max) ==
    LET fill == Max({0, wid - (IF max = None THEN Len(s) ELSE Min({Len(s), max}))})
    IN  IF left THEN (IF max = None THEN s ELSE Take(s, max + fill)) \o Spaces(fill)
        ELSE Spaces(fill) \o (IF max = None THEN s ELSE Take(s, max))

\* The sign of a value whose sign bit, in its size, is or is not set.
SignOf(negative, flags) ==
    CASE negative -> <<"-">>
      [] ~negative /\ "plus" \in flags -> <<"+">>
      [] ~negative /\ "plus" \notin flags /\ "blank" \in flags -> <<" ">>
      [] OTHER -> <<>>

Negative(n, size) == (n \div 2 ^ (BitsOf[size] - 1)) % 2 = 1
Magnitude(n, size, signed) ==
    (IF signed /\ Negative(n, size) THEN 2 ^ BitsOf[size] - (n % 2 ^ BitsOf[size]) ELSE n)
        % 2 ^ BitsOf[size]

\* The prefix is decided by all of n, before it is cut to its size.
Prefix(n, base, size, flags, digs) ==
    CASE "signed" \in flags -> SignOf(Negative(n, size), flags)
      [] "signed" \notin flags /\ n > 0 /\ "alt" \in flags ->
            IF base = 16 THEN <<"0", IF digs = DigsUc THEN "X" ELSE "x">> ELSE <<"0">>
      [] OTHER -> <<>>

Fill(wid, digits, prefix) == Max({0, wid - (Len(digits) + Len(prefix))})

\* oint(): a precision replaces the width, and cuts the digits.
Oint(n, base, wid, size, flags, precision, digs) ==
    LET digits == NumberText(Magnitude(n, size, "signed" \in flags), base, digs)
        prefix == Prefix(n, base, size, flags, digs)
        max    == IF precision = None THEN None
                  ELSE precision + IF "signed" \in flags THEN Len(prefix) ELSE 0
        fill   == Fill(IF max = None THEN wid ELSE max, digits, prefix)
        left   == "left" \in flags
        zero   == "zero" \in flags
    IN  (IF ~left /\ ~zero THEN Spaces(fill) ELSE <<>>) \o prefix
          \o (IF ~left /\ zero THEN Zeros(fill) ELSE <<>>)
          \o Ostr(digits, 0, FALSE, max) \o (IF left THEN Spaces(fill) ELSE <<>>)

-------------------------------------------------------------------------------
(***************************************************************************)
(* Floating values, from here on without their sign.                       *)
(***************************************************************************)
Decimal(m, e) == [m |-> m, e |-> e]

\* The value in units of 10^u, u no larger than its exponent, and their sum.
Units(v, u) == v.m * 10 ^ (v.e - u)
Plus(v, w) == LET u == Min({v.e, w.e}) IN Decimal(Units(v, u) + Units(w, u), u)

\* fmt_ilog10(); 10^-p / 2; and the digit that counts 10^k.
Ilog10(v) == IF v.m = 0 THEN 0 ELSE DigitCount(v.m, 10) - 1 + v.e
HalfUnit(p) == Decimal(5, -p - 1)
Rounded(v, p) == IF v.m = 0 THEN v ELSE Plus(v, HalfUnit(p))
DigitAt(v, k) ==
    Digs[(IF k < v.e THEN 0 ELSE IF k - v.e > 9 THEN 0 ELSE (v.m \div 10 ^ (k - v.e)) % 10) + 1]

\* The digits from 10^mag down to 10^-p, the point between.
Digits(v, mag, p, alt) ==
    [i \in 1 .. mag + 1 |-> DigitAt(v, mag + 1 - i)]
      \o (IF p > 0 \/ alt THEN <<".">> ELSE <<>>) \o [i \in 1 .. p |-> DigitAt(v, -i)]

\* fmt_build_fixed() and fmt_build_scientific().
Fixed(v, p, alt) ==
    LET r == Rounded(v, p) IN Digits(r, Max({0, Ilog10(r)}), p, alt)

\* Fault: the exponent is of the value before it is rounded.
NotCarried(v, p) == Ilog10(v)

\* The exponent once v has been rounded to p digits behind its first.
Carried(v, p) ==
    Ilog10(v) + IF v.m # 0 /\ Ilog10(Rounded(Decimal(v.m, v.e - Ilog10(v)), p)) > 0 THEN 1 ELSE 0

Scientific(v, p, alt, upper) ==
    LET r   == Rounded(Decimal(v.m, v.e - Ilog10(v)), p)
        exp == Carried(v, p)
    IN  Digits(Decimal(r.m, r.e - (exp - Ilog10(v))), 0, p, alt)
          \o <<IF upper THEN "E" ELSE "e", IF exp < 0 THEN "-" ELSE "+">>
          \o LET text == NumberText(IF exp < 0 THEN -exp ELSE exp, 10, Digs)
             IN  Zeros(2 - Len(text)) \o text

\* fmt_trim_trailing_zeros(): behind the point, before any exponent.
Trimmed(text, alt) ==
    LET dots == {i \in DOMAIN text : text[i] = "."}
        exps == {i \in DOMAIN text : text[i] \in {"e", "E"}}
        end  == IF exps = {} THEN Len(text) ELSE Min(exps) - 1
        keep == Max({i \in 1 .. end : text[i] # "0"})
    IN  IF alt \/ dots = {} THEN text
        ELSE SubSeq(text, 1, IF text[keep] = "." THEN keep - 1 ELSE keep)
               \o SubSeq(text, end + 1, Len(text))

\* %g: p significant digits, p at least 1.
General(v, p, alt, upper) ==
    LET exp == Carried(v, p - 1)
    IN  Trimmed(IF exp < -4 \/ exp >= p THEN Scientific(v, p - 1, alt, upper)
                ELSE Fixed(v, p - (exp + 1), alt), alt)

\* fmt_emit_float(): the sign, and the width before, behind or under it.
EmitFloat(text, wid, left, zero, sign) ==
    LET pad == wid - Len(sign \o text)
    IN  CASE left -> sign \o text \o Spaces(pad)
          [] ~left /\ zero -> sign \o Zeros(pad) \o text
          [] OTHER -> Spaces(pad) \o sign \o text

\* ofloat(); x is a value with its sign, of kind number, inf or nan.
Ofloat(x, wid, flags, precision, zero, upper, general) ==
    LET sign == SignOf(x.negative, flags)
        wish == IF precision = None THEN 6 ELSE precision
        p    == Min({IF general /\ wish = 0 THEN 1 ELSE wish, 120})
        alt  == "alt" \in flags
        text == CASE x.kind = "inf" -> IF upper THEN <<"I", "N", "F">> ELSE <<"i", "n", "f">>
                  [] x.kind = "nan" -> IF upper THEN <<"N", "A", "N">> ELSE <<"n", "a", "n">>
                  [] x.kind = "number" /\ general -> General(x.value, p, alt, upper)
                  [] x.kind = "number" /\ ~general -> Fixed(x.value, p, alt)
    IN  EmitFloat(text, wid, "left" \in flags, zero,
                  IF x.kind = "nan" /\ flags \cap {"plus", "blank"} = {} THEN <<>> ELSE sign)

-------------------------------------------------------------------------------
(***************************************************************************)
(* vfprintf() and vsnprintf().                                             *)
(***************************************************************************)
Base(conv) == CASE conv \in {"d", "i", "u"} -> 10 [] conv = "o" -> 8 [] conv \in {"x", "X", "p"} -> 16

\* A long for an argument shorter than a long long, with its sign for %d.
Fetched(d, arg) ==
    arg % 2 ^ (IF d.size = "ll" \/ d.conv \in {"d", "i"} THEN BitsOf.ll ELSE BitsOf.l)

\* One directive; a "." makes integers fill with zeros.
Converted(d, arg) ==
    LET wid       == IF d.wid < 0 THEN -d.wid ELSE d.wid
        flags     == d.flags \cup (IF d.wid < 0 THEN {"left"} ELSE {})
        precision == IF d.precision < 0 THEN None ELSE d.precision
        whole     == flags \cup (IF d.dot THEN {"zero"} ELSE {})
                       \cup (IF d.conv \in {"d", "i"} THEN {"signed"} ELSE {})
                       \cup (IF d.conv = "p" THEN {"alt"} ELSE {})
    IN  CASE d.conv \in {"d", "i", "u", "o", "x", "X", "p"} ->
               Oint(Fetched(d, arg), Base(d.conv), wid, d.size,
                    IF d.conv = "u" THEN whole \ {"alt"} ELSE whole, precision,
                    IF d.conv = "X" THEN DigsUc ELSE Digs)
          [] d.conv = "c" -> IF "left" \in flags THEN <<arg>> \o Spaces(wid - 1)
                             ELSE Spaces(wid - 1) \o <<arg>>
          [] d.conv = "s" -> Ostr(arg, wid, "left" \in flags, precision)
          [] d.conv \in {"f", "F", "g", "G"} ->
               Ofloat(arg, wid, flags, precision, "zero" \in d.flags,
                      d.conv \in {"F", "G"}, d.conv \in {"g", "G"})
          [] OTHER -> <<d.conv>>

\* A format is a sequence of characters, directives with their arguments, and
\* %n, which is told what the sink has stored: fputc() stores what has room.
Stored(text, room) == Take(text, room)
Output(item) ==
    CASE item.of = "char" -> <<item.char>>
      [] item.of = "convert" -> Converted(item.d, item.arg)
      [] item.of = "n" -> <<>>
Printed(format) == FlattenSeq([i \in DOMAIN format |-> Output(format[i])])
Told(format, room) ==
    [i \in {j \in DOMAIN format : format[j].of = "n"} |->
        Len(Stored(Printed(SubSeq(format, 1, i)), room))]

Room(sz) == IF sz > 0 THEN sz - 1 ELSE 0

\* A buffer of sz characters; the terminator is NUL.
Vsnprintf(sz, format) ==
    [ret |-> Len(Printed(format)), told |-> Told(format, Room(sz)),
     buffer |-> Stored(Printed(format), Room(sz)) \o IF sz > 0 THEN <<"NUL">> ELSE <<>>]

-------------------------------------------------------------------------------
(***************************************************************************)
(* What C says of them.                                                    *)
(***************************************************************************)
Padded(body, wid, left) == IF left THEN body \o Spaces(wid - Len(body)) ELSE Spaces(wid - Len(body)) \o body

\* An integer's text in C: the digits, at least as many as the precision says,
\* behind the sign or prefix; 0 fills the width only without a precision.
CInteger(d, value, size) ==
    LET signed == d.conv \in {"d", "i"}
        bits   == 2 ^ BitsOf[size]
        cut    == value % bits
        signedValue == IF signed /\ cut >= bits \div 2 THEN cut - bits ELSE cut
        digits == NumberText(IF signedValue < 0 THEN -signedValue ELSE signedValue, Base(d.conv),
                             IF d.conv = "X" THEN DigsUc ELSE Digs)
        prefix == CASE signed -> SignOf(signedValue < 0, d.flags)
                    [] ~signed /\ cut # 0 /\ "alt" \in d.flags /\ d.conv = "o" -> <<"0">>
                    [] ~signed /\ cut # 0 /\ "alt" \in d.flags /\ d.conv \in {"x", "X"} -> <<"0", d.conv>>
                    [] OTHER -> <<>>
        wid    == IF d.wid < 0 THEN -d.wid ELSE d.wid
        left   == d.wid < 0 \/ "left" \in d.flags
        body   == prefix \o Zeros(d.precision - Len(digits)) \o digits
    IN  [text |-> IF "zero" \in d.flags /\ ~left /\ d.precision < 0
                    THEN prefix \o Zeros(wid - Len(body)) \o digits
                    ELSE Padded(body, wid, left),
         least |-> Len(digits), prefix |-> prefix, left |-> left, wid |-> wid, cut |-> cut]

\* Where the code follows C: with no precision, or one that leaves nothing
\* for the width and cuts nothing.
FollowsC(d, c, arg) ==
    /\ ~d.dot \/ (d.precision >= c.least /\ ~c.left /\ "alt" \notin d.flags
                     /\ c.wid <= d.precision + Len(c.prefix))
    /\ "alt" \in d.flags => (Fetched(d, arg) = 0 <=> c.cut = 0)

\* A float's text in C: the nearest number of p places, halves up.
CFixed(v, p) ==
    LET scaled == IF v.e >= -p THEN Units(v, -p)
                  ELSE (v.m + (10 ^ (-p - v.e) \div 2)) \div 10 ^ (-p - v.e)
        text   == NumberText(scaled, 10, Digs)
        full   == Zeros(p + 1 - Len(text)) \o text
    IN  SubSeq(full, 1, Len(full) - p) \o (IF p > 0 THEN <<".">> ELSE <<>>)
          \o SubSeq(full, Len(full) - p + 1, Len(full))

\* A value of p significant digits is m * 10^x with m of p digits; so reads %g.
CSignificant(v, p) ==
    LET surplus == DigitCount(v.m, 10) - p
        m       == IF surplus <= 0 THEN v.m * 10 ^ (-surplus)
                   ELSE (v.m + 10 ^ surplus \div 2) \div 10 ^ surplus
    IN  IF m = 10 ^ p THEN Decimal(10 ^ (p - 1), v.e + surplus + 1) ELSE Decimal(m, v.e + surplus)

\* The value of a text of digits.
NumberOf(text) == FoldLeft(LAMBDA acc, c : acc * 10 + (CHOOSE k \in 1 .. 10 : Digs[k] = c) - 1, 0, text)

\* The decimal a text of %g stands for.
Reading(text) ==
    LET exps   == {i \in DOMAIN text : text[i] = "e"}
        end    == IF exps = {} THEN Len(text) ELSE Min(exps) - 1
        dots   == {i \in 1 .. end : text[i] = "."}
        number(t) == NumberOf(SelectSeq(t, LAMBDA c : c # "."))
        behind == IF dots = {} THEN 0 ELSE end - Min(dots)
        exp    == IF exps = {} THEN 0
                  ELSE number(SubSeq(text, end + 3, Len(text))) * IF text[end + 2] = "-" THEN -1 ELSE 1
    IN  Decimal(number(SubSeq(text, 1, end)), exp - behind)

SameDecimal(v, w) == LET u == Min({v.e, w.e}) IN Units(v, u) = Units(w, u)

\* An integer prints as C says wherever the code follows C, in every size; a
\* float prints as the number of its precision nearest to it, %g with just the
\* significant digits asked for and no zeros at its end.
PrintsInteger(d, arg, c) == FollowsC(d, c, arg) => Converted(d, arg) = c.text
PrintsGeneral(text, want, p) ==
    /\ SameDecimal(Reading(text), want)
    /\ "." \in ToSet(text) => Trimmed(text, FALSE) = text
    /\ "e" \in ToSet(text) <=> Ilog10(want) \notin -4 .. p - 1

PrintsRight(d, arg) ==
    CASE d.conv \in {"d", "u", "o", "x", "X"} -> PrintsInteger(d, arg, CInteger(d, arg, d.size))
      [] d.conv = "f" -> Converted(d, arg) = Padded(
             (IF arg.negative THEN <<"-">> ELSE <<>>) \o CFixed(arg.value, d.precision), d.wid, FALSE)
      [] d.conv = "g" -> PrintsGeneral(Converted(d, arg), CSignificant(arg.value, Max({d.precision, 1})),
                                       Max({d.precision, 1}))

\* vsnprintf writes at most sz characters, the last of them the terminator,
\* a prefix of the whole text, and returns the length of the whole.
Fits(sz, format, r, s) ==
    /\ Len(r.buffer) <= sz /\ (sz > 0 => r.buffer[Len(r.buffer)] = "NUL")
    /\ IsPrefix(SubSeq(r.buffer, 1, Len(r.buffer) - 1), s.buffer)
    /\ Len(s.buffer) = r.ret + 1 /\ s.ret = r.ret
    /\ \A i \in DOMAIN s.told : s.told[i] = Len(Printed(SubSeq(format, 1, i)))

Measured(sz, format, r) == Fits(sz, format, r, Vsnprintf(r.ret + 1, format))
Measures(sz, format) == Measured(sz, format, Vsnprintf(sz, format))
===============================================================================
