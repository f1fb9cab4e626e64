------------------------------ MODULE Scanning ------------------------------
(***************************************************************************)
(* Formatted input: vfscanf() of scanf.c, reading a text from pos on.  A   *)
(* format is a sequence of directives: white space, a character, or a      *)
(* conversion with its width (0 for none), size and whether it stores.     *)
(***************************************************************************)
EXTENDS Printing

EOF == "EOF"
Failed == -1         \* what the call returns at the end of the input
Space == {" "}
IsDigit(c) == c \in {Digs[i] : i \in 1 .. 10}

\* idig(): the value of a digit, or -1; capitals only in base 16.
Idig(c, base) ==
    LET values == {k \in 0 .. base - 1 : Digs[k + 1] = c \/ (base = 16 /\ DigsUc[k + 1] = c)}
    IN  IF values = {} THEN -1 ELSE CHOOSE k \in values : TRUE

-------------------------------------------------------------------------------
(***************************************************************************)
(* The stream of one call: how far it is, how many characters it has       *)
(* counted, and whether one is pushed back, for which there is one place.  *)
(***************************************************************************)
Cursor(pos) == [pos |-> pos, count |-> 0, back |-> FALSE]
Peek(text, s) == IF s.pos < Len(text) THEN text[s.pos + 1] ELSE EOF

\* sget() and sunget() of a character.  At the end both leave all as it is.
Sget(text, s) ==
    IF Peek(text, s) = EOF THEN s ELSE [pos |-> s.pos + 1, count |-> s.count + 1, back |-> FALSE]
Sunget(s, c) ==
    IF c = EOF THEN s
    ELSE [pos |-> IF s.back THEN s.pos ELSE s.pos - 1, count |-> s.count - 1, back |-> TRUE]

\* sget() while the character is in a set, n times at most.  Stops behind the
\* one that is not: [s, last, got], got of them in the set.
RECURSIVE While(_, _, _, _, _)
While(text, s, set, n, got) ==
    LET c == Peek(text, s)
    IN  IF n = 0 THEN [s |-> s, last |-> EOF, got |-> got]
        ELSE IF c # EOF /\ c \in set THEN While(text, Sget(text, s), set, n - 1, Append(got, c))
        ELSE [s |-> Sget(text, s), last |-> c, got |-> got]

Unbounded(text) == Len(text) + 1
Unread(r) == Sunget(r.s, r.last)
SkipSpace(text, s) == Unread(While(text, s, Space, Unbounded(text), <<>>))

-------------------------------------------------------------------------------
(***************************************************************************)
(* scan_int(): [ok, value, s].                                             *)
(***************************************************************************)
\* A character has been read and not yet used: c, with s behind it.
Read(text, s) == [c |-> Peek(text, s), s |-> Sget(text, s)]

RECURSIVE DigitsFrom(_, _, _, _, _, _)
DigitsFrom(text, r, base, wid, n, count) ==
    IF wid > 0 /\ r.c # EOF /\ Idig(r.c, base) >= 0
      THEN DigitsFrom(text, Read(text, r.s), base, wid - 1,
                      (n * base + Idig(r.c, base)) % 2 ^ BitsOf.ll, count + 1)
      ELSE [n |-> n, ok |-> count > 0, s |-> Sunget(r.s, r.c)]

\* Fault: the 0 before the x is taken for a number.
ZeroAlone(x) == [ok |-> TRUE, n |-> 0, s |-> Sunget(x.s, x.c)]

\* "0x" and no digit behind it, which is pushed back.
NoHexDigit(x) == [ok |-> FALSE, n |-> 0, s |-> Sunget(x.s, x.c)]

\* Behind "0x": h is what has been read behind it; behind "0": x; and from r on.
HexDigits(text, h, wid) ==
    IF Idig(h.c, 16) < 0 THEN NoHexDigit(h) ELSE DigitsFrom(text, h, 16, wid, 0, 0)
BehindZero(text, x, base, wid) ==
    IF wid > 0 /\ x.c \in {"x", "X"} THEN HexDigits(text, Read(text, x.s), wid - 1)
    ELSE DigitsFrom(text, x, IF base = 0 THEN 8 ELSE base, wid, 0, 1)
Unsigned(text, r, base, wid) ==
    IF wid > 0 /\ r.c = "0" /\ base \in {0, 16} THEN BehindZero(text, Read(text, r.s), base, wid - 1)
    ELSE DigitsFrom(text, r, IF base = 0 THEN 10 ELSE base, wid, 0, 0)

Scanned(r, negative) == [ok |-> r.ok, s |-> r.s, value |-> (IF negative THEN -r.n ELSE r.n) % 2 ^ BitsOf.ll]

Signed(text, r, base, wid) ==
    IF r.c \in {"-", "+"} /\ wid > 0
      THEN Scanned(Unsigned(text, Read(text, r.s), base, wid - 1), r.c = "-")
      ELSE Scanned(Unsigned(text, r, base, wid), FALSE)
ScanInt(text, s, base, wid) == Signed(text, Read(text, s), base, wid)

-------------------------------------------------------------------------------
(***************************************************************************)
(* The directives.  A conversion ends the call unless it is matched.       *)
(***************************************************************************)
ScanBase(conv) ==
    CASE conv = "i" -> 0 [] conv \in {"x", "X", "p"} -> 16 [] conv = "o" -> 8 [] conv \in {"d", "u"} -> 10

\* [ok, value, s] of a conversion other than %n.
Most(text, d) == CASE d.wid > 0 -> d.wid [] d.wid = 0 /\ d.conv = "c" -> 1 [] OTHER -> Unbounded(text)

Taken(d, n, r) ==
    [ok |-> CASE d.conv = "c" -> Len(r.got) = n [] d.conv = "s" -> TRUE [] d.conv = "[" -> r.got # <<>>,
     value |-> r.got,
     s |-> IF d.conv # "c" /\ Len(r.got) < n THEN Unread(r) ELSE r.s]
CharactersOf(text, s, d, n) ==
    LET set == CASE d.conv = "c" -> ToSet(text)
                 [] d.conv = "s" -> ToSet(text) \ Space
                 [] d.conv = "[" -> IF d.negate THEN ToSet(text) \ d.set ELSE d.set
    IN  Taken(d, n, While(text, s, set, n, <<>>))

\* %p stores a pointer, whatever size is given.
SizeOf(d) == IF d.conv = "p" THEN "l" ELSE d.size
Narrowed(r, size) == [r EXCEPT !.value = @ % 2 ^ BitsOf[size]]

Match(text, s, d) ==
    IF d.conv \in {"c", "s", "["} THEN CharactersOf(text, s, d, Most(text, d))
    ELSE Narrowed(ScanInt(text, s, ScanBase(d.conv), Most(text, d)), SizeOf(d))

State(s, ret, stored, tried) == [s |-> s, ret |-> ret, stored |-> stored, tried |-> tried]

\* %n: what the call has read so far.
Consumed(s) == s.count

\* What a directive makes of q, with more if the call goes on.
GoesOn(q) == [q |-> q, more |-> TRUE]
Stops(q) == [q |-> q, more |-> FALSE]
Ended(q) == IF q.tried THEN q.ret ELSE Failed

AtChar(q, char, c) ==
    IF c.c = char THEN GoesOn([q EXCEPT !.s = c.s])
    ELSE Stops([q EXCEPT !.s = Sunget(c.s, c.c), !.ret = IF c.c = EOF THEN Ended(q) ELSE @])

Assigned(q, d, matched) ==
    IF ~matched.ok THEN Stops([q EXCEPT !.s = matched.s, !.tried = TRUE])
    ELSE GoesOn([s |-> matched.s, tried |-> TRUE, ret |-> IF d.skip THEN q.ret ELSE q.ret + 1,
                 stored |-> IF d.skip THEN q.stored ELSE Append(q.stored, matched.value)])

AtConversion(text, q, d, r) ==
    IF r.c = EOF THEN Stops([q EXCEPT !.s = r.s, !.ret = Ended(q)])
    ELSE Assigned(q, d, Match(text, Sunget(r.s, r.c), d))

Directive(text, d, q) ==
    CASE d.of = "space" -> GoesOn([q EXCEPT !.s = SkipSpace(text, q.s)])
      [] d.of = "char" -> AtChar(q, d.char, Read(text, IF d.char = "%" THEN SkipSpace(text, q.s) ELSE q.s))
      [] d.of = "convert" /\ d.conv = "n" ->
           GoesOn([q EXCEPT !.stored = Append(@, Consumed(q.s) % 2 ^ BitsOf[d.size])])
      [] d.of = "convert" /\ d.conv # "n" ->
           AtConversion(text, q, d, Read(text, IF d.conv \in {"c", "["} THEN q.s ELSE SkipSpace(text, q.s)))

\* The directives up to one that ends the call.
RECURSIVE From(_, _, _)
From(text, format, step) ==
    IF format = <<>> \/ ~step.more THEN step.q
    ELSE From(text, Tail(format), Directive(text, format[1], step.q))

\* sscanf() of a text.
Sscanf(text, format) == From(text, format, GoesOn(State(Cursor(0), 0, <<>>, FALSE)))

-------------------------------------------------------------------------------
(***************************************************************************)
(* What C says of it.                                                      *)
(***************************************************************************)
\* The texts an integer of a base may be: a sign, 0x for 16, digits, the first
\* deciding the base where it is 0.
Bare(t) == IF t # <<>> /\ t[1] \in {"-", "+"} THEN Tail(t) ELSE t
IsHex(u, base) == Len(u) > 2 /\ u[1] = "0" /\ u[2] \in {"x", "X"} /\ base \in {0, 16}
BaseOf(u, base) ==
    CASE IsHex(u, base) -> 16
      [] ~IsHex(u, base) /\ base = 0 -> IF u # <<>> /\ u[1] = "0" THEN 8 ELSE 10
      [] OTHER -> base
DigitsOf(u, base) == IF IsHex(u, base) THEN SubSeq(u, 3, Len(u)) ELSE u
AllDigits(t, base) == t # <<>> /\ \A i \in DOMAIN t : Idig(t[i], base) >= 0
InBase(t, base) == FoldLeft(LAMBDA acc, c : acc * base + Idig(c, base), 0, t)

IsNumber(t, base) == AllDigits(DigitsOf(Bare(t), base), BaseOf(Bare(t), base))
ValueOf(t, base) ==
    InBase(DigitsOf(Bare(t), base), BaseOf(Bare(t), base)) * IF t[1] = "-" THEN -1 ELSE 1

\* The input item: the longest prefix, no longer than the width, that begins a
\* number; it is the number, or there is none.
Item(text, base, wid, more) ==
    LET begins(k) == \E t \in more : IsNumber(SubSeq(text, 1, k) \o t, base)
    IN  SubSeq(text, 1, Max({k \in 0 .. Min({Len(text), wid}) : k = 0 \/ begins(k)}))

\* An integer conversion takes the longest item that begins a number, and
\* yields its value or fails; and one place to push back to is enough.
ItIs(item, left, base, d, r) ==
    /\ r.ret = (CASE left = <<>> -> Failed [] left # <<>> /\ IsNumber(item, base) -> 1 [] OTHER -> 0)
    /\ r.ret = 1 => r.stored = <<ValueOf(item, base) % 2 ^ BitsOf[SizeOf(d)]>>

ScansIntegers(text, d) ==
    LET blank == Cardinality({k \in 1 .. Len(text) : \A i \in 1 .. k : text[i] \in Space})
        left  == SubSeq(text, blank + 1, Len(text))
        base  == ScanBase(d.conv)
    IN  \A item \in {Item(left, base, IF d.wid = 0 THEN Len(text) ELSE d.wid,
                           {<<>>, <<"0">>, <<"x", "0">>, <<"0", "x", "0">>})}, r \in {Sscanf(text, <<d>>)} :
            /\ r.s.pos = blank + Len(item) /\ r.s.count = r.s.pos
            /\ ItIs(item, left, base, d, r)

IsN(d) == d.of = "convert" /\ d.conv = "n"

\* Whatever the directives: what is stored is what is returned, but for %n,
\* which stores the number of characters the call has read; EOF only if the
\* input ended before any conversion was tried.
CountsRight(text, format, r, prefixes, storing) ==
    /\ r.s.count = r.s.pos
    /\ Len(r.stored) - Max({r.ret, 0}) \in 0 .. Cardinality({k \in DOMAIN format : IsN(format[k])})
    /\ r.ret = Failed => r.s.pos = Len(text)
    /\ storing.s = r.s
    /\ \A k \in DOMAIN format :
          IsN(format[k]) /\ Len(prefixes[k].stored) > Len(prefixes[k - 1].stored)
            => Last(prefixes[k].stored) = prefixes[k].s.pos

ScansInOrder(text, format) ==
    CountsRight(text, format, Sscanf(text, format), [k \in 0 .. Len(format) |-> Sscanf(text, SubSeq(format, 1, k))],
                Sscanf(text, [i \in DOMAIN format |-> IF format[i].of = "convert"
                                                        THEN [format[i] EXCEPT !.skip = FALSE] ELSE format[i]]))

\* What %d, %u, %o or %x prints, in any size and whatever the width, the same
\* conversion reads back as the same value, to the last character.
IsBack(text, d, arg, r) == r.ret = 1 /\ r.s.pos = Len(text) /\ r.stored = <<arg % 2 ^ BitsOf[SizeOf(d)]>>
TextReadsBack(text, d, arg) ==
    IsBack(text, d, arg, Sscanf(text, <<[of |-> "convert", conv |-> d.conv, wid |-> 0, size |-> d.size, skip |-> FALSE]>>))
ReadsBack(d, arg) ==
    FollowsC(d, CInteger(d, arg, d.size), arg) /\ "left" \notin d.flags /\ d.wid >= 0
      => TextReadsBack(Converted(d, arg), d, arg)
===============================================================================
