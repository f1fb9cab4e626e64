------------------------------ MODULE Regparse ------------------------------
(***************************************************************************)
(* Parsing of regular expressions, from regcomp.c.  A pattern is the       *)
(* sequence of its characters, each one string; a class like [:alpha:]     *)
(* inside of brackets is one of them.  Codes are those of ASCII.           *)
(***************************************************************************)
EXTENDS Integers, Sequences, SequencesExt, FiniteSetsExt

NUL == "NUL"
Control == [NUL |-> 0, BEL |-> 7, TAB |-> 9, NL |-> 10, FF |-> 12, CR |-> 13, ESC |-> 27]
Printable ==
    << " ", "!", "QUOTE", "#", "$", "%", "&", "'", "(", ")", "*", "+", ",", "-", ".", "/",
       "0", "1", "2", "3", "4", "5", "6", "7", "8", "9", ":", ";", "<", "=", ">", "?",
       "@", "A", "B", "C", "D", "E", "F", "G", "H", "I", "J", "K", "L", "M", "N", "O",
       "P", "Q", "R", "S", "T", "U", "V", "W", "X", "Y", "Z", "[", "\\", "]", "^", "_",
       "GRAVE", "a", "b", "c", "d", "e", "f", "g", "h", "i", "j", "k", "l", "m", "n", "o",
       "p", "q", "r", "s", "t", "u", "v", "w", "x", "y", "z", "{", "|", "}", "~" >>
Codes == [c \in DOMAIN Control \cup ToSet(Printable) |->
            IF c \in DOMAIN Control THEN Control[c]
            ELSE 31 + CHOOSE i \in DOMAIN Printable : Printable[i] = c]
Code(c) == Codes[IF c \in DOMAIN Codes THEN c ELSE "["]
CharMax == 127                                   \* bound: TRE_CHAR_MAX

IsLower(n) == n \in 97 .. 122
IsUpper(n) == n \in 65 .. 90
ToLower(n) == IF IsUpper(n) THEN n + 32 ELSE n
ToUpper(n) == IF IsLower(n) THEN n - 32 ELSE n
IsDigit(c) == Code(c) \in 48 .. 57

Letters == (65 .. 90) \cup (97 .. 122)
Digits == 48 .. 57
Blanks == {32} \cup (9 .. 13)
ClassOf == [c \in {"[:alpha:]", "[:digit:]", "[:alnum:]", "[:space:]", "[:upper:]", "[:lower:]"} |->
              CASE c = "[:alpha:]" -> Letters [] c = "[:digit:]" -> Digits
                [] c = "[:alnum:]" -> Letters \cup Digits [] c = "[:space:]" -> Blanks
                [] c = "[:upper:]" -> 65 .. 90 [] c = "[:lower:]" -> 97 .. 122]

-------------------------------------------------------------------------------
(***************************************************************************)
(* The tree.  sub is the group a node is, -1 for none, subs how many there *)
(* are in it, tags how many tags it is going to have.                      *)
(***************************************************************************)
NoNode == [kind |-> "NONE"]
NoGroup == -1

Leaf(kind, of, position) ==
    [kind |-> kind, of |-> of, position |-> position, sub |-> NoGroup, subs |-> 0, tags |-> 0]
Empty == Leaf("EMPTY", "", -1)
Assertion(of) == Leaf("ASSERTION", of, -1)
TagLeaf(tag) == Leaf("TAG", tag, -1)

\* What a literal accepts: codes in a range that are in a class and in none of
\* the negated ones.
Accept(min, max, class, neg) == [min |-> min, max |-> max, class |-> class, neg |-> neg]
AnyClass == 0 .. CharMax
Codepoints(min, max) == Accept(min, max, AnyClass, {})
Char(range, position) == Leaf("CHAR", range, position)

Iteration(arg, min, max) ==
    [kind |-> "ITERATION", arg |-> arg, min |-> min, max |-> max, sub |-> NoGroup, subs |-> arg.subs, tags |-> 0]
Pair(kind, left, right) ==
    [kind |-> kind, left |-> left, right |-> right, sub |-> NoGroup, subs |-> left.subs + right.subs,
     tags |-> 0]
Union(left, right) == IF left = NoNode THEN right ELSE Pair("UNION", left, right)
Catenation(left, right) == IF left = NoNode THEN right ELSE Pair("CATENATION", left, right)

\* marksub(): a node that is a group already gets an empty one beside it.
Marked(node, id) ==
    LET n == IF node.sub # NoGroup THEN Catenation(Empty, node) ELSE node
    IN  [n EXCEPT !.sub = id, !.subs = node.subs + 1]

-------------------------------------------------------------------------------
(***************************************************************************)
(* The parser's state q: s is the place it has come to, start that where   *)
(* the present branch begins, n the node parsed last.                      *)
(***************************************************************************)
At(p, i) == IF i <= Len(p) THEN p[i] ELSE NUL
Error(q, err) == [q EXCEPT !.err = err]
Parsed(q, node, s, positions) == [q EXCEPT !.n = node, !.s = s, !.position = @ + positions]
Ere(q) == "EXTENDED" \in q.flags

\* add_icase_literals(): the ranges of a range's letters in the other case.
Folded(min, max) ==
    LET other(lo, hi, by) == IF max >= lo /\ min <= hi
                               THEN <<Codepoints(Max({min, lo}) + by, Min({max, hi}) + by)>> ELSE <<>>
    IN  other(65, 90, 32) \o other(97, 122, -32)

\* parse_bracket_terms(): the ranges, and the classes that are to be negated.
RECURSIVE Terms(_, _, _, _, _, _)
Terms(p, q, s, first, ranges, neg) ==
    LET c      == At(p, s)
        hyphen == At(p, s + 1) = "-" /\ At(p, s + 2) # "]"
        min    == Code(c)
        max    == IF hyphen THEN Code(At(p, s + 2)) ELSE min
        wrong(err) == [err |-> err, ranges |-> <<>>, neg |-> {}, s |-> s]
    IN  CASE c = NUL -> wrong("REG_EBRACK")
          [] c = "]" /\ s # first -> [err |-> "REG_OK", ranges |-> ranges, neg |-> neg, s |-> s + 1]
          [] c = "-" /\ s # first /\ At(p, s + 1) # "]" /\ (At(p, s + 1) # "-" \/ At(p, s + 2) = "]") ->
               wrong("REG_ERANGE")
          [] c = "[" /\ At(p, s + 1) \in {".", "="} -> wrong("REG_ECOLLATE")
          [] c = "[:unknown:]" -> wrong("REG_ECTYPE")
          [] c \in DOMAIN ClassOf /\ At(p, first - 1) = "^" ->
               Terms(p, q, s + 1, first, ranges, neg \cup ClassOf[c])
          [] c \in DOMAIN ClassOf /\ At(p, first - 1) # "^" ->
               Terms(p, q, s + 1, first, Append(ranges, Accept(0, CharMax, ClassOf[c], {})), neg)
          [] OTHER ->
               IF hyphen /\ (At(p, s + 2) = NUL \/ min > max) THEN wrong("REG_ERANGE")
               ELSE Terms(p, q, IF hyphen THEN s + 3 ELSE s + 1, first,
                          Append(ranges, Codepoints(min, max))
                            \o IF "ICASE" \in q.flags THEN Folded(min, max) ELSE <<>>, neg)

\* What follows a range, and all before it.
Behind(negmin, max) == Max({max + 1, negmin})

\* The ranges between some ranges, which are sorted by where they begin.
Between(ranges, neg) ==
    FoldLeft(LAMBDA acc, r :
               IF r.min <= acc.negmin THEN [acc EXCEPT !.negmin = Behind(@, r.max)]
               ELSE [gaps |-> Append(acc.gaps, Accept(acc.negmin, r.min - 1, AnyClass, neg)),
                     negmin |-> r.max + 1],
             [gaps |-> <<>>, negmin |-> 0],
             SortSeq(ranges, LAMBDA x, y : x.min < y.min)
               \o <<Codepoints(CharMax + 1, CharMax + 1)>>).gaps

\* parse_bracket(): a union of ranges that are one position together.
RangesOf(terms, negate, flags) ==
    IF ~negate THEN terms.ranges
    ELSE Between(terms.ranges \o IF "NEWLINE" \in flags THEN <<Codepoints(10, 10)>> ELSE <<>>, terms.neg)

BracketOf(q, terms, negate) ==
    IF terms.err # "REG_OK" THEN Error(q, terms.err)
    ELSE Parsed(q, FoldLeft(LAMBDA acc, r : Union(acc, Char(r, q.position)), NoNode,
                            RangesOf(terms, negate, q.flags)), terms.s, 1)

Bracket(p, q, s) ==
    LET negate == At(p, s) = "^"
        first  == IF negate THEN s + 1 ELSE s
    IN  BracketOf(q, Terms(p, q, first, first, <<>>, {}), negate)

\* parse_dup(): [ok, min, max, s], s behind the closing brace.
DupMax == 255                                    \* RE_DUP_MAX
Decimal(t) == FoldLeft(LAMBDA acc, c : 10 * acc + Code(c) - 48, 0, t)
DigitsEnd(p, s) == Min({i \in s .. Len(p) + 1 : ~IsDigit(At(p, i))})
CountEnd(p, s, end) == Min({end} \cup {i + 1 : i \in {j \in s .. end - 1 : Decimal(SubSeq(p, s, j)) > DupMax}})
CountTo(p, s, end) == [n |-> IF end = s THEN -1 ELSE Decimal(SubSeq(p, s, end - 1)), s |-> end]
DupCount(p, s) == CountTo(p, s, CountEnd(p, s, DigitsEnd(p, s)))

DupOf(p, least, most, ere) ==
    LET brace == IF ere THEN most.s ELSE most.s + 1
    IN  [ok |-> /\ least.n \in 0 .. DupMax /\ most.n <= DupMax /\ (most.n >= 0 => most.n >= least.n)
                /\ (ere \/ At(p, most.s) = "\\") /\ At(p, brace) = "}",
         min |-> least.n, max |-> most.n, s |-> brace + 1]
DupFrom(p, least, ere) ==
    DupOf(p, least, IF At(p, least.s) = "," THEN DupCount(p, least.s + 1) ELSE least, ere)
Dup(p, s, ere) == DupFrom(p, DupCount(p, s), ere)

-------------------------------------------------------------------------------
(***************************************************************************)
(* parse_atom().                                                           *)
(***************************************************************************)
Macros == [t |-> <<"TAB">>, n |-> <<"NL">>, r |-> <<"CR">>, f |-> <<"FF">>, a |-> <<"BEL">>, e |-> <<"ESC">>,
           w |-> <<"[", "[:alnum:]", "_", "]">>, W |-> <<"[", "^", "[:alnum:]", "_", "]">>,
           s |-> <<"[", "[:space:]", "]">>, S |-> <<"[", "^", "[:space:]", "]">>,
           d |-> <<"[", "[:digit:]", "]">>, D |-> <<"[", "^", "[:digit:]", "]">>]

WordAssertions == [b |-> "WB", B |-> "WB_NEG"]

Literal(p, q, s) ==
    LET n == Code(At(p, s))
        both == Union(Char(Codepoints(ToUpper(n), ToUpper(n)), q.position),
                      Char(Codepoints(ToLower(n), ToLower(n)), q.position))
    IN  Parsed(q, IF "ICASE" \in q.flags /\ (IsUpper(n) \/ IsLower(n)) THEN both
                  ELSE Char(Codepoints(n, n), q.position), s + 1, 1)

Hex(c) == LET n == Code(c) IN CASE n \in 48 .. 57 -> n - 48
                                [] n \in 65 .. 70 -> n - 55 [] n \in 97 .. 102 -> n - 87 [] OTHER -> -1

UnicodeEnd == 17 * 2 ^ 16

\* \xHH and \x{H...}: s is behind the x.
HexValue(t) == FoldLeft(LAMBDA acc, c : 16 * acc + Hex(c), 0, t)
HexEnd(p, from, last) ==
    Min({i \in from .. last : i = last \/ Hex(At(p, i)) < 0 \/ HexValue(SubSeq(p, from, i - 1)) >= UnicodeEnd})
HexLiteral(q, v, s) == Parsed(q, Char(Codepoints(v, v), q.position), s, 1)
HexDigits(p, q, from, end, braced) ==
    IF braced /\ At(p, end) # "}" THEN Error(q, "REG_EBRACE")
    ELSE HexLiteral(q, HexValue(SubSeq(p, from, end - 1)), IF braced THEN end + 1 ELSE end)
HexEscape(p, q, s) ==
    IF At(p, s) = "{" THEN HexDigits(p, q, s + 1, HexEnd(p, s + 1, s + 9), TRUE)
    ELSE HexDigits(p, q, s, HexEnd(p, s, s + 2), FALSE)

\* "." without the newline is two ranges, of a position each.
Dot(q, s) ==
    IF "NEWLINE" \in q.flags
      THEN Parsed(q, Union(Char(Codepoints(0, 9), q.position),
                           Char(Codepoints(11, CharMax), q.position + 1)), s + 1, 2)
      ELSE Parsed(q, Char(Codepoints(0, CharMax), q.position), s + 1, 1)

\* An escape, of the character at s.
Escape(p, q, s) ==
    LET c == At(p, s)
    IN  CASE c = NUL -> Error(q, "REG_EESCAPE")
          [] c \in DOMAIN Macros ->
               [(IF Macros[c][1] = "[" THEN Bracket(Macros[c], q, 2) ELSE Literal(Macros[c], q, 1))
                  EXCEPT !.s = s + 1]
          [] c \in DOMAIN WordAssertions -> Parsed(q, Assertion(WordAssertions[c]), s + 1, 0)
          [] c = "<" -> Parsed(q, Assertion("BOW"), s + 1, 0)
          [] c = ">" -> Parsed(q, Assertion("EOW"), s + 1, 0)
          [] c = "x" -> HexEscape(p, q, s + 1)
          [] ~Ere(q) /\ c \in {"{", "+", "?"} -> Error(q, "REG_BADRPT")
          [] ~Ere(q) /\ c = "|" -> Parsed(q, Empty, s - 1, 0)
          [] ~Ere(q) /\ IsDigit(c) /\ c # "0" ->
               [Parsed(q, Leaf("BACKREF", Code(c) - 48, q.position), s + 1, 1)
                  EXCEPT !.backref = Max({@, Code(c) - 48})]
          [] OTHER -> Literal(p, q, s)

\* In a BRE "^" is special where a branch begins and "$" where it ends.
BeginsBranch(q, s) == Ere(q) \/ s = q.start
EndsBranch(p, q, s) ==
    Ere(q) \/ At(p, s + 1) = NUL \/ (At(p, s + 1) = "\\" /\ At(p, s + 2) \in {")", "|"})

Atom(p, q, s) ==
    LET c == At(p, s)
    IN  CASE c = "[" -> Bracket(p, q, s + 1)
          [] c = "\\" -> Escape(p, q, s + 1)
          [] c = "." -> Dot(q, s)
          [] c = "^" /\ BeginsBranch(q, s) -> Parsed(q, Assertion("BOL"), s + 1, 0)
          [] c = "$" /\ EndsBranch(p, q, s) -> Parsed(q, Assertion("EOL"), s + 1, 0)
          [] c \in {"*", "{", "+", "?"} /\ Ere(q) -> Error(q, "REG_BADRPT")
          [] c = NUL \/ (c = "|" /\ Ere(q)) -> Parsed(q, Empty, s, 0)
          [] OTHER -> Literal(p, q, s)

-------------------------------------------------------------------------------
(***************************************************************************)
(* tre_parse().                                                            *)
(***************************************************************************)

\* The repetitions that follow an atom: o is the character that says which.
Repetition(p, s, o, ere) ==
    IF o = "{" THEN Dup(p, s, ere)
    ELSE [ok |-> TRUE, min |-> IF o = "+" THEN 1 ELSE 0, max |-> IF o = "?" THEN 1 ELSE -1, s |-> s]

RepeatedBy(q, dup) ==
    IF ~dup.ok THEN Error(q, "REG_BADBR")
    ELSE [q EXCEPT !.s = dup.s, !.n = IF dup.max = 0 THEN Empty ELSE Iteration(@, dup.min, dup.max)]

RECURSIVE Repeated(_, _)
Repeated(p, q) ==
    LET escaped  == At(p, q.s) = "\\"
        operator == IF escaped THEN q.s + 1 ELSE q.s
        o        == At(p, operator)
        repeats  == IF Ere(q) THEN ~escaped /\ o \in {"*", "+", "?", "{"}
                    ELSE o \in IF escaped THEN {"+", "?", "{"} ELSE {"*"}
        caret    == ~Ere(q) /\ operator = q.start + 1 /\ At(p, operator - 1) = "^"
    IN  IF q.err # "REG_OK" \/ ~repeats \/ caret THEN q
        ELSE Repeated(p, RepeatedBy(q, Repetition(p, operator + 1, o, Ere(q))))

Escaped(p, s, c) == At(p, s) = "\\" /\ At(p, s + 1) = c
Opens(p, q) == IF Ere(q) THEN At(p, q.s) = "(" ELSE Escaped(p, q.s, "(")
Closes(p, q) == IF Ere(q) THEN At(p, q.s) = ")" /\ q.stack # <<>> ELSE Escaped(p, q.s, ")")
Alternates(p, q) == IF Ere(q) THEN At(p, q.s) = "|" ELSE Escaped(p, q.s, "|")
Width(q) == IF Ere(q) THEN 1 ELSE 2

Opened(q) ==
    [q EXCEPT !.stack = Append(@, [union |-> q.union, branch |-> q.branch, id |-> q.groups]),
              !.groups = @ + 1, !.s = @ + Width(q), !.start = q.s + Width(q),
              !.union = NoNode, !.branch = NoNode]

RECURSIVE ParseFrom(_, _), BehindAtom(_, _), BehindPiece(_, _)
BehindAtom(p, atom) == IF atom.err # "REG_OK" THEN atom ELSE BehindPiece(p, Repeated(p, atom))

ParseFrom(p, q) ==
    IF Opens(p, q) THEN ParseFrom(p, Opened(q))
    ELSE BehindAtom(p, IF Closes(p, q) THEN [q EXCEPT !.n = Empty] ELSE Atom(p, q, q.s))

\* Behind an atom and its repetitions: what they end.
BehindPiece(p, r) ==
    LET branch == Catenation(r.branch, r.n)
        union  == Union(r.union, branch)
        top    == Last(r.stack)
        ends   == At(p, r.s) = NUL
    IN  CASE r.err # "REG_OK" -> r
          [] r.err = "REG_OK" /\ Alternates(p, r) ->
               ParseFrom(p, [r EXCEPT !.union = union, !.branch = NoNode, !.s = @ + Width(r),
                                      !.start = r.s + Width(r)])
          [] r.err = "REG_OK" /\ Closes(p, r) ->
               IF r.stack = <<>> THEN Error(r, "REG_EPAREN")
               ELSE BehindAtom(p, [r EXCEPT !.n = Marked(union, top.id), !.s = @ + Width(r),
                                         !.union = top.union, !.branch = top.branch, !.stack = Front(@)])
          [] r.err = "REG_OK" /\ ends ->
               IF r.stack # <<>> THEN Error(r, "REG_EPAREN") ELSE [r EXCEPT !.n = Marked(union, 0)]
          [] OTHER -> ParseFrom(p, [r EXCEPT !.branch = branch])

Parse(p, flags) ==
    ParseFrom(p, [s |-> 1, start |-> 1, n |-> NoNode, branch |-> NoNode, union |-> NoNode, stack |-> <<>>,
                  groups |-> 1, position |-> 0, backref |-> -1, err |-> "REG_OK", flags |-> flags])
===============================================================================
