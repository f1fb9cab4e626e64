------------------------------ MODULE MCLibrary ------------------------------
(***************************************************************************)
(* The functions that keep no state between calls, each with all small     *)
(* inputs: fnmatch, turn by turn, and the pure ones, a call at a time.     *)
(***************************************************************************)
EXTENDS Fnmatch, Numbers

CONSTANTS
    MaxText,        \* bound: the characters of a number
    MaxArray        \* bound: the elements of an array

SortingOf == INSTANCE Sorting
StringsOf == INSTANCE Strings
PrintingOf == INSTANCE Printing
ScanningOf == INSTANCE Scanning
MountsOf == INSTANCE Mounts WITH LineSize <- 24
CalendarOf == INSTANCE Calendar
ArithmeticOf == INSTANCE Arithmetic
RegexOf == INSTANCE Regex

VARIABLE call       \* the call made, of fnmatch or of a pure function

Made(kind) == [of |-> kind]
IsOf(kind) == call.of = kind

-------------------------------------------------------------------------------
\* fnmatch, numbers and arrays.
ItemOf(kind, of, not) == [kind |-> kind, of |-> of, not |-> not]

AllItems ==
    {ItemOf("star", {}, FALSE), ItemOf("any", {}, FALSE), ItemOf("set", {"a"}, TRUE),
     ItemOf("char", {"A"}, FALSE), ItemOf("char", {"."}, FALSE), ItemOf("char", {"/"}, FALSE),
     ItemOf("escaped", {"."}, FALSE)}

AllCharacters == {"a", ".", "/"}
LowerCase(c) == IF c = "A" THEN "a" ELSE c

FnmatchCall == call = Made("fnmatch") /\ Init
FnmatchTurn == IsOf("fnmatch") /\ Next /\ UNCHANGED call

CallNumbers ==
    /\ IsOf("numbers")
    /\ \E text \in Texts({" ", "-", "0", "1", "7", "8", "b", "x"}, MaxText), base \in {0, 2, 8, 10, 16} :
          call' = [of |-> "strtol", text |-> text, base |-> base]

CallSorting ==
    /\ IsOf("sorting")
    /\ \E array \in Texts(1 .. 4, MaxArray), key \in 1 .. 4 :
          call' = [of |-> "qsort", array |-> array, key |-> key]

-------------------------------------------------------------------------------
\* Strings: memory of numbered bytes, moved to and from all alignments, and
\* across the sizes memcpy and memmove take words and runs of words at.
Identity(n) == [i \in 0 .. n + 12 |-> i]

CallStrings ==
    /\ IsOf("strings")
    /\ \/ \E to, from \in 0 .. 11, n \in 0 .. 17 :
             call' = [of |-> "memmove", d |-> to, s |-> from, n |-> n]
       \/ \E n \in {128, 135, 200, 255, 256, 300} :
             call' = [of |-> "memmove", d |-> 1, s |-> 1, n |-> n]
       \/ \E mem \in [0 .. 6 -> 0 .. 2], from \in 0 .. 3, n \in 0 .. 4 :
             call' = [of |-> "memchr", mem |-> mem, s |-> from, n |-> n]
       \/ \E a \in Texts(1 .. 3, 4), b \in Texts(1 .. 3, 3), n \in 0 .. 4 :
             call' = [of |-> "two strings", a |-> Append(a, 0), b |-> Append(b, 0), n |-> n]

-------------------------------------------------------------------------------
\* printf and scanf: every conversion, size and width, and all flags together.
Directive(conv, marks, wid, precision, size) ==
    [conv |-> conv, flags |-> marks, wid |-> wid, dot |-> precision[1], precision |-> precision[2], size |-> size]

Precisions == {<<FALSE, -1>>, <<TRUE, -1>>, <<TRUE, 1>>, <<TRUE, 3>>}
Values(size) == IF size = "ll" THEN {-32, -31, -17, -16, -9, -8, -1, 0, 1, 7, 8, 15, 16, 31} ELSE -8 .. 7
Float(m, e, negative) ==
    [kind |-> "number", negative |-> negative, value |-> PrintingOf!Decimal(m, e)]
Mantissas == {0, 1, 5, 9, 15, 95, 99, 105, 949, 950, 994, 995, 999}

CallPrinting ==
    /\ IsOf("printing")
    /\ \/ \E conv \in {"d", "u", "o", "x", "X"}, marks \in SUBSET {"left", "zero", "plus", "blank", "alt"},
             wid \in {0, 3, -3}, precision \in Precisions, size \in {"hh", "h", "int", "ll"} :
             \E n \in Values(size) :
                call' = [of |-> "printf", d |-> Directive(conv, marks, wid, precision, size), arg |-> n]
       \/ \E conv \in {"f", "g"}, m \in Mantissas, e \in -6 .. 1, places \in 0 .. 3, wid \in {0, 8}, negative \in BOOLEAN :
             /\ conv = "g" => wid = 0 /\ ~negative
             /\ call' = [of |-> "printf", d |-> Directive(conv, {}, wid, <<TRUE, places>>, "int"),
                         arg |-> Float(m, e, negative)]
       \/ \E sz \in 0 .. 6, n \in {-8, 0, 7}, wid \in 0 .. 4, told \in 0 .. 3 :
             call' = [of |-> "snprintf", sz |-> sz,
                      format |-> LET n0 == [of |-> "n"]
                                     rest == <<[of |-> "char", char |-> "a"],
                                               [of |-> "convert", arg |-> n,
                                                d |-> Directive("d", {}, wid, <<FALSE, -1>>, "int")],
                                               [of |-> "char", char |-> "b"]>>
                                 IN  SubSeq(rest, 1, told) \o <<n0>> \o SubSeq(rest, told + 1, 3)]

ScanOf(conv, wid, skip) == [of |-> "convert", conv |-> conv, wid |-> wid, size |-> "int", skip |-> skip]
ScanSet(set, negate) ==
    [of |-> "convert", conv |-> "[", wid |-> 0, size |-> "int", skip |-> FALSE, set |-> set, negate |-> negate]
Directives ==
    {[of |-> "space"], [of |-> "char", char |-> "-"], [of |-> "char", char |-> "%"], ScanOf("d", 0, FALSE),
     ScanOf("i", 2, TRUE), ScanOf("c", 2, FALSE), ScanOf("s", 0, FALSE), ScanOf("s", 1, TRUE),
     ScanSet({"-", " "}, TRUE), ScanOf("n", 0, FALSE)}

CallScanning ==
    /\ IsOf("scanning")
    /\ \/ \E text \in Texts({" ", "-", "0", "1", "8", "b", "x", "X"}, 4), conv \in {"d", "i", "o", "x"},
             wid \in 0 .. 4 :
             call' = [of |-> "scanf integer", text |-> text, d |-> ScanOf(conv, wid, FALSE)]
       \/ \E text \in Texts({" ", "-", "0"}, 4), format \in Texts(Directives, 3) :
             call' = [of |-> "scanf", text |-> text, format |-> format]
       \/ \E conv \in {"d", "u", "o", "x"}, marks \in SUBSET {"zero", "plus", "blank", "alt"}, wid \in {0, 3},
             precision \in Precisions, size \in {"hh", "h", "int", "ll"} :
             \E n \in Values(size) :
                call' = [of |-> "printf and scanf", d |-> Directive(conv, marks, wid, precision, size), arg |-> n]

-------------------------------------------------------------------------------
\* The mount table: fields with what has to be escaped, lines that fit and not.
MountEntry(fsname, dir, opts, freq) ==
    [fsname |-> fsname, dir |-> dir, type |-> <<"t">>, opts |-> opts, freq |-> freq, passno |-> 0]
Fields == (Texts({"a", " ", "\\", "NL", "#"}, 2) \ {<<>>}) \cup {<<"\\", "0", "4", "0">>, <<"\\", "1">>}
Noises == {<<>>, <<"NL">>, <<"#", "NL">>, <<" ", "#", " ", "a", "NL">>, <<"a", "NL">>, <<"TAB", "a", " ", "NL">>}

CallMounts ==
    /\ IsOf("mounts")
    /\ \/ \E f, g \in Fields, freq \in {0, 10}, noise \in Noises, twice \in BOOLEAN :
             LET m == MountEntry(f, g, <<"a">>, freq)
             IN  call' = [of |-> "mntent", noise |-> noise,
                          entries |-> IF twice THEN <<m, MountEntry(g, f, <<"a", " ">>, 1)>> ELSE <<m>>]
       \/ \E opts \in Texts({"a", "b", ",", "="}, 5), opt \in Texts({"a", "b"}, 2) \ {<<>>} :
             call' = [of |-> "hasmntopt", opts |-> opts, opt |-> opt]

\* Time: all days around the ends of months, years and Februaries, 1970 - 2037.
Days == {d \in 0 .. 24836 : d % 7 = 0 \/ (d % 1461) \in {57, 58, 59, 60, 364, 365, 423, 424, 425, 788, 789, 790,
                                                             1095, 1096, 1154, 1155}}
CallCalendar ==
    /\ IsOf("calendar")
    /\ \E day \in Days, second \in {0, 43199, 86399}, zone \in {0, -3600, 18000} :
          /\ day * 86400 + second - zone >= 0
          /\ call' = [of |-> "localtime", t |-> day * 86400 + second, zone |-> zone]

-------------------------------------------------------------------------------
\* Arithmetic: all small words, the ends of the floating range, decimal texts.
Floats == {ArithmeticOf!Fin(sign, n) : sign \in {0, 1}, n \in {0, 1, 4, 16, 64, ArithmeticOf!Big, ArithmeticOf!Largest}}
            \cup {ArithmeticOf!Inf(0), ArithmeticOf!Inf(1), ArithmeticOf!NaN}
Exponents == {<<>>, <<"e", "7">>, <<"E", "+", "3">>, <<"e", "-", "2">>, <<"e", "-", "5">>}
Rests == {<<>>, <<"e">>, <<"e", "-">>, <<".">>, <<"x">>}

CallArithmetic ==
    /\ IsOf("arithmetic")
    /\ \/ \E v \in 0 .. 255 : call' = [of |-> "bits", v |-> v]
       \/ \E a, b, c, d \in Floats :
             call' = [of |-> "divide", a |-> a, b |-> b, c |-> c, d |-> d]
       \/ \E sign \in {<<>>, <<"-">>, <<"+">>}, whole \in Texts({"0", "3", "7"}, 3) \ {<<>>},
             fraction \in Texts({"0", "7"}, 3), e \in Exponents, rest \in Rests :
             /\ rest = <<".">> => fraction # <<>> \/ e # <<>>
             /\ call' = [of |-> "strtod", sign |-> sign, whole |-> whole, fraction |-> fraction, e |-> e, rest |-> rest]
       \/ \E conv \in {"f", "g"}, m \in Mantissas, e \in -6 .. 1, places \in 0 .. 3, negative \in BOOLEAN :
             call' = [of |-> "printf and strtod", d |-> Directive(conv, {}, 0, <<TRUE, places>>, "int"),
                      x |-> Float(m, e, negative)]

-------------------------------------------------------------------------------
\* Regular expressions: a group of two pieces, itself repeated, with a piece
\* before or behind; groups in groups; anchors; back references; brackets.
One(c) == [chars |-> {c}, written |-> <<c>>]
AorB == [chars |-> {"a", "b"}, written |-> <<"[", "a", "b", "]">>]
Repeat(t, min, max) == [of |-> t, min |-> min, max |-> max]
Group(t) == [group |-> t]
Parts(ts) == [parts |-> ts]
Either(t, u) == [options |-> <<t, u>>]
Times(t) == {t, Repeat(t, 0, -1), Repeat(t, 0, 1), Repeat(t, 2, 2), Repeat(t, 1, 2)}
AllTimes(ts) == UNION {Times(t) : t \in ts}

Letters == {One("a"), One("b")}
Starred(ts) == ts \cup {Repeat(t, 0, -1) : t \in ts}
Pieces == Starred({One("a"), AorB}) \cup {Repeat(One("a"), 1, 2), Repeat(AorB, 2, 2)}
Pairs(ts, us) == {Parts(<<t, u>>) : t \in ts, u \in us} \cup {Either(t, u) : t \in ts, u \in us}
GroupedPairs == {Group(t) : t \in Pairs(Pieces, Letters)}
ShortPairs == {Group(t) : t \in Pairs(Letters, {One("a")}) \cup Pairs({Repeat(One("a"), 0, -1)}, Letters)}
InnerGroups == Times(Group(Either(One("a"), One("b")))) \cup {Group(One("a"))}
GroupsInGroups == {Group(t) : t \in Pairs(InnerGroups, {One("b"), Repeat(Group(One("b")), 0, -1)})}

ShortTexts == Texts({"a", "b"}, 3)
Tree(t) == [of |-> "regexec", tree |-> t]

CallRegex ==
    /\ IsOf("regex")
    /\ \/ \E g \in GroupedPairs : \E t \in Times(g) :
             \/ call' = Tree(Parts(<<t, One("a")>>))
             \/ call' = Tree(Parts(<<Repeat(One("a"), 0, -1), t>>))
       \/ \E t \in UNION {Times(g) : g \in GroupsInGroups} : call' = Tree(t)

CallAnchors ==
    /\ IsOf("anchors")
    /\ \/ \E t \in UNION {Times(g) : g \in ShortPairs} :
             \/ call' = Tree(Parts(<<[at |-> "^"], t>>))
             \/ call' = Tree(Parts(<<t, [at |-> "$"]>>))
       \/ \E g \in ShortPairs, t \in {One("b")} \cup Starred({One("a")}), n \in Starred({[again |-> 1]}) :
             call' = Tree(Parts(<<g, t, n>>))

\* Two ranges in brackets, which may overlap, and all that is not in them.
Alphabet == <<"a", "b", "c", "d", "e">>
AlphabetSet == {Alphabet[i] : i \in DOMAIN Alphabet}
CallBrackets ==
    /\ IsOf("brackets")
    /\ \E from, to, low, high \in 1 .. 5, negated \in BOOLEAN :
          /\ from <= to /\ low <= high
          /\ LET set == {Alphabet[i] : i \in (from .. to) \cup (low .. high)}
             IN  call' = [of |-> "regexec of set",
                          tree |-> [chars |-> IF negated THEN AlphabetSet \ set ELSE set,
                                    written |-> <<"[">> \o (IF negated THEN <<"^">> ELSE <<>>)
                                                 \o <<Alphabet[from], "-", Alphabet[to],
                                                      Alphabet[low], "-", Alphabet[high], "]">>]]

-------------------------------------------------------------------------------
PureInit ==
    /\ call \in {Made(kind) : kind \in {"numbers", "sorting", "strings", "printing", "scanning", "mounts",
                                       "calendar", "arithmetic", "regex", "anchors", "brackets"}}
    /\ pattern = <<>> /\ string = <<>> /\ flags = {}
    /\ Begin

PureCall ==
    /\ \/ CallNumbers \/ CallSorting \/ CallStrings \/ CallPrinting \/ CallScanning \/ CallMounts
       \/ CallCalendar \/ CallArithmetic \/ CallRegex \/ CallAnchors \/ CallBrackets
    /\ UNCHANGED vars

LibrarySpec == (PureInit \/ FnmatchCall) /\ [][FnmatchTurn \/ PureCall]_<<vars, call>>

\* Regular expressions with anchors and back references alone.
RegexSpec == (PureInit /\ IsOf("anchors")) /\ [][CallAnchors /\ UNCHANGED vars]_<<vars, call>>

-------------------------------------------------------------------------------
\* Numbers' ReadsRight for every text and base: see there.
ReadsNumbers == IsOf("strtol") => ReadsRight(call.text, call.base)

\* Sorting's SortsAndFinds for every array and key: see there.
SortsArrays == IsOf("qsort") => SortingOf!SortsAndFinds(call.array, call.key)

\* Strings: memmove, memcpy, memset and memchr at every alignment and size do
\* what a byte at a time would; the string functions agree with what their
\* strings are.
MovesStrings ==
    /\ IsOf("memmove") => StringsOf!MovesRight(call.d, call.s, call.n, Identity(call.n))
    /\ IsOf("memchr") => StringsOf!FindsRight(call.mem, call.s, 1, call.n)
    /\ IsOf("two strings") => StringsOf!StringsRight(call.a, call.b, call.n)

\* Printing: integers and floats print as C says, and vsnprintf writes no more
\* than it was given room for and returns what it would have taken.
PrintsAsC ==
    /\ IsOf("printf") => PrintingOf!PrintsRight(call.d, call.arg)
    /\ IsOf("snprintf") => PrintingOf!Measures(call.sz, call.format)

\* Scanning: integer conversions take the longest number there is, results are
\* counted and stored in order, and what printf prints scanf reads back.
\* Mounts: what addmntent writes getmntent reads, whatever is around it, and
\* hasmntopt finds whole options.
ScansInput ==
    /\ IsOf("scanf integer") => ScanningOf!ScansIntegers(call.text, call.d)
    /\ IsOf("scanf") => ScanningOf!ScansInOrder(call.text, call.format)
    /\ IsOf("printf and scanf") => ScanningOf!ReadsBack(call.d, call.arg)
    /\ IsOf("mntent") => MountsOf!ReadsEntries(call.entries, call.noise)
    /\ IsOf("hasmntopt") => MountsOf!FindsOption(call.opts, call.opt)

\* Calendar's KeepsTime for every time and zone: see there.
KeepsAllTime == IsOf("localtime") => CalendarOf!KeepsTime(call.t, call.zone)

\* Arithmetic: counts of bits and exponents, and division of complex numbers,
\* which scaling keeps right at the ends of the range.
ComputesRight ==
    /\ IsOf("bits") => /\ ArithmeticOf!CountsBits(call.v, 8)
                       /\ ArithmeticOf!FindsExponents(call.v \div 4 % 16, call.v % 4)
    /\ IsOf("divide") => /\ ArithmeticOf!DividesAtTheEnds(call.a, call.b, call.c, call.d)
                         /\ ArithmeticOf!FindsLarger(call.a, call.b)

\* Arithmetic: strtod takes the number its text begins with and rounds it
\* correctly where one rounding does (stdlib.c:230-232), else as often as it
\* steps, over- and underflow included; it reads back what printf prints.
ReadsFloats ==
    /\ IsOf("strtod") => ArithmeticOf!ParsesFloat(call.sign, call.whole, call.fraction, call.e, call.rest)
    /\ IsOf("printf and strtod") => ArithmeticOf!FloatsReadBack(call.d, call.x)

\* Regex's FindsMatches and FindsGroups for every tree: see there.
SearchesRight ==
    /\ IsOf("regexec") => /\ RegexOf!FindsMatches(call.tree, ShortTexts)
                          /\ RegexOf!FindsGroups(call.tree, ShortTexts)
    /\ IsOf("regexec of set") => RegexOf!FindsMatches(call.tree, Texts(AlphabetSet, 1))

\* Regex's FindsBest for every tree with a back reference: see there.  The code
\* does not: once its stack is empty it tries the later places to begin from only
\* if the path that failed last has not read to the end of the string.
SearchesAllPaths ==
    IsOf("regexec") /\ RegexOf!Refers(call.tree) => RegexOf!FindsBest(call.tree, ShortTexts)
===============================================================================
