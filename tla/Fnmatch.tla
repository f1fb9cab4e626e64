------------------------------- MODULE Fnmatch -------------------------------
(***************************************************************************)
(* fnmatch() of fnmatch.c: a wildcard pattern against a string, with one   *)
(* place to go back to, the last `*`, and no recursion.  One turn of the   *)
(* loop is one step.                                                       *)
(*                                                                         *)
(* A pattern is a sequence of items: a `*`, a `?`, a character, one behind *)
(* a backslash, or a bracket expression as the set it stands for.  How     *)
(* items are spelled (FNM_NOESCAPE, ranges, a bracket left open) is left   *)
(* out.                                                                    *)
(***************************************************************************)
EXTENDS Integers, Sequences

CONSTANTS
    Characters,     \* what strings are made of, "." and "/" among them
    Items,          \* what patterns are made of
    Lower(_),       \* tolower()
    MaxPattern,     \* bound: the items of a pattern
    MaxString       \* bound: the characters of a string

Flags == {"PATHNAME", "PERIOD", "LEADING_DIR", "CASEFOLD"}

\* An item that is one character stands for that one, and tolower() makes a
\* slash of nothing else.
ASSUME FnmatchAssumption ==
    /\ MaxPattern \in Nat /\ MaxString \in Nat
    /\ \A i \in Items : i.kind \in {"star", "any", "char", "escaped", "set"}
    /\ \A i \in Items : i.kind \in {"char", "escaped"} =>
          \E x \in i.of : i.of = {x} /\ (Lower(x) = Lower("/") => x = "/")
    /\ \A c \in Characters : Lower(c) = Lower("/") => c = "/"

VARIABLES
    pattern, string, flags,     \* the arguments
    p, s,                       \* where the match is in both, from 1 on
    starP, starS,               \* behind the last `*`, and where it stood; 0 for none
    leading,                    \* s is at the start of a path segment, as far as known
    result,                     \* "running", "match" or "nomatch"
    turns                       \* how many turns the loop has taken

arguments == <<pattern, string, flags>>
vars == <<arguments, p, s, starP, starS, leading, result, turns>>

Texts(S, n) == UNION {[1 .. k -> S] : k \in 0 .. n}

Begin ==
    /\ p = 1 /\ s = 1 /\ starP = 0 /\ starS = 0
    /\ leading = TRUE
    /\ result = "running"
    /\ turns = 0

Init ==
    /\ pattern \in Texts(Items, MaxPattern)
    /\ string \in Texts(Characters, MaxString)
    /\ flags \in SUBSET Flags
    /\ Begin

-------------------------------------------------------------------------------
Same(x, y) ==
    IF "CASEFOLD" \in flags THEN Lower(x) = Lower(y) ELSE x = y

OutOfPattern == p > Len(pattern)
OutOfString == s > Len(string)
Item == pattern[p]
IsStar(i) == i.kind = "star"

\* Where the items from i on first have none of several stars in a row.
AfterStars(i) ==
    CHOOSE j \in i .. Len(pattern) + 1 :
        /\ \A k \in i .. j - 1 : IsStar(pattern[k])
        /\ j <= Len(pattern) => ~IsStar(pattern[j])

SlashIsStructural(c) == "PATHNAME" \in flags /\ c = "/"

\* Whether an item other than a star takes character c; a bracket, negated
\* too, never takes a slash that is structural.
ItemHits(i, c) ==
    CASE i.kind = "any" -> ~SlashIsStructural(c)
      [] i.kind = "set" -> ~SlashIsStructural(c) /\ i.not # \E x \in i.of : Same(x, c)
      [] OTHER          -> \E x \in i.of : Same(x, c)

\* The character is a dot that only a dot in the pattern may take.
GuardedDot(c) == "PERIOD" \in flags /\ leading /\ c = "."

\* The pattern has a dot there; one behind a backslash does not count.
IsDot(i) == i.kind = "char" /\ i.of = {"."}

AtStar == ~OutOfPattern /\ IsStar(Item)
AtDot == ~OutOfPattern /\ IsDot(Item)

Running == result = "running" /\ ~OutOfString
Turn == turns' = turns + 1 /\ UNCHANGED arguments
Ends(matched) ==
    /\ result' = IF matched THEN "match" ELSE "nomatch"
    /\ UNCHANGED <<p, s, starP, starS, leading>>

\* The string is used up: the pattern must be too, but for stars.
StringDone ==
    /\ result = "running" /\ OutOfString
    /\ Ends(\A k \in p .. Len(pattern) : IsStar(pattern[k]))
    /\ Turn

\* The pattern describes the first few segments, and that is enough.
SegmentsDone == OutOfPattern /\ "LEADING_DIR" \in flags /\ string[s] = "/"

LeadingDirDone ==
    /\ Running /\ SegmentsDone
    /\ Ends(TRUE)
    /\ Turn

DotRefused == ~SegmentsDone /\ GuardedDot(string[s]) /\ ~AtDot

LeadingDot ==
    /\ Running /\ DotRefused
    /\ Ends(FALSE)
    /\ Turn

AtItem == Running /\ ~SegmentsDone /\ ~DotRefused

\* A `*` takes nothing at first.
Star ==
    /\ AtItem /\ AtStar
    /\ AfterStars(p) <= Len(pattern)
    /\ p' = AfterStars(p)
    /\ starP' = AfterStars(p) /\ starS' = s
    /\ leading' = FALSE
    /\ UNCHANGED <<s, result>>
    /\ Turn

\* The last `*` takes the rest, of the segment if slashes are structural.
TrailingStar ==
    /\ AtItem /\ AtStar
    /\ AfterStars(p) > Len(pattern)
    /\ Ends(\/ "LEADING_DIR" \in flags
            \/ \A k \in s .. Len(string) : ~SlashIsStructural(string[k]))
    /\ Turn

Hits == ~OutOfPattern /\ ItemHits(Item, string[s])

Hit ==
    /\ AtItem /\ ~AtStar /\ Hits
    /\ p' = p + 1 /\ s' = s + 1
    /\ leading' = SlashIsStructural(string[s])
    /\ UNCHANGED <<starP, starS, result>>
    /\ Turn

Misses == AtItem /\ ~AtStar /\ ~Hits

\* Fault: the star may carry over a slash.
MayGiveAnything(c) == ~GuardedDot(c)

\* The last star may take c as well.
MayGive(c) == ~SlashIsStructural(c) /\ ~GuardedDot(c)

CanGive == starP # 0 /\ MayGive(string[starS])

\* Fault: the match goes on behind the star from where it was.
ResumeAt(at) == at - 1

\* Where the match goes on when the star's part ends before `at`.
GoOnAt(at) == at

\* The last star takes one character more, and what comes after it starts over.
GiveBack ==
    /\ Misses /\ CanGive
    /\ starS' = GoOnAt(starS + 1) /\ s' = GoOnAt(starS + 1)
    /\ p' = starP
    /\ UNCHANGED <<starP, leading, result>>
    /\ Turn

NoMatch ==
    /\ Misses /\ ~CanGive
    /\ Ends(FALSE)
    /\ Turn

Next ==
    \/ StringDone
    \/ LeadingDirDone
    \/ LeadingDot
    \/ Star
    \/ TrailingStar
    \/ Hit
    \/ GiveBack
    \/ NoMatch

Spec == Init /\ [][Next]_vars

-------------------------------------------------------------------------------
(***************************************************************************)
(* The language of a pattern, by the textbook: every `*` takes any number  *)
(* of characters.                                                          *)
(***************************************************************************)
Places == 1 .. Len(string) + 1

\* Place k begins a path segment.
Begins(k) == k = 1 \/ SlashIsStructural(string[k - 1])

OnlyDotMay(k) ==
    /\ "PERIOD" \in flags /\ Begins(k)
    /\ k <= Len(string) /\ string[k] = "."

\* An item other than a star takes the character at k.
Takes(i, k) ==
    /\ k <= Len(string)
    /\ OnlyDotMay(k) => IsDot(pattern[i])
    /\ ItemHits(pattern[i], string[k])

\* A star at k takes the characters before t.
StarTakes(k, t) ==
    /\ \A q \in k .. t : ~OnlyDotMay(q)
    /\ \A q \in k .. t - 1 : ~SlashIsStructural(string[q])

\* Where a match may end: behind the string or, with FNM_LEADING_DIR, any of
\* its segments.
EndPlaces ==
    {k \in Places : k <= Len(string) => "LEADING_DIR" \in flags /\ string[k] = "/"}

\* The places from which the items from i on describe what is left.
Describes[i \in 1 .. Len(pattern) + 1] ==
    IF i > Len(pattern)
      THEN EndPlaces
      ELSE LET rest == Describes[i + 1]
           IN  IF IsStar(pattern[i])
                 THEN {k \in Places : \E t \in rest : k <= t /\ StarTakes(k, t)}
                 ELSE {k \in Places : Takes(i, k) /\ k + 1 \in rest}

Matches == 1 \in Describes[1]

\* fnmatch() with its one place to go back to finds a match exactly when there
\* is a way to share the string out among all the stars.
FnmatchAgrees == result # "running" => (result = "match" <=> Matches)

\* "The pathological pattern degrades to O(n*m) rather than 2^n": no pattern
\* makes the loop take more turns than one per pair of an item and a character.
FnmatchEnds == turns <= (Len(pattern) + 1) * (Len(string) + 1)
===============================================================================
