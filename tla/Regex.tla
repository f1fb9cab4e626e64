-------------------------------- MODULE Regex --------------------------------
(***************************************************************************)
(* What a regular expression means, and that regcomp() and regexec() find  *)
(* it.  An expression is a tree here: [chars, written] a character  *)
(* and how it is spelled, [at] an assertion, [parts] one after the other,  *)
(* [options] one of them, [of, min, max] a repetition, [group] a group,    *)
(* [again] a back reference.  Groups are counted by where they begin.      *)
(***************************************************************************)
EXTENDS Regexec

Kind(t) == CHOOSE k \in {"chars", "at", "parts", "options", "min", "group", "again"} : k \in DOMAIN t

RECURSIVE GroupsIn(_)
GroupsIn(t) ==
    LET all(ts) == FoldLeft(LAMBDA acc, u : acc + GroupsIn(u), 0, ts)
    IN  CASE Kind(t) \in {"chars", "at", "again"} -> 0
          [] Kind(t) = "parts" -> all(t.parts)
          [] Kind(t) = "options" -> all(t.options)
          [] Kind(t) = "min" -> GroupsIn(t.of)
          [] Kind(t) = "group" -> 1 + GroupsIn(t.group)

\* The number of the first group in the i-th of some trees.
FirstIn(ts, i, id) == id + FoldLeft(LAMBDA acc, u : acc + GroupsIn(u), 0, SubSeq(ts, 1, i - 1))

(***************************************************************************)
(* All ways a tree matches a text from a place on: where each ends, and    *)
(* the last place of each group.  id is the number of its first group.     *)
(***************************************************************************)
Way(end, groups) == [end |-> end, groups |-> groups]

RECURSIVE Ways(_, _, _, _), WaysOfParts(_, _, _, _, _), WaysOfTimes(_, _, _, _, _)
Ways(t, text, id, w) ==
    LET i    == w.end
        span == w.groups[t.again]
        len  == span[2] - span[1]
        ids  == id .. id + GroupsIn(t) - 1
        none == [w EXCEPT !.groups = [g \in DOMAIN @ |-> IF g \in ids THEN NoSpan ELSE @[g]]]
    IN  CASE Kind(t) = "chars" ->
               IF i < Len(text) /\ text[i + 1] \in t.chars THEN {Way(i + 1, w.groups)} ELSE {}
          [] Kind(t) = "at" ->
               IF (t.at = "^" /\ i = 0) \/ (t.at = "$" /\ i = Len(text)) THEN {w} ELSE {}
          [] Kind(t) = "again" ->
               IF span # NoSpan /\ i + len <= Len(text)
                    /\ SubSeq(text, i + 1, i + len) = SubSeq(text, span[1] + 1, span[2])
                 THEN {Way(i + len, w.groups)} ELSE {}
          [] Kind(t) = "parts" -> WaysOfParts(t.parts, 1, text, id, w)
          [] Kind(t) = "options" ->
               UNION {Ways(t.options[j], text, FirstIn(t.options, j, id), w) : j \in DOMAIN t.options}
          [] Kind(t) = "min" -> WaysOfTimes(t, 0, text, id, w)
          [] Kind(t) = "group" ->
               {[v EXCEPT !.groups[id] = <<i, v.end>>] : v \in Ways(t.group, text, id + 1, none)}

WaysOfParts(ts, j, text, id, w) ==
    IF j > Len(ts) THEN {w}
    ELSE UNION {WaysOfParts(ts, j + 1, text, id, v) : v \in Ways(ts[j], text, FirstIn(ts, j, id), w)}

\* A repetition that matches nothing is the last one, but for those it needs.
WaysOfTimes(t, k, text, id, w) ==
    LET more == IF t.max = -1 \/ k < t.max THEN Ways(t.of, text, id, w) ELSE {}
    IN  (IF k >= t.min THEN {w} ELSE {})
          \cup UNION {IF v.end > w.end \/ k < t.min THEN WaysOfTimes(t, k + 1, text, id, v) ELSE {v} : v \in more}

WaysFrom(t, text, i) ==
    Ways(t, text, 1, Way(i, [g \in 1 .. GroupsIn(t) |-> NoSpan]))

-------------------------------------------------------------------------------
(***************************************************************************)
(* A tree as a pattern.                                                    *)
(***************************************************************************)
Bare(s, ere) == IF ere THEN <<s>> ELSE <<"\\", s>>
Number == <<"0", "1", "2", "3", "4", "5", "6", "7", "8", "9">>

Times(t, ere) ==
    CASE t.min = 0 /\ t.max = -1 -> <<"*">>
      [] t.min = 1 /\ t.max = -1 -> Bare("+", ere)
      [] t.min = 0 /\ t.max = 1 -> Bare("?", ere)
      [] OTHER -> Bare("{", ere) \o <<Number[t.min + 1]>>
                    \o (IF t.max = t.min THEN <<>> ELSE <<",">>)
                    \o (IF t.max \in {-1, t.min} THEN <<>> ELSE <<Number[t.max + 1]>>) \o Bare("}", ere)

RECURSIVE Written(_, _)
Written(t, ere) ==
    CASE Kind(t) = "chars" -> t.written
      [] Kind(t) = "at" -> <<t.at>>
      [] Kind(t) = "again" -> <<"\\", Number[t.again + 1]>>
      [] Kind(t) = "parts" -> FlattenSeq([j \in DOMAIN t.parts |-> Written(t.parts[j], ere)])
      [] Kind(t) = "options" ->
           FlattenSeq([j \in DOMAIN t.options |->
                         (IF j = 1 THEN <<>> ELSE Bare("|", ere)) \o Written(t.options[j], ere)])
      [] Kind(t) = "min" -> Written(t.of, ere) \o Times(t, ere)
      [] Kind(t) = "group" -> Bare("(", ere) \o Written(t.group, ere) \o Bare(")", ere)

-------------------------------------------------------------------------------
(***************************************************************************)
(* The results.                                                            *)
(***************************************************************************)
Compiled(t, flags) == Regcomp(Written(t, "EXTENDED" \in flags), flags)

RECURSIVE Refers(_)
Refers(t) ==
    CASE Kind(t) \in {"chars", "at"} -> FALSE
      [] Kind(t) = "again" -> TRUE
      [] Kind(t) = "parts" -> \E j \in DOMAIN t.parts : Refers(t.parts[j])
      [] Kind(t) = "options" -> \E j \in DOMAIN t.options : Refers(t.options[j])
      [] Kind(t) = "min" -> Refers(t.of)
      [] Kind(t) = "group" -> Refers(t.group)

\* All ways of matching, by where they begin; the leftmost that there is, and
\* the longest of some.
AllWays(t, text) == [i \in 0 .. Len(text) |-> WaysFrom(t, text, i)]
Matches(ways) == {i \in DOMAIN ways : ways[i] # {}}
Ends(ways) == {w.end : w \in ways}

Found(r) == r.status = "REG_OK"
From(r) == r.pmatch[1][1]
To(r) == r.pmatch[1][2]

\* regexec finds a match just where there is one, as long as there is from its
\* place on; and the leftmost, but for one that two paths lead to the end of.
\* REG_NOSUB changes nothing of it.  (With a back reference only that there is a
\* match is certain, and only of one that begins with the text: see FindsBest.)
IsMatch(refers, ways, r, nosub) ==
    LET tied == Cardinality({w \in ways[From(r)] : w.end = To(r)}) > 1
    IN  /\ nosub.status = r.status
        /\ Matches(ways) # {} /\ (refers => ways[0] # {}) => Found(r)
        /\ Found(r) =>
             /\ To(r) \in Ends(ways[From(r)])
             /\ ~refers => To(r) = Max(Ends(ways[From(r)]))
             /\ From(r) = Min(Matches(ways)) \/ tied

FindsMatchesWith(t, texts, m, nosub) ==
    \A text \in texts :
        IsMatch(Refers(t), AllWays(t, text), Regexec(m, text, GroupsIn(t) + 1, {}), Regexec(nosub, text, 0, {}))
FindsMatches(t, texts) == FindsMatchesWith(t, texts, Compiled(t, {}), Compiled(t, {"NOSUB"}))

\* The groups that regexec reports are where one way of matching has them, and
\* the same whichever syntax the expression is written in.
IsWay(t, text, r) == Found(r) => Way(To(r), Tail(r.pmatch)) \in WaysFrom(t, text, From(r))

FindsGroupsWith(t, texts, m, ere) ==
    \A text \in texts :
        \E r \in {Regexec(m, text, GroupsIn(t) + 1, {})} :
            IsWay(t, text, r) /\ (~Refers(t) => Regexec(ere, text, GroupsIn(t) + 1, {}) = r)
FindsGroups(t, texts) == FindsGroupsWith(t, texts, Compiled(t, {}), Compiled(t, {"EXTENDED"}))

\* What regexec.c:472-475 says of a search with back references: it goes through
\* all paths, from each place to begin at, and finds the leftmost and longest
\* match, if there is one.
IsBest(ways, r) ==
    Matches(ways) # {} => /\ Found(r) /\ From(r) = Min(Matches(ways))
                          /\ To(r) = Max(Ends(ways[From(r)]))

FindsBestWith(t, texts, m) == \A text \in texts : IsBest(AllWays(t, text), Regexec(m, text, 1, {}))
FindsBest(t, texts) == FindsBestWith(t, texts, Compiled(t, {}))
===============================================================================
