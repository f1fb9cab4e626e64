------------------------------- MODULE Regexec -------------------------------
(***************************************************************************)
(* Matching with a compiled regular expression, from regexec.c: all paths  *)
(* in parallel where there is no back reference, one after the other where *)
(* there is.  A text is the sequence of its characters; places in it are   *)
(* counted from 0.                                                         *)
(***************************************************************************)
EXTENDS Regcomp

CodeAt(text, pos) == Code(At(text, pos + 1))
Before(text, pos) == IF pos = 0 THEN 0 ELSE CodeAt(text, pos - 1)

-------------------------------------------------------------------------------
(***************************************************************************)
(* Whether a transition may be taken.  prev and next are the characters    *)
(* on both sides of pos, flags what regcomp() and regexec() were given.    *)
(***************************************************************************)
InWord(c) == c \in Letters \cup Digits \cup {Code("_")}

\* CHECK_ASSERTIONS
Fails(assertion, prev, next, pos, flags) ==
    LET newline(c) == c = 10 /\ "NEWLINE" \in flags
        inside     == InWord(prev) = InWord(next)
    IN  CASE assertion = "BOL" -> (pos > 0 \/ "NOTBOL" \in flags) /\ ~newline(prev)
          [] assertion = "EOL" -> (next # 0 \/ "NOTEOL" \in flags) /\ ~newline(next)
          [] assertion = "BOW" -> InWord(prev) \/ ~InWord(next)
          [] assertion = "EOW" -> ~InWord(prev) \/ InWord(next)
          [] assertion = "WB" -> pos # 0 /\ next # 0 /\ inside
          [] assertion = "WB_NEG" -> pos = 0 \/ next = 0 \/ ~inside

Blocked(t, prev, next, pos, flags) == \E a \in t.assertions : Fails(a, prev, next, pos, flags)

\* The range of a transition, and CHECK_CHAR_CLASSES.
Cases(c, flags) == IF "ICASE" \in flags THEN {ToLower(c), ToUpper(c)} ELSE {c}
Reads(t, c, flags) ==
    /\ c \in t.range.min .. t.range.max
    /\ t.range.class # AnyClass => Cases(c, flags) \cap t.range.class # {}
    /\ Cases(c, flags) \cap t.range.neg = {}

\* tre_tag_order()
Wins(dirs, t1, t2) ==
    \E i \in DOMAIN t1 :
        /\ \A j \in DOMAIN t1 : j < i => t1[j] = t2[j]
        /\ IF i \in DOMAIN dirs /\ dirs[i] = "MINIMIZE" THEN t1[i] < t2[i] ELSE t1[i] > t2[i]

NoTag == -1
Unset(count) == [i \in 0 .. count - 1 |-> NoTag]
SetTags(tags, which, pos) == [i \in DOMAIN tags |-> IF i \in which THEN pos ELSE tags[i]]

NoMatch == [eo |-> -1, tags |-> <<>>]
Match(eo, tags) == [eo |-> eo, tags |-> tags]

-------------------------------------------------------------------------------
(***************************************************************************)
(* tre_tnfa_run_parallel(): reach has the states that are reached at a     *)
(* place, each once, with the tags of the path that won.                   *)
(***************************************************************************)
Reached(reach, state) == {i \in DOMAIN reach : reach[i].state = state}

\* While nothing has matched a path starts at every place.
Started(m, text, flags, count, pos, st) ==
    FoldLeft(LAMBDA acc, t :
               LET tags == SetTags(Unset(count), t.tags, pos)
               IN  IF \/ Reached(acc.reach, t.position) # {}
                      \/ Blocked(t, Before(text, pos), CodeAt(text, pos), pos, flags) THEN acc
                   ELSE [reach |-> Append(acc.reach, [state |-> t.position, tags |-> tags]),
                         best |-> IF t.position = m.final THEN Match(pos, tags) ELSE acc.best],
             st, m.initial)

\* Whether a second path to a state replaces the one that is there.
Replaces(m, tags, other) == Wins(m.dirs, tags, other)

\* A transition taken, to a state that is new or reached before.
Arrived(m, pos, st, t, from) ==
    LET tags  == SetTags(from, t.tags, pos)
        there == Reached(st.reach, t.to)
        i     == CHOOSE j \in there : TRUE
        final == t.to = m.final
    IN  CASE there = {} ->
               [reach |-> Append(st.reach, [state |-> t.to, tags |-> tags]),
                best |-> IF final /\ \/ st.best = NoMatch
                                     \/ DOMAIN tags # {} /\ tags[0] <= st.best.tags[0]
                           THEN Match(pos, tags) ELSE st.best]
          [] there # {} /\ Replaces(m, tags, st.reach[i].tags) ->
               [reach |-> [st.reach EXCEPT ![i].tags = tags], best |-> IF final THEN Match(pos, tags) ELSE st.best]
          [] OTHER -> st

RECURSIVE RunParallel(_, _, _, _, _, _)
RunParallel(m, text, flags, count, pos, st) ==
    LET s     == IF st.best = NoMatch THEN Started(m, text, flags, count, pos, st) ELSE st
        found == st.best # NoMatch /\ (count = 0 \/ st.reach = <<>>)
        char  == CodeAt(text, pos)
        ready(t) == Reads(t, char, flags) /\ ~Blocked(t, char, CodeAt(text, pos + 1), pos + 1, flags)
        step(acc, r) == FoldLeft(LAMBDA a, t : Arrived(m, pos + 1, a, t, r.tags), acc,
                                 SelectSeq(m.trans[r.state], ready))
    IN  IF found \/ pos = Len(text) THEN s.best
        ELSE RunParallel(m, text, flags, count, pos + 1,
                         FoldLeft(step, [reach |-> <<>>, best |-> s.best], s.reach))

-------------------------------------------------------------------------------
(***************************************************************************)
(* tre_fill_pmatch(): from tags to places.  A group that is not within     *)
(* the groups around it is none of this match.                             *)
(***************************************************************************)
NoSpan == <<-1, -1>>

Within(span, outer) == ~(span[1] < outer[1] \/ span[2] > outer[2])

Spans(m, tags, eo) ==
    LET tag(i)  == IF i = m.tags THEN eo ELSE tags[i]
        span(d) == IF NoTag \in {tag(d.so), tag(d.eo)} THEN NoSpan ELSE <<tag(d.so), tag(d.eo)>>
        filled[id \in DOMAIN m.data] ==
            IF \A p \in m.data[id].parents : Within(span(m.data[id]), filled[p]) THEN span(m.data[id]) ELSE NoSpan
    IN  filled

-------------------------------------------------------------------------------
(***************************************************************************)
(* tre_tnfa_run_backtrack(): b is one path, with a stack of those that     *)
(* are still to be tried, the back references seen to match nothing, and   *)
(* the best match so far.                                                  *)
(***************************************************************************)
NoState == -1
IsBackref(m, state) == m.trans[state] # <<>> /\ m.trans[state][1].backref # NoBackref

\* The first of some ways on is taken and the others are pushed.
Branch(b, ways, pos) ==
    LET item(w) == [pos |-> pos, state |-> w.state, tags |-> SetTags(b.tags, w.tags, pos)]
    IN  IF ways = <<>> THEN [b EXCEPT !.state = NoState, !.pos = pos]
        ELSE [b EXCEPT !.state = ways[1].state, !.pos = pos, !.tags = SetTags(b.tags, ways[1].tags, pos),
                       !.stack = @ \o [i \in 1 .. Len(ways) - 1 |-> item(ways[i + 1])]]

\* All ways from a place, with the character that was read last.
WaysOn(m, text, flags, state, prev, pos) ==
    LET ready(t) == Reads(t, prev, flags) /\ ~Blocked(t, prev, CodeAt(text, pos), pos, flags)
        ts       == SelectSeq(m.trans[state], ready)
    IN  [i \in DOMAIN ts |-> [state |-> ts[i].to, tags |-> ts[i].tags]]

StartAt(m, text, flags, pos, best) ==
    LET ready(t) == ~Blocked(t, Before(text, pos), CodeAt(text, pos), pos, flags)
        ts       == SelectSeq(m.initial, ready)
    IN  Branch([state |-> NoState, pos |-> pos, tags |-> Unset(m.tags), stack |-> <<>>, seen |-> {},
                best |-> best, start |-> pos],
               [i \in DOMAIN ts |-> [state |-> ts[i].position, tags |-> ts[i].tags]], pos)

\* The path has come to the final state.
Finished(m, b, wanted) ==
    LET better == b.best.eo < b.pos \/ (b.best.eo = b.pos /\ wanted /\ Wins(m.dirs, b.tags, b.best.tags))
    IN  [b EXCEPT !.state = NoState, !.best = IF better THEN Match(b.pos, b.tags) ELSE @]

\* A back reference: the text of its group again.  What is taken to be in front
\* of the next character is the first of it.  A group that ends before it begins
\* makes strncmp() compare all the text that is left.
Referred(m, text, flags, b) ==
    LET first == m.trans[b.state][1]
        span  == Spans(m, b.tags, b.pos)[first.backref]
        len   == span[2] - span[1]
        same  == IF len < 0 THEN span[1] = b.pos
                 ELSE b.pos + len <= Len(text) /\ \A i \in 1 .. len : text[span[1] + i] = text[b.pos + i]
        seen  == IF len = 0 THEN b.seen \cup {first.to} ELSE b.seen \ {first.to}
    IN  IF ~same \/ (len = 0 /\ first.to \in b.seen) THEN [b EXCEPT !.state = NoState]
        ELSE Branch([b EXCEPT !.seen = seen],
                    WaysOn(m, text, flags, b.state, CodeAt(text, b.pos), b.pos + len), b.pos + len)

Stepped(m, text, flags, b) ==
    IF b.pos = Len(text) THEN [b EXCEPT !.state = NoState]
    ELSE Branch(b, WaysOn(m, text, flags, b.state, CodeAt(text, b.pos), b.pos + 1), b.pos + 1)

Popped(m, b) ==
    LET item == Last(b.stack)
    IN  [b EXCEPT !.state = item.state, !.pos = item.pos, !.tags = item.tags, !.stack = Front(@),
                  !.seen = IF IsBackref(m, item.state) THEN @ \ {item.state} ELSE @]

\* The end of the text, where the path that failed last has come to.
GivesUp(text, b) == b.pos = Len(text)

RECURSIVE RunBacktrack(_, _, _, _, _)
RunBacktrack(m, text, flags, wanted, b) ==
    LET go(next) == RunBacktrack(m, text, flags, wanted, next)
        stuck    == b.state = NoState
    IN  CASE ~stuck /\ b.state = m.final -> go(Finished(m, b, wanted))
          [] ~stuck /\ b.state # m.final /\ IsBackref(m, b.state) ->
               go(Referred(m, text, flags, b))
          [] ~stuck /\ b.state # m.final /\ ~IsBackref(m, b.state) -> go(Stepped(m, text, flags, b))
          [] stuck /\ b.stack # <<>> -> go(Popped(m, b))
          [] stuck /\ b.stack = <<>> ->
               IF b.best # NoMatch \/ GivesUp(text, b) THEN b.best
               ELSE go(StartAt(m, text, flags, b.start + 1, b.best))

-------------------------------------------------------------------------------
(***************************************************************************)
(* regexec()                                                               *)
(***************************************************************************)
Search(m, text, flags, wanted) ==
    IF m.backrefs
      THEN RunBacktrack(m, text, flags, wanted, StartAt(m, text, flags, 0, NoMatch))
      ELSE RunParallel(m, text, flags, IF wanted THEN m.tags ELSE 0, 0, [reach |-> <<>>, best |-> NoMatch])

Places(m, count, spans) == [i \in 1 .. count |-> IF i <= m.groups THEN spans[i - 1] ELSE NoSpan]

Reported(m, count, best) ==
    IF best = NoMatch THEN [status |-> "REG_NOMATCH", pmatch |-> <<>>]
    ELSE [status |-> "REG_OK", pmatch |-> Places(m, count, Spans(m, best.tags, best.eo))]

Regexec(m, text, nmatch, eflags) ==
    LET count == IF "NOSUB" \in m.flags THEN 0 ELSE nmatch
    IN  Reported(m, count, Search(m, text, m.flags \cup eflags, m.tags > 0 /\ count > 0))
===============================================================================
