------------------------------- MODULE Regcomp -------------------------------
(***************************************************************************)
(* From the tree of a regular expression to its automaton, of regcomp.c:   *)
(* tags that remember where groups begin and end, copies for bounded       *)
(* repetitions, and a state for each position a character is read at.      *)
(***************************************************************************)
EXTENDS Regparse, TLC

IsPosition(node) == node.kind \in {"CHAR", "BACKREF"}
IsLeaf(node) == node.kind \notin {"CATENATION", "UNION", "ITERATION"}

-------------------------------------------------------------------------------
(***************************************************************************)
(* tre_add_tags(), the first time: how many tags each node has.  Groups    *)
(* are pending that have begun or ended since the last tag.                *)
(***************************************************************************)
RECURSIVE Counted(_, _)
Counted(node, before) ==
    LET pending == before \/ node.sub # NoGroup
        own     == IF pending THEN 1 ELSE 0
        first   == IF node.kind = "ITERATION" THEN Counted(node.arg, FALSE)
                   ELSE Counted(node.left, IF node.kind = "UNION" THEN FALSE ELSE pending)
        second  == Counted(node.right, IF node.kind = "UNION" THEN FALSE ELSE first.pending)
        result(n, tags, after) == [node |-> [n EXCEPT !.tags = tags],
                                   pending |-> after \/ node.sub # NoGroup]
    IN  CASE IsPosition(node) -> result(node, own, FALSE)
          [] IsLeaf(node) /\ ~IsPosition(node) -> result(node, 0, pending)
          [] node.kind = "CATENATION" ->
               result([node EXCEPT !.left = first.node, !.right = second.node],
                      first.node.tags + second.node.tags, second.pending)
          [] node.kind = "ITERATION" ->
               result([node EXCEPT !.arg = first.node], first.node.tags + own, first.pending)
          [] node.kind = "UNION" ->
               result([node EXCEPT !.left = first.node, !.right = second.node],
                      first.node.tags + second.node.tags + own + (IF node.subs > 0 THEN 2 ELSE 0),
                      first.pending \/ second.pending)

(***************************************************************************)
(* And the second time: the tags' places.  st has the next tags, the       *)
(* regset of pending starts and ends, the groups around, and what the      *)
(* automaton is told: each tag's direction and each group's two tags.      *)
(***************************************************************************)
Start(id) == <<id, "so">>
End(id) == <<id, "eo">>

\* tre_purge_regset()
Purge(st, tag) ==
    [st EXCEPT !.regset = <<>>,
               !.data = [id \in DOMAIN @ |->
                           [@[id] EXCEPT !.so = IF Start(id) \in ToSet(st.regset) THEN tag ELSE @,
                                         !.eo = IF End(id) \in ToSet(st.regset) THEN tag ELSE @]]]

\* A tag for what is pending, and the node with it on its left.
Take(st) == [Purge(st, st.tag) EXCEPT !.dirs = @ @@ (st.tag :> st.direction), !.tag = st.next, !.next = @ + 1]
TagLeft(node, tag) == [Pair("CATENATION", TagLeaf(tag), [node EXCEPT !.sub = NoGroup]) EXCEPT !.sub = node.sub]
TagRight(node, tag) == [Pair("CATENATION", [node EXCEPT !.sub = NoGroup], TagLeaf(tag)) EXCEPT !.sub = node.sub]
Outcome(node, st) == [node |-> node, st |-> st]

\* Whether a catenation keeps its next tag for its right side.
Reserves(node) == node.left.tags > 0 /\ node.right.tags > 0

RECURSIVE Tagged(_, _)

TaggedCatenation(node, st) ==
    LET left  == Tagged(node.left, IF Reserves(node) THEN [st EXCEPT !.next = @ + 1] ELSE st)
        right == Tagged(node.right,
                        [left.st EXCEPT !.next = st.next + node.left.tags,
                                        !.tag = IF Reserves(node) THEN st.next ELSE @])
    IN  Outcome([node EXCEPT !.left = left.node, !.right = right.node], right.st)

TaggedIteration(node, st) ==
    LET pending == st.regset # <<>>
        entered == [(IF pending THEN Take(st) ELSE st) EXCEPT !.direction = "MINIMIZE"]
        arg     == Tagged(node.arg, entered)
        n       == [node EXCEPT !.arg = arg.node]
    IN  Outcome(IF pending THEN TagLeft(n, st.tag) ELSE n, [arg.st EXCEPT !.direction = "MAXIMIZE"])

\* A union with groups in it has a tag behind each of its sides.
TaggedUnion(node, st) ==
    LET pending == st.regset # <<>>
        taken   == IF pending THEN Take(st) ELSE st
        marks   == node.subs > 0
        entered == IF marks THEN [taken EXCEPT !.tag = taken.next + 1, !.next = @ + 2] ELSE taken
        left    == Tagged(node.left, entered)
        right   == Tagged(node.right, [left.st EXCEPT !.regset = <<>>])
        n       == [node EXCEPT !.left = IF marks THEN TagRight(left.node, taken.tag) ELSE left.node,
                                !.right = IF marks THEN TagRight(right.node, taken.next) ELSE right.node]
    IN  Outcome(IF pending THEN TagLeft(n, st.tag) ELSE n,
                [right.st EXCEPT !.regset = left.st.regset \o @, !.direction = "MAXIMIZE",
                                 !.dirs = IF marks THEN (taken.tag :> "MAXIMIZE") @@ (taken.next :> "MAXIMIZE") @@ @
                                          ELSE @])

\* A node that is a group: pending from here, and its end behind it.
Enter(node, st) ==
    IF node.sub = NoGroup THEN st
    ELSE [st EXCEPT !.regset = Append(@, Start(node.sub)), !.parents = @ \cup {node.sub},
                    !.data[node.sub].parents = st.parents]
Leave(node, st) ==
    IF node.sub = NoGroup THEN st
    ELSE [st EXCEPT !.regset = Append(@, End(node.sub)), !.parents = @ \ {node.sub}]

Tagged(node, st) ==
    LET s == Enter(node, st)
        r == CASE IsPosition(node) /\ s.regset # <<>> -> Outcome(TagLeft(node, s.tag), Take(s))
               [] IsLeaf(node) /\ ~(IsPosition(node) /\ s.regset # <<>>) -> Outcome(node, s)
               [] node.kind = "CATENATION" -> TaggedCatenation(node, s)
               [] node.kind = "ITERATION" -> TaggedIteration(node, s)
               [] node.kind = "UNION" -> TaggedUnion(node, s)
    IN  Outcome(r.node, Leave(node, r.st))

\* Groups that no node is left of keep the zeros they were allocated with.
NoTags(groups) ==
    [tag |-> 0, next |-> 1, direction |-> "MINIMIZE", regset |-> <<>>, parents |-> {}, dirs |-> <<>>,
     data |-> [id \in 0 .. groups - 1 |-> [so |-> 0, eo |-> 0, parents |-> {}]]]

AddTags(tree, groups) ==
    LET r == Tagged(Counted(tree, FALSE).node, NoTags(groups))
    IN  Outcome(r.node, Purge(r.st, r.st.tag))

-------------------------------------------------------------------------------
(***************************************************************************)
(* tre_expand_ast(): bounded repetitions become copies.                    *)
(***************************************************************************)
RECURSIVE Leaves(_), Copied(_, _, _), Expanded(_, _)
Leaves(node) ==
    CASE IsLeaf(node) -> <<node>>
      [] node.kind = "ITERATION" -> Leaves(node.arg)
      [] OTHER -> Leaves(node.left) \o Leaves(node.right)

Positions(node) == SelectSeq(Leaves(node), IsPosition)
TagsIn(node) == SelectSeq(Leaves(node), LAMBDA n : n.kind = "TAG")

\* tre_copy_ast(), its positions moved up by add.
Copied(node, add, untagged) ==
    CASE IsPosition(node) -> [node EXCEPT !.position = @ + add]
      [] node.kind = "TAG" /\ untagged -> Empty
      [] IsLeaf(node) /\ ~IsPosition(node) /\ ~(node.kind = "TAG" /\ untagged) -> node
      [] node.kind = "ITERATION" -> [node EXCEPT !.arg = Copied(@, add, untagged)]
      [] OTHER -> [node EXCEPT !.left = Copied(@, add, untagged), !.right = Copied(@, add, untagged)]

\* The copies of an argument, count positions apart: as many as there have to
\* be, of which only the last has tags, and as many as there may be.
RECURSIVE Optional(_)
Optional(copies) ==
    Union(Empty, IF Len(copies) = 1 THEN copies[1] ELSE Catenation(Last(copies), Optional(Front(copies))))

Unrolled(node, arg, add, count) ==
    LET copy(j, untagged) == Copied(arg, add + j * count, untagged)
        needed  == FoldLeft(LAMBDA acc, j : Catenation(acc, copy(j - 1, j < node.min)), NoNode,
                            [j \in 1 .. node.min |-> j])
        further == CASE node.max = -1 -> Iteration(copy(node.min, FALSE), 0, -1)
                     [] node.max > node.min ->
                          Optional([j \in 1 .. node.max - node.min |-> copy(node.min + j - 1, FALSE)])
                     [] OTHER -> NoNode
    IN  CASE further = NoNode -> needed
          [] further # NoNode -> Catenation(needed, further)

\* Fault: the next copy begins where the last one does.
FirstOnly(node) == 0

\* The copies there are before the last of them.
CopiesBeforeLast(node) == (IF node.max = -1 THEN node.min + 1 ELSE node.max) - 1

\* st: what positions are moved by, what they have been moved by in all, the
\* highest of them, how deep in iterations, and the directions.
Expanded(node, st) ==
    LET left    == Expanded(node.left, st)
        right   == Expanded(node.right, left.st)
        unrolls == node.min > 1 \/ node.max > 1
        arg     == Expanded(node.arg, [st EXCEPT !.add = IF unrolls THEN 0 ELSE @, !.depth = @ + 1])
        count   == Len(Positions(arg.node))
        n       == Unrolled(node, arg.node, st.add, count)
        moved   == IF unrolls THEN CopiesBeforeLast(node) * count ELSE 0
        first   == TagsIn(arg.node)
    IN  CASE IsPosition(node) ->
               Outcome([node EXCEPT !.position = @ + st.add],
                       [st EXCEPT !.highest = Max({@, node.position + st.add})])
          [] IsLeaf(node) /\ ~IsPosition(node) -> Outcome(node, st)
          [] node.kind \in {"CATENATION", "UNION"} ->
               Outcome([node EXCEPT !.left = left.node, !.right = right.node], right.st)
          [] node.kind = "ITERATION" ->
               Outcome(IF unrolls THEN n ELSE [node EXCEPT !.arg = arg.node],
                       [arg.st EXCEPT !.total = @ + moved, !.depth = @ - 1,
                                      !.add = IF st.depth = 0 THEN arg.st.total + moved ELSE st.add + moved,
                                      !.highest = IF unrolls THEN Max({@} \cup {x.position : x \in ToSet(Positions(n))})
                                                  ELSE @,
                                      !.dirs = IF unrolls /\ node.min > 0 /\ first # <<>>
                                                 THEN (first[1].of :> "MAXIMIZE") @@ @ ELSE @])

-------------------------------------------------------------------------------
(***************************************************************************)
(* tre_compute_nfl() and tre_ast_to_tnfa(), in one pass: whether a node is *)
(* nullable, the tags and assertions on its empty path, its first and last *)
(* positions with those met on the way to them, and its transitions.       *)
(***************************************************************************)
Place(position, range, backref) ==
    [position |-> position, range |-> range, backref |-> backref, tags |-> {}, assertions |-> {}]
AnyChar == Codepoints(0, CharMax)
NoBackref == -1

\* tre_set_union(): the tags and assertions are the first set's.
Through(places, path) ==
    [i \in DOMAIN places |-> [places[i] EXCEPT !.tags = @ \cup path.tags, !.assertions = @ \cup path.assertions]]
NoPath == [tags |-> {}, assertions |-> {}]
Both(p, r) == [tags |-> p.tags \cup r.tags, assertions |-> p.assertions \cup r.assertions]

\* tre_make_trans(): from each place to each; one that follows a place of the
\* same position is taken as seen.
MakeTrans(from, to) ==
    LET new == SelectSeq([j \in DOMAIN to |-> j], LAMBDA j : j = 1 \/ to[j - 1].position # to[j].position)
        trans(p, r) == [from |-> p.position, to |-> r.position, range |-> p.range, backref |-> p.backref,
                        tags |-> p.tags \cup r.tags, assertions |-> p.assertions \cup r.assertions]
    IN  FlattenSeq([i \in DOMAIN from |-> [j \in DOMAIN new |-> trans(from[i], to[new[j]])]])

Nfl(nullable, path, first, last, trans) ==
    [nullable |-> nullable, path |-> path, first |-> first, last |-> last, trans |-> trans]

NflLeaf(node) ==
    CASE node.kind = "CHAR" -> LET at == <<Place(node.position, node.of, NoBackref)>>
                               IN  Nfl(FALSE, NoPath, at, at, <<>>)
      [] node.kind = "BACKREF" -> Nfl(FALSE, NoPath, <<Place(node.position, AnyChar, NoBackref)>>,
                                      <<Place(node.position, AnyChar, node.of)>>, <<>>)
      [] node.kind = "TAG" -> Nfl(TRUE, [NoPath EXCEPT !.tags = {node.of}], <<>>, <<>>, <<>>)
      [] node.kind = "ASSERTION" -> Nfl(TRUE, [NoPath EXCEPT !.assertions = {node.of}], <<>>, <<>>, <<>>)
      [] node.kind = "EMPTY" -> Nfl(TRUE, NoPath, <<>>, <<>>, <<>>)

NflCatenation(l, r) ==
    Nfl(l.nullable /\ r.nullable, Both(l.path, r.path),
        IF l.nullable THEN Through(r.first, l.path) \o l.first ELSE l.first,
        IF r.nullable THEN Through(l.last, r.path) \o r.last ELSE r.last,
        MakeTrans(l.last, r.first) \o l.trans \o r.trans)

\* The empty path of a union is on its left, if it can be.
NflUnion(l, r) ==
    Nfl(l.nullable \/ r.nullable, IF l.nullable THEN l.path ELSE r.path,
        l.first \o r.first, l.last \o r.last, l.trans \o r.trans)

\* And of an iteration through its argument, if it can be.
NflIteration(node, a) ==
    Nfl(node.min = 0 \/ a.nullable, IF a.nullable THEN a.path ELSE NoPath, a.first, a.last,
        (IF node.max = -1 THEN MakeTrans(a.last, a.first) ELSE <<>>) \o a.trans)

RECURSIVE NflOf(_)
NflOf(node) ==
    CASE IsLeaf(node) -> NflLeaf(node)
      [] node.kind = "CATENATION" -> NflCatenation(NflOf(node.left), NflOf(node.right))
      [] node.kind = "UNION" -> NflUnion(NflOf(node.left), NflOf(node.right))
      [] node.kind = "ITERATION" -> NflIteration(node, NflOf(node.arg))

-------------------------------------------------------------------------------
(***************************************************************************)
(* regcomp(): the automaton, or the error.                                 *)
(***************************************************************************)
Tagging(q) == q.backref >= 0 \/ "NOSUB" \notin q.flags

Automaton(q, data, final, dirs, nfl) ==
    [err |-> "REG_OK", initial |-> nfl.first, final |-> final,
     trans |-> [p \in 0 .. final |-> SelectSeq(nfl.trans, LAMBDA t : t.from = p)],
     tags |-> IF Tagging(q) THEN Counted(q.n, FALSE).node.tags ELSE 0,
     dirs |-> dirs, data |-> data, groups |-> q.groups, backrefs |-> q.backref >= 0, flags |-> q.flags]

\* The last position is behind all others.
Ended(q, data, expanded, final) ==
    Automaton(q, data, final, expanded.st.dirs, NflOf(Catenation(expanded.node, Char(Codepoints(0, 0), final))))
Positioned(q, data, expanded) ==
    Ended(q, data, expanded, Max({q.position + expanded.st.total, expanded.st.highest}))
Expand(q, tagged) ==
    Positioned(q, tagged.st.data,
             Expanded(tagged.node, [add |-> 0, total |-> 0, highest |-> 0, depth |-> 0, dirs |-> tagged.st.dirs]))

Compile(q) ==
    CASE q.err # "REG_OK" -> [err |-> q.err]
      [] q.err = "REG_OK" /\ q.backref > q.groups - 1 -> [err |-> "REG_ESUBREG"]
      [] OTHER -> Expand(q, IF Tagging(q) THEN AddTags(q.n, q.groups) ELSE Outcome(q.n, NoTags(q.groups)))

Regcomp(p, flags) == Compile(Parse(p, flags))
===============================================================================
