------------------------------- MODULE Strings -------------------------------
(***************************************************************************)
(* The memory and string functions of string.c, stringc.c and strings.c.   *)
(* Memory is a function from addresses to bytes; a string is the sequence  *)
(* of its bytes with the terminator NUL at its end.  Words have 4 bytes.   *)
(***************************************************************************)
EXTENDS Integers, Sequences, SequencesExt, FiniteSetsExt

NUL == 0
NotFound == -1

-------------------------------------------------------------------------------
(***************************************************************************)
(* Copying.  A copy is a sequence of moves, each of a byte or of a word    *)
(* that is read whole before it is written.                                *)
(***************************************************************************)

Ones(n) == [i \in 1 .. n |-> 1]
Fours(n) == [i \in 1 .. n |-> 4]

\* The bytes before the next word, ...
ToWord(a) == (-a) % 4

\* ... and n bytes as single ones up to it, words, and single ones again.
Pieces(lead, n) == Ones(lead) \o Fours((n - lead) \div 4) \o Ones((n - lead) % 4)

Move(mem, d, s, width) ==
    [a \in DOMAIN mem |-> IF a - d \in 0 .. width - 1 THEN mem[a - d + s] ELSE mem[a]]

\* The moves of the given widths, from the lowest address up or the highest down.
RECURSIVE Ascending(_, _, _, _)
Ascending(mem, d, s, widths) ==
    IF widths = <<>> THEN mem
    ELSE Ascending(Move(mem, d, s, widths[1]), d + widths[1], s + widths[1], Tail(widths))

RECURSIVE Descending(_, _, _, _)
Descending(mem, dEnd, sEnd, widths) ==
    IF widths = <<>> THEN mem
    ELSE Descending(Move(mem, dEnd - widths[1], sEnd - widths[1], widths[1]),
                    dEnd - widths[1], sEnd - widths[1], Tail(widths))

CoAligned(d, s) == (d - s) % 4 = 0

\* The bytes at some places, in their order.
MoveEach(mem, d, s, places) == FoldLeft(LAMBDA m, i : Move(m, d + i, s + i, 1), mem, places)

\* Fault: the trailing byte loop runs behind the three copies.
CopyFewAgain(mem, d, s, n) ==
    Ascending(MoveEach(mem, d, s, IF n < 2 THEN <<0>> ELSE <<0, n - 2, n - 1>>), d, s, Ones(n))

\* Up to three bytes: the first, the one before the last, and the last.
CopyFew(mem, d, s, n) ==
    MoveEach(mem, d, s, CASE n = 0 -> <<>> [] n = 1 -> <<0>> [] n > 1 -> <<0, n - 2, n - 1>>)

\* memcpy() aligns the destination, co-aligned or not.
Memcpy(mem, d, s, n) ==
    IF n >= 4 THEN Ascending(mem, d, s, Pieces(ToWord(d), n)) ELSE CopyFew(mem, d, s, n)

CopyDown(mem, d, s, n) ==
    Descending(mem, d + n, s + n,
               IF n >= 8 /\ CoAligned(d, s) THEN Pieces((d + n) % 4, n) ELSE Ones(n))

Memmove(mem, d, s, n) ==
    CASE d = s \/ n = 0 -> mem
      [] d < s /\ n # 0 -> Memcpy(mem, d, s, n)
      [] d > s /\ n # 0 -> CopyDown(mem, d, s, n)

\* memset() fills blocks of 32, 16, 4 and 1 words behind the first ones up to a
\* word, with the byte in each place of a word, and what is left byte by byte.
Blocks(n) ==
    LET of(count, size) == [i \in 1 .. count |-> size]
    IN  of(n \div 128, 128) \o of((n % 128) \div 64, 64) \o of((n % 64) \div 16, 16) \o Fours((n % 16) \div 4)
          \o Ones(n % 4)

Fill(mem, p, b, width) == [a \in DOMAIN mem |-> IF a - p \in 0 .. width - 1 THEN b ELSE mem[a]]
RECURSIVE Filled(_, _, _, _)
Filled(mem, p, b, widths) ==
    IF widths = <<>> THEN mem ELSE Filled(Fill(mem, p, b, widths[1]), p + widths[1], b, Tail(widths))

Memset(mem, p, value, n) ==
    Filled(mem, p, value % 256, IF n >= 8 THEN Ones(ToWord(p)) \o Blocks(n - ToWord(p)) ELSE Ones(n))

\* The names the ARM compiler calls: memset's has its arguments the other way round.
AeabiMemset(mem, dest, n, c) == Memset(mem, dest, c, n)
AeabiMemclr(mem, dest, n) == Memset(mem, dest, NUL, n)

-------------------------------------------------------------------------------
(***************************************************************************)
(* Searching.  A byte has ByteBits bits, here two.                         *)
(***************************************************************************)
ByteBits == 2
Byte == 2 ^ ByteBits
WordOf(bytes) == FoldLeft(LAMBDA acc, b : acc * Byte + b, 0, Reverse(bytes))
ByteOf(word, i) == (word \div Byte ^ i) % Byte
TopBit(byte) == byte \div (Byte \div 2) = 1

Xor(x, y) ==
    LET bit(n, i) == (n \div 2 ^ i) % 2
    IN  SumSet({IF bit(x, i) # bit(y, i) THEN 2 ^ i ELSE 0 : i \in 0 .. ByteBits - 1})

\* HASZERO(x): (x - LONG01) & ~x & LONG80.
HasZero(x) ==
    LET y == (x - WordOf(Ones(4))) % Byte ^ 4
    IN  \E i \in 0 .. 3 : TopBit(ByteOf(y, i)) /\ ~TopBit(ByteOf(x, i))

WordHas(mem, s, c) == HasZero(WordOf([i \in 1 .. 4 |-> Xor(mem[s + i - 1], c)]))

RECURSIVE ByBytes(_, _, _, _)
ByBytes(mem, s, c, n) ==
    IF n = 0 THEN NotFound ELSE IF mem[s] = c THEN s ELSE ByBytes(mem, s + 1, c, n - 1)

RECURSIVE ByWords(_, _, _, _)
ByWords(mem, s, c, n) ==
    IF n >= 4 /\ ~WordHas(mem, s, c) THEN ByWords(mem, s + 4, c, n - 4) ELSE ByBytes(mem, s, c, n)

\* memchr(): bytes up to a word, words, bytes.
Memchr(mem, s, c, n) ==
    LET lead == Min({ToWord(s), n})
        at   == ByBytes(mem, s, c, lead)
    IN  IF at # NotFound THEN at ELSE ByWords(mem, s + lead, c, n - lead)

-------------------------------------------------------------------------------
(***************************************************************************)
(* Strings, and places in them from 0 on.                                  *)
(***************************************************************************)
ByteAt(str, i) == str[i + 1]

\* Three characters: a letter, its capital and the slash; "." is apart.
Letter == 1
Capital == 2
Slash == 3
Dot == <<4, NUL>>
ToLower(c) == IF c = Capital THEN Letter ELSE c

\* The first terminator from a place on.
EndFrom(str, from) == Min({i \in from .. Len(str) - 1 : ByteAt(str, i) = NUL})
Strlen(str) == EndFrom(str, 0)
Strnlen(str, n) == IF \E i \in 0 .. n - 1 : i < Len(str) /\ ByteAt(str, i) = NUL
                     THEN Strlen(str) ELSE n

\* strchr() finds the terminator too.
Strchr(str, from, c) ==
    LET places == {i \in from .. EndFrom(str, from) : ByteAt(str, i) = c}
    IN  IF places = {} THEN NotFound ELSE Min(places)

\* The difference at the first place that is not the same; memcmp() looks at n
\* bytes, strcmp() stops behind a NUL.
Memcmp(a, from, b, n) ==
    LET differs == {i \in 0 .. n - 1 : ByteAt(a, from + i) # ByteAt(b, i)}
    IN  IF differs = {} THEN 0 ELSE ByteAt(a, from + Min(differs)) - ByteAt(b, Min(differs))

Strcmp(a, b) ==
    LET i == Min({Strlen(a), Strlen(b)} \cup
                 {j \in 0 .. Min({Strlen(a), Strlen(b)}) : ByteAt(a, j) # ByteAt(b, j)})
    IN  ByteAt(a, i) - ByteAt(b, i)

Strncmp(a, b, n) ==
    LET i == Min({n, Strlen(a), Strlen(b)} \cup
                 {j \in 0 .. Min({Strlen(a), Strlen(b)}) : ByteAt(a, j) # ByteAt(b, j)})
    IN  IF i = n THEN 0 ELSE ByteAt(a, i) - ByteAt(b, i)

\* How far from a place on a string has only characters of a set, or none.
Strspn(str, from, set) ==
    Min({i \in from .. EndFrom(str, from) : ByteAt(str, i) = NUL \/ Strchr(set, 0, ByteAt(str, i)) = NotFound}) - from
Strcspn(str, from, set) ==
    Min({i \in from .. EndFrom(str, from) : ByteAt(str, i) = NUL \/ Strchr(set, 0, ByteAt(str, i)) # NotFound}) - from

\* strstr(), which goes from one place of the first character to the next; in
\* an empty string it would look for the next one behind the terminator.
RECURSIVE FromFirst(_, _, _)
FromFirst(s, from, r) ==
    CASE from = NotFound -> NotFound
      [] from # NotFound /\ Memcmp(s \o Ones(Len(r)), from, r, Strlen(r)) = 0 -> from
      [] OTHER -> FromFirst(s, Strchr(s, from + 1, ByteAt(r, 0)), r)

Strstr(s, r) == IF Strlen(r) = 0 THEN 0 ELSE FromFirst(s, 0, r)

\* strncpy() as the n bytes it leaves, strncat() as the string.
Strncpy(s, n) == LET len == Min({Strlen(s), n}) IN SubSeq(s, 1, len) \o [i \in 1 .. n - len |-> NUL]
Strncat(d, s, n) == SubSeq(d, 1, Strlen(d)) \o SubSeq(s, 1, Strnlen(s, n)) \o <<NUL>>

\* strcasecmp() and strncasecmp(), which calls two strings equal when either ends.
LowerSign(a, b, i) == ToLower(ByteAt(a, i)) - ToLower(ByteAt(b, i))
FirstApart(a, b) == {i \in 0 .. Min({Strlen(a), Strlen(b)}) : LowerSign(a, b, i) # 0}
Strcasecmp(a, b) == IF FirstApart(a, b) = {} THEN 0 ELSE LowerSign(a, b, Min(FirstApart(a, b)))
Strncasecmp(a, b, n) ==
    LET apart == {i \in FirstApart(a, b) : i < Min({n, Strlen(a), Strlen(b)})}
    IN  IF apart = {} THEN 0 ELSE LowerSign(a, b, Min(apart))

\* strrchr() (which never finds the terminator) and strpbrk().
Strrchr(str, c) ==
    LET places == {i \in 0 .. Strlen(str) - 1 : ByteAt(str, i) = c}
    IN  IF places = {} THEN NotFound ELSE Max(places)
Strpbrk(str, set) ==
    LET i == Strcspn(str, 0, set) IN IF ByteAt(str, i) = NUL THEN NotFound ELSE i

\* dirname(): back over the characters that are, or are not, slashes; the first
\* is never left.  Dot is the string ".".
BackOver(path, i, slashes) ==
    LET stops == {j \in 1 .. i : (ByteAt(path, j) = Slash) # slashes}
    IN  IF stops = {} THEN 0 ELSE Max(stops)

Dirname(path) ==
    LET last   == BackOver(path, Strlen(path) - 1, TRUE)
        before == BackOver(path, last, FALSE)
        parent == BackOver(path, before, TRUE)
    IN  IF Strlen(path) = 0 \/ ByteAt(path, before) # Slash THEN Dot
        ELSE SubSeq(path, 1, parent + 1) \o <<NUL>>

\* strtok_r(): the place saved for the next call, NotFound for none.
AfterToken(str, end) == IF ByteAt(str, end) # NUL THEN end + 1 ELSE end

StrtokR(str, saved, delimiters) ==
    IF saved = NotFound THEN [token |-> NotFound, str |-> str, saved |-> NotFound]
    ELSE LET start == saved + Strspn(str, saved, delimiters)
             end   == start + Strcspn(str, start, delimiters)
         IN  IF ByteAt(str, start) = NUL
               THEN [token |-> NotFound, str |-> str, saved |-> NotFound]
               ELSE [token |-> start, str |-> [str EXCEPT ![end + 1] = NUL],
                     saved |-> AfterToken(str, end)]

-------------------------------------------------------------------------------
(***************************************************************************)
(* What they promise.                                                      *)
(***************************************************************************)

\* memmove copies as if through a buffer, however source and destination
\* overlap and whatever their alignment, and touches nothing else; so does
\* memcpy when they do not overlap, or the destination is the lower one, which
\* memmove relies on.  memset writes the low byte of its value to every byte of
\* its range, in blocks of four sizes, and to no other.
MovesRight(d, s, n, mem) ==
    LET want == [a \in DOMAIN mem |-> IF a - d \in 0 .. n - 1 THEN mem[a - d + s] ELSE mem[a]]
    IN  /\ Memmove(mem, d, s, n) = want
        /\ d <= s \/ d >= s + n => Memcpy(mem, d, s, n) = want
        /\ AeabiMemset(mem, d, n, mem[s] + 256) = [a \in DOMAIN mem |-> IF a - d \in 0 .. n - 1 THEN mem[s] ELSE mem[a]]
        /\ AeabiMemclr(mem, d, n) = [a \in DOMAIN mem |-> IF a - d \in 0 .. n - 1 THEN NUL ELSE mem[a]]

\* memchr by words finds the first place, at any alignment, and looks at no
\* byte behind the n it was given.
FindsRight(mem, s, c, n) ==
    LET places == {a \in s .. s + n - 1 : mem[a] = c}
    IN  Memchr(mem, s, c, n) = IF places = {} THEN NotFound ELSE Min(places)

\* The tokens a sequence of calls finds, each with the delimiters of its turn.
RECURSIVE Tokens(_, _, _)
Tokens(str, saved, sets) ==
    IF sets = <<>> THEN <<>>
    ELSE LET r == StrtokR(str, saved, sets[1])
         IN  IF r.token = NotFound THEN <<>>
             ELSE <<SubSeq(r.str, r.token + 1, r.token + Strlen(SubSeq(r.str, r.token + 1, Len(r.str))))>>
                    \o Tokens(r.str, r.saved, Tail(sets))

\* The same by definition: a token is the next run free of delimiters, and one
\* character behind it is used up.
RECURSIVE Runs(_, _)
Runs(text, sets) ==
    IF sets = <<>> THEN <<>>
    ELSE LET free  == {i \in DOMAIN text : \A j \in DOMAIN sets[1] : text[i] # sets[1][j]}
             first == Min(free)
             last  == Max({i \in free : first .. i \subseteq free})
         IN  IF free = {} THEN <<>>
             ELSE <<SubSeq(text, first, last)>> \o Runs(SubSeq(text, last + 2, Len(text)), Tail(sets))

Text(str) == SubSeq(str, 1, Strlen(str))

\* The parent of a path: what stands before its last component and the slashes
\* that part them; the root's is the root.
Parent(path) ==
    LET components == {i \in DOMAIN path : path[i] # Slash}
        last       == Max(components)
        first      == Min({i \in components : i .. last \subseteq components})
        above      == {i \in components : i < first}
    IN  CASE path = <<>> -> Text(Dot)
          [] path # <<>> /\ components = {} -> <<Slash>>
          [] components # {} /\ above = {} -> IF first = 1 THEN Text(Dot) ELSE <<Slash>>
          [] components # {} /\ above # {} -> SubSeq(path, 1, Max(above))
Sign(n) == IF n < 0 THEN -1 ELSE IF n > 0 THEN 1 ELSE 0

\* strcmp orders strings as their bytes do, strncmp their first n, and memcmp
\* agrees with both; strstr finds the first place where the other string
\* stands; strncpy and strncat stay within n; strcasecmp is equality but for
\* case; dirname is the parent; strtok_r, called again with other delimiters,
\* finds each run between them once.
StringsRight(a, b, n) ==
    LET shorter(s) == SubSeq(Text(s), 1, Min({n, Strlen(s)})) \o <<NUL>>
        places     == {i \in 0 .. Strlen(a) - Strlen(b) : SubSeq(a, i + 1, i + Strlen(b)) = Text(b)}
        order(s, t) == CHOOSE r \in {-1, 0, 1} :
            LET i == Min({j \in 1 .. Min({Len(s), Len(t)}) : s[j] # t[j]} \cup {Min({Len(s), Len(t)})})
            IN  r = Sign(s[i] - t[i])
    IN  /\ Sign(Strcmp(a, b)) = order(a, b) /\ (Strcmp(a, b) = 0 <=> a = b)
        /\ Sign(Strncmp(a, b, n)) = order(shorter(a), shorter(b))
        /\ n <= Min({Strlen(a), Strlen(b)}) => Sign(Memcmp(a, 0, b, n)) = Sign(Strncmp(a, b, n))
        /\ Text(a) # <<>> => Strstr(a, b) = IF places = {} THEN NotFound ELSE Min(places)
        /\ Len(Strncpy(a, n)) = n /\ (n > Strlen(a) => Text(Strncpy(a, n)) = Text(a))
        /\ Text(Strncat(a, b, n)) = Text(a) \o Text(shorter(b))
        /\ (Strcasecmp(a, b) = 0) = ([i \in DOMAIN a |-> ToLower(a[i])] = [i \in DOMAIN b |-> ToLower(b[i])])
        /\ n <= Min({Strlen(a), Strlen(b)}) =>
             Strncasecmp(a, b, n) = Strcasecmp(shorter(a), shorter(b))
        /\ \A c \in ToSet(Text(b)) : Strrchr(a, c) # NotFound <=> Strchr(a, 0, c) # NotFound
        /\ (Strpbrk(a, b) = NotFound) = (ToSet(Text(a)) \cap ToSet(Text(b)) = {})
        /\ Text(Dirname(a)) = Parent(Text(a))
        /\ \A sets \in {<<b, b, b>>, <<b, <<NUL>>, b>>, <<<<1, NUL>>, b, b>>} :
              Tokens(a, 0, sets) = Runs(Text(a), [i \in 1 .. 3 |-> Text(sets[i])])
===============================================================================
