------------------------------- MODULE Mounts -------------------------------
(***************************************************************************)
(* The mount table of mntent.c.  A file is the sequence of its characters; *)
(* an entry has four fields, which are texts, and two numbers.  TAB, NL    *)
(* and CR are one character each, and an escape has the digits of its      *)
(* character's code in base 8.                                             *)
(***************************************************************************)
EXTENDS Printing

CONSTANT LineSize            \* MNTENT_LINE_SIZE, 256 in the code

Blank == {" ", "TAB"}
Octal == {Digs[i] : i \in 1 .. 8}
CodeOf == << <<" ", <<"0", "4", "0">> >>, <<"TAB", <<"0", "1", "1">> >>, <<"NL", <<"0", "1", "2">> >>,
             <<"\\", <<"1", "3", "4">> >> >>

\* unescape_field(): a backslash and three octal digits are one character.
RECURSIVE Unescaped(_)
Unescaped(field) ==
    LET isEscape == /\ Len(field) >= 4 /\ field[1] = "\\" /\ {field[2], field[3], field[4]} \subseteq Octal
        codes    == {c \in ToSet(CodeOf) : c[2] = SubSeq(field, 2, 4)}
    IN  CASE field = <<>> -> <<>>
          [] field # <<>> /\ isEscape -> <<IF codes = {} THEN "?" ELSE (CHOOSE c \in codes : TRUE)[1]>>
                                          \o Unescaped(SubSeq(field, 5, Len(field)))
          [] field # <<>> /\ ~isEscape -> <<field[1]>> \o Unescaped(Tail(field))

\* The places from one on that are, or are not, in a set of characters.
EndOf(line, from, set) ==
    Min({i \in from .. Len(line) + 1 : i > Len(line) \/ line[i] \notin set})
StartOf(line, from, set) ==
    Min({i \in from .. Len(line) + 1 : i > Len(line) \/ line[i] \in set})

\* next_field() six times: the fields of a line, fewer if it ends before.
RECURSIVE Fields(_, _, _)
Fields(line, from, n) ==
    LET start == EndOf(line, from, Blank)
        end   == StartOf(line, start, Blank)
    IN  IF n = 0 \/ start > Len(line) THEN <<>>
        ELSE <<Unescaped(SubSeq(line, start, end - 1))>> \o Fields(line, Min({end, Len(line)}) + 1, n - 1)

\* parse_number() of the digits a text begins with.
ParseNumber(text) ==
    NumberOf(SubSeq(text, 1, EndOf(text, 1, {Digs[i] : i \in 1 .. 10}) - 1))

\* fgets() of the buffer: as far as a newline, or as it has room.
LineEnd(file) ==
    LET newlines == {i \in DOMAIN file : file[i] = "NL"}
    IN  Min({LineSize - 1, Len(file)} \cup newlines)

Chomped(line) == SubSeq(line, 1, Max({i \in 0 .. Len(line) : i = 0 \/ line[i] \notin {"NL", "CR"}}))

NoEntry == [fsname |-> <<>>]
Entry(f) ==
    LET field(i, default) == IF i <= Len(f) THEN f[i] ELSE default
    IN  [fsname |-> f[1], dir |-> f[2], type |-> field(3, <<"auto">>), opts |-> field(4, <<"defaults">>),
         freq |-> ParseNumber(field(5, <<>>)), passno |-> ParseNumber(field(6, <<>>))]

\* getmntent(): the first line that has an entry; [entry, rest].
RECURSIVE Getmntent(_)
Getmntent(file) ==
    LET line   == Chomped(SubSeq(file, 1, LineEnd(file)))
        rest   == SubSeq(file, LineEnd(file) + 1, Len(file))
        start  == EndOf(line, 1, Blank)
        fields == Fields(line, start, 6)
    IN  IF file = <<>> THEN [entry |-> NoEntry, rest |-> <<>>]
        ELSE IF start > Len(line) \/ line[start] = "#" \/ Len(fields) < 2 THEN Getmntent(rest)
        ELSE [entry |-> Entry(fields), rest |-> rest]

RECURSIVE AllEntries(_)
AllEntries(file) ==
    LET r == Getmntent(file) IN IF r.entry = NoEntry THEN <<>> ELSE <<r.entry>> \o AllEntries(r.rest)

\* write_escaped(), a character at a time, and the line of addmntent().
EscapedChar(c) ==
    LET codes == {k \in ToSet(CodeOf) : k[1] = c}
    IN  IF codes = {} THEN <<c>> ELSE <<"\\">> \o (CHOOSE k \in codes : TRUE)[2]
Escaped(field) == FlattenSeq([i \in DOMAIN field |-> EscapedChar(field[i])])
Addmntent(file, m) ==
    file \o Escaped(m.fsname) \o <<" ">> \o Escaped(m.dir) \o <<" ">> \o Escaped(m.type) \o <<" ">>
      \o Escaped(m.opts) \o <<" ">> \o NumberText(m.freq, 10, Digs) \o <<" ">>
      \o NumberText(m.passno, 10, Digs) \o <<"NL">>

\* hasmntopt(): the place of the option in the list, or 0.
RECURSIVE OptionFrom(_, _, _)
OptionFrom(opts, p, opt) ==
    LET end    == p + Len(opt)
        commas == {i \in p .. Len(opts) : opts[i] = ","}
    IN  CASE p > Len(opts) -> 0
          [] p <= Len(opts) /\ SubSeq(opts, p, Min({end - 1, Len(opts)})) = opt
               /\ (end > Len(opts) \/ opts[end] \in {",", "="}) -> p
          [] OTHER -> IF commas = {} THEN 0 ELSE OptionFrom(opts, Min(commas) + 1, opt)
Hasmntopt(opts, opt) == OptionFrom(opts, 1, opt)

-------------------------------------------------------------------------------
Short(m) == Len(Addmntent(<<>>, m)) < LineSize

\* Entries that addmntent appends are read back by getmntent in their order
\* and the same, blanks, newlines and backslashes in their fields included,
\* whatever comments, empty and malformed lines stand between them.  (A field
\* must not be empty, the first not begin with #, the line not fill the buffer.)
ReadsEntries(ms, noise) ==
    (\A i \in DOMAIN ms : Short(ms[i]) /\ ms[i].fsname[1] # "#") =>
        AllEntries(FlattenSeq([i \in DOMAIN ms |-> noise \o Addmntent(<<>>, ms[i])]) \o noise) = ms

\* hasmntopt finds an option just where it stands as a whole word.
FindsOption(opts, opt) ==
    LET starts == {p \in DOMAIN opts : p = 1 \/ opts[p - 1] = ","}
        ends(p) == Min({i \in p .. Len(opts) + 1 : i > Len(opts) \/ opts[i] \in {",", "="}})
        places == {p \in starts : SubSeq(opts, p, ends(p) - 1) = opt}
    IN  Hasmntopt(opts, opt) = IF places = {} THEN 0 ELSE Min(places)
===============================================================================
