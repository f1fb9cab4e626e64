------------------------------- MODULE Stream -------------------------------
(***************************************************************************)
(* A stream of stdio.c and scanf.c over a file: the FILE with its buffers, *)
(* the kernel's open file behind it, and every call that reads, writes,    *)
(* moves, rebuffers, opens or closes.  The kernel may write less than it   *)
(* is asked to, read less than there is, or fail.                          *)
(*                                                                         *)
(* The user keeps to what C asks of one: between output and input comes a  *)
(* flush or a seek, between input and output a seek unless the input has   *)
(* ended, setvbuf comes first, and what is pushed back was just read.      *)
(* Streams over memory (fd < 0) are left out.                              *)
(***************************************************************************)
EXTENDS Integers, Sequences, FiniteSets

CONSTANTS
    Bytes,          \* the bytes there are, 0 among them
    NEWLINE,        \* ... and the one that flushes
    BUFSIZ,         \* the length of a buffer the library allocates
    SmallBuf,       \* the length of a buffer a user gives to setvbuf
    LINE,           \* the length of the line getdelim() allocates
    MaxFile,        \* bound: the disk has room for a file of this length
    MaxCall,        \* bound: a call moves no more bytes than this
    OpenModes       \* the modes streams are opened with

ASSUME StreamAssumption ==
    /\ Bytes \subseteq Nat /\ 0 \in Bytes /\ NEWLINE \in Bytes
    /\ BUFSIZ \in Nat \ {0} /\ SmallBuf \in Nat \ {0}
    /\ LINE \in Nat /\ LINE >= 2
    /\ MaxFile \in Nat /\ MaxCall \in Nat
    /\ OpenModes \subseteq {"r", "w", "a", "r+", "w+", "a+"}

VARIABLES
    fp,         \* the FILE
    file,       \* the file and the kernel's place in it
    lost,       \* whether a flush has failed since the stream was opened
    turn,       \* what the user may do next: "new", "either", "in", "out",
                \* or "closed" when there is no stream
    did         \* the last call: its name, the bytes that went over, its result

vars == <<fp, file, lost, turn, did>>

EOF == -1

-------------------------------------------------------------------------------
(***************************************************************************)
(* The kernel.                                                             *)
(***************************************************************************)

Overlay(d, n, s) ==
    [i \in 1 .. (IF n + Len(s) > Len(d) THEN n + Len(s) ELSE Len(d)) |->
        IF i > n /\ i <= n + Len(s) THEN s[i - n]
        ELSE IF i <= Len(d) THEN d[i] ELSE 0]

Drop(s, n) == SubSeq(s, n + 1, Len(s))
Take(s, n) == SubSeq(s, 1, n)

\* stdio_parse_mode(): what the descriptor is opened for.
CanRead(mode) == mode \in {"r", "r+", "w+", "a+"}
CanWrite(mode) == mode # "r"
Appends(mode) == mode \in {"a", "a+"}
Truncates(mode) == mode \in {"w", "w+"}

\* Where the next write of f goes.
WritePlace(f) == IF Appends(f.mode) THEN Len(f.data) ELSE f.pos

\* The files write() can leave and the results it gives for the bytes s.
Writes(f, s) ==
    {[file |-> f, n |-> -1]}
    \cup {[file |-> IF n = 0 THEN f
                    ELSE [f EXCEPT !.data = Overlay(f.data, WritePlace(f), Take(s, n)),
                                   !.pos = WritePlace(f) + n],
           n |-> n] : n \in {k \in 0 .. Len(s) : CanWrite(f.mode) /\ WritePlace(f) + k <= MaxFile}}

\* ... and read() for up to n bytes: some of them if there are any.
Reads(f, n) ==
    {[file |-> f, n |-> -1, data |-> <<>>]}
    \cup {[file |-> [f EXCEPT !.pos = @ + k], n |-> k, data |-> SubSeq(f.data, f.pos + 1, f.pos + k)] :
            k \in {j \in 0 .. n : /\ CanRead(f.mode)
                                  /\ j = 0 <=> f.pos >= Len(f.data)
                                  /\ j > 0 => f.pos + j <= Len(f.data)}}

-------------------------------------------------------------------------------
(***************************************************************************)
(* Output.  A stream in the middle of a call is a record of what the call  *)
(* may change; an operator gives the set of those it can end in.           *)
(***************************************************************************)

Now == [fp |-> fp, file |-> file, lost |-> lost]

\* Where a loop can end that begins with o, and makes a turn at a time until an
\* outcome asks for no more, or n of them.
Loop(Turn(_), start, n) ==
    LET after[i \in 0 .. n] ==
          IF i = 0 THEN {start}
          ELSE UNION {IF o.more THEN Turn(o) ELSE {o} : o \in after[i - 1]}
    IN  after[n]

\* Fault: a flush that the kernel cut short counts as done.
FlushKeepsGoing(s) ==
    IF s.fp.pending = <<>> THEN {[st |-> s, ret |-> 0]}
    ELSE {IF w.n > 0
            THEN [st |-> [s EXCEPT !.file = w.file, !.fp.pending = <<>>], ret |-> 0]
            ELSE [st |-> [s EXCEPT !.fp.err = TRUE, !.lost = TRUE], ret |-> EOF] :
          w \in Writes(s.file, s.fp.pending)}

\* fflush(): what does not go out whole stays, to be sent again whole.
Flush(s) ==
    IF s.fp.pending = <<>> THEN {[st |-> s, ret |-> 0]}
    ELSE {IF w.n = Len(s.fp.pending)
            THEN [st |-> [s EXCEPT !.file = w.file, !.fp.pending = <<>>], ret |-> 0]
            ELSE [st |-> [s EXCEPT !.file = w.file, !.fp.err = TRUE, !.lost = TRUE],
                  ret |-> EOF] :
          w \in Writes(s.file, s.fp.pending)}

\* stdio_lazy_obuf() where the stream has no buffer: it gets one, or malloc()
\* has none and it stays without for good.
Buffered(s) ==
    IF s.fp.osize = 0 /\ s.fp.out = "lazy"
      THEN {[s EXCEPT !.fp.out = "own", !.fp.osize = BUFSIZ], [s EXCEPT !.fp.out = "none"]}
      ELSE {s}

Unbuffered(s, b) ==
    {[st  |-> [s EXCEPT !.file = w.file, !.fp.err = @ \/ w.n # 1],
      put |-> w.n = 1] : w \in Writes(s.file, <<b>>)}

\* A byte for which there is no room is dropped.
Stored(s, b) == IF Len(s.fp.pending) < s.fp.osize
                  THEN [s EXCEPT !.fp.pending = Append(@, b)] ELSE s

\* Fault: a full buffer waits for the end of the line.
FputcInByLine(s, b) ==
    IF s.fp.osize = 0 THEN Unbuffered(s, b)
    ELSE IF b = NEWLINE
           THEN {[st |-> o.st, put |-> o.ret = 0] : o \in Flush(Stored(s, b))}
           ELSE {[st |-> Stored(s, b), put |-> TRUE]}

FputcIn(s, b) ==
    IF s.fp.osize = 0 THEN Unbuffered(s, b)
    ELSE IF b = NEWLINE \/ Len(Stored(s, b).fp.pending) = s.fp.osize
           THEN {[st |-> o.st, put |-> o.ret = 0] : o \in Flush(Stored(s, b))}
           ELSE {[st |-> Stored(s, b), put |-> TRUE]}

\* fputc(): where it can end, and whether the byte was taken.
Fputc(s, b) == UNION {FputcIn(t, b) : t \in Buffered(s)}

\* fputc() of one byte after the other until one is refused; n were taken.
PutEach(s, data) ==
    LET Turn(o) == {[st   |-> p.st,
                     n    |-> IF p.put THEN o.n + 1 ELSE o.n,
                     more |-> p.put /\ o.n + 1 < Len(data)] : p \in Fputc(o.st, data[o.n + 1])}
    IN  Loop(Turn, [st |-> s, n |-> 0, more |-> TRUE], Len(data))

\* A chunk of fwrite() into a buffer: past it when it is empty and what is left
\* would fill it.  A failed flush ends it, with the chunk counted.
FwriteChunk(s, left, n) ==
    LET room  == s.fp.osize - Len(s.fp.pending)
        k     == IF room < Len(left) THEN room ELSE Len(left)
        chunk == [s EXCEPT !.fp.pending = @ \o Take(left, k)]
    IN  IF s.fp.pending = <<>> /\ Len(left) >= s.fp.osize
          THEN {IF w.n > 0 THEN [st |-> [s EXCEPT !.file = w.file], n |-> n + w.n,
                                 more |-> w.n < Len(left)]
                           ELSE [st |-> [s EXCEPT !.fp.err = TRUE], n |-> n, more |-> FALSE] :
                w \in Writes(s.file, left)}
        ELSE IF k < room THEN {[st |-> chunk, n |-> n + k, more |-> FALSE]}
        ELSE {[st |-> o.st, n |-> n + k, more |-> o.ret = 0 /\ k < Len(left)] : o \in Flush(chunk)}

\* Every chunk but the first has a byte at least.
FwriteChunks(s, data) ==
    LET Turn(o) == FwriteChunk(o.st, Drop(data, o.n), o.n)
    IN  Loop(Turn, [st |-> s, n |-> 0, more |-> TRUE], Len(data) + 1)

Fwrite(s, data) ==
    UNION {IF t.fp.osize = 0 THEN PutEach(t, data) ELSE FwriteChunks(t, data) :
           t \in Buffered(s)}

-------------------------------------------------------------------------------
(***************************************************************************)
(* Input.                                                                  *)
(***************************************************************************)

\* The input buffer of a stream that has none yet.
InputBuffered(s) ==
    IF s.fp.in = "none" THEN {[s EXCEPT !.fp.in = "own"], [s EXCEPT !.fp.err = TRUE]} ELSE {s}

Flagged(s, n) == IF n = 0 THEN [s EXCEPT !.fp.eof = TRUE] ELSE [s EXCEPT !.fp.err = TRUE]

\* ic() with nothing in hand: a read for a bufferful.
Refilled(s) ==
    UNION {IF t.fp.in = "none" THEN {[st |-> t, byte |-> EOF]}
           ELSE {IF r.n > 0
                   THEN [st |-> [t EXCEPT !.file = r.file, !.fp.unread = Tail(r.data)],
                         byte |-> Head(r.data)]
                   ELSE [st |-> Flagged(t, r.n), byte |-> EOF] : r \in Reads(t.file, BUFSIZ)} :
           t \in InputBuffered(s)}

\* ic(): the byte pushed back, or the next that was read ahead, or a new read.
Ic(s) ==
    IF s.fp.back # EOF
      THEN {[st |-> [s EXCEPT !.fp.back = EOF], byte |-> s.fp.back]}
      ELSE IF s.fp.unread # <<>>
        THEN {[st |-> [s EXCEPT !.fp.unread = Tail(@)], byte |-> Head(s.fp.unread)]}
        ELSE Refilled(s)

\* fgets(): byte by byte up to n, to the end of a line or input.
GetLine(s, n) ==
    LET Turn(o) == {[st   |-> i.st,
                     data |-> IF i.byte = EOF THEN o.data ELSE Append(o.data, i.byte),
                     more |-> i.byte \notin {EOF, NEWLINE}] : i \in Ic(o.st)}
    IN  Loop(Turn, [st |-> s, data |-> <<>>, more |-> TRUE], n)

\* getdelim() into a line with room for so many bytes, the terminator counted.
\* A byte there is no room for has the line doubled; when realloc() fails, it is
\* read all the same.  MaxFile + BUFSIZ + 1 bytes are all there can be.
GetDelimited(s, delimiter, room) ==
    LET Taken(o, i) == [o EXCEPT !.st = i.st, !.data = Append(@, i.byte),
                                 !.more = i.byte # delimiter]
        Turn(o) ==
            UNION {IF i.byte = EOF THEN {[o EXCEPT !.st = i.st, !.more = FALSE]}
                   ELSE IF Len(o.data) + 2 <= o.room THEN {Taken(o, i)}
                   ELSE {[Taken(o, i) EXCEPT !.room = 2 * @],
                         [Taken(o, i) EXCEPT !.failed = TRUE, !.more = FALSE]} : i \in Ic(o.st)}
    IN  Loop(Turn, [st |-> s, data |-> <<>>, room |-> room, failed |-> FALSE, more |-> TRUE],
             MaxFile + BUFSIZ + 2)

\* A piece of fread() of which n bytes are left: what is read ahead, or a read
\* past the buffer when that is a bufferful at least, or a byte.
FreadPiece(s, n, got) ==
    LET ahead == IF Len(s.fp.unread) < n THEN Len(s.fp.unread) ELSE n
    IN  IF s.fp.back = EOF /\ s.fp.in # "none" /\ ahead > 0
          THEN {[st |-> [s EXCEPT !.fp.unread = Drop(@, ahead)],
                 data |-> got \o Take(s.fp.unread, ahead), more |-> ahead < n]}
        ELSE IF s.fp.back = EOF /\ s.fp.in # "none" /\ n >= BUFSIZ
          THEN {IF r.n > 0 THEN [st |-> [s EXCEPT !.file = r.file], data |-> got \o r.data,
                                 more |-> r.n < n]
                           ELSE [st |-> Flagged(s, r.n), data |-> got, more |-> FALSE] :
                r \in Reads(s.file, n)}
        ELSE {IF i.byte = EOF THEN [st |-> i.st, data |-> got, more |-> FALSE]
                              ELSE [st |-> i.st, data |-> Append(got, i.byte), more |-> n > 1] :
              i \in Ic(s)}

Fread(s, n) ==
    LET Turn(o) == FreadPiece(o.st, n - Len(o.data), o.data)
    IN  Loop(Turn, [st |-> s, data |-> <<>>, more |-> TRUE], n)

-------------------------------------------------------------------------------
(***************************************************************************)
(* The calls.                                                              *)
(***************************************************************************)

Closed == [back |-> EOF, in |-> "none", unread |-> <<>>, out |-> "none", osize |-> 0,
           pending |-> <<>>, eof |-> FALSE, err |-> FALSE]

\* A standard stream before its first use, or no stream yet; and some file.
Init ==
    /\ file \in [data : UNION {[1 .. n -> Bytes] : n \in 0 .. MaxFile}, pos : {0}, mode : {"r+"}]
    /\ \/ turn = "new" /\ fp = [Closed EXCEPT !.out = "lazy"]
       \/ turn = "closed" /\ fp = Closed
    /\ lost = FALSE
    /\ did = [call |-> "start", data |-> <<>>, ret |-> 0]

Strings == UNION {[1 .. n -> Bytes] : n \in 1 .. MaxCall}

\* A call leaves the stream in s and hands over data, or a result.
Ends(s, call, data, ret) ==
    /\ fp' = s.fp
    /\ file' = s.file
    /\ lost' = s.lost
    /\ did' = [call |-> call, data |-> data, ret |-> ret]

\* Output goes where there is a buffer, or where there is to be none.
MayWrite == turn \in {"new", "either", "out"} /\ fp.out # "null"

PutByte(b) ==
    /\ MayWrite
    /\ \E o \in Fputc(Now, b) : Ends(o.st, "put", IF o.put THEN <<b>> ELSE <<>>, 0)
    /\ turn' = "out"

\* fputs() and puts().
PutString(data) ==
    /\ MayWrite
    /\ \E o \in PutEach(Now, data) : Ends(o.st, "put", Take(data, o.n), 0)
    /\ turn' = "out"

WriteBytes(data) ==
    /\ MayWrite
    /\ \E o \in Fwrite(Now, data) : Ends(o.st, "put", Take(data, o.n), 0)
    /\ turn' = "out"

FlushAll ==
    /\ turn # "closed"
    /\ \E o \in Flush(Now) :
          /\ Ends(o.st, "flush", <<>>, o.ret)
          /\ turn' = IF turn = "out" /\ o.ret = 0 THEN "either" ELSE turn

MayRead == turn \in {"new", "either", "in"}

\* A read that has found the end leaves the stream free for output.
Delivered(o, call, ret) ==
    /\ Ends(o.st, call, o.data, ret)
    /\ turn' = IF o.st.fp.eof /\ o.st.fp.unread = <<>> THEN "either" ELSE "in"

Gets(outcomes) == \E o \in outcomes : Delivered(o, "get", 0)

GetByte ==
    /\ MayRead
    /\ Gets({[st |-> i.st, data |-> IF i.byte = EOF THEN <<>> ELSE <<i.byte>>] : i \in Ic(Now)})

GetString(n) == MayRead /\ Gets(GetLine(Now, n))

\* getdelim() and getline() with a line of so many bytes, or of less than two,
\* which there is none to replace or a new one.  What was read when it fails
\* for want of memory never comes to the caller.
GetDelim(delimiter, room) ==
    /\ MayRead
    /\ \/ room < 2 /\ Ends(Now, "lose", <<>>, -1) /\ UNCHANGED turn
       \/ \E o \in GetDelimited(Now, delimiter, IF room < 2 THEN LINE ELSE room) :
             /\ ~o.more
             /\ IF o.failed THEN Delivered(o, "lose", -1)
                ELSE Delivered(o, "get", IF o.data = <<>> THEN -1 ELSE Len(o.data))

ReadBytes(n) == MayRead /\ Gets(Fread(Now, n))

\* ungetc() of the byte that was read last; there is room for one.
UngetByte ==
    /\ turn \in {"in", "either"}
    /\ did.call = "get" /\ did.data # <<>> /\ fp.back = EOF
    /\ Ends([Now EXCEPT !.fp.back = did.data[Len(did.data)], !.fp.eof = FALSE],
            "unget", <<>>, 0)
    /\ turn' = "in"

Target(s, offset, whence) ==
    offset + CASE whence = "set" -> 0 [] whence = "cur" -> s.file.pos [] whence = "end" -> Len(s.file.data)

\* Fault: what was read ahead is still there after the move.
MovedKeepsAhead(s, to) == [s EXCEPT !.file.pos = to, !.fp.pending = <<>>, !.fp.back = EOF,
                                    !.fp.eof = FALSE]

\* Fault: the end, once found, stays found.
MovedKeepsEof(s, to) == [s EXCEPT !.file.pos = to, !.fp.unread = <<>>, !.fp.pending = <<>>,
                                  !.fp.back = EOF]

Moved(s, to) == [s EXCEPT !.file.pos = to, !.fp.unread = <<>>, !.fp.pending = <<>>,
                          !.fp.back = EOF, !.fp.eof = FALSE]

\* fseek(): whether the flush succeeded is not looked at, and what it could not
\* write is dropped.
Fseek(offset, whence) ==
    /\ turn # "closed"
    /\ \E o \in Flush(Now) :
          LET to == Target(o.st, offset, whence)
          IN  /\ to <= MaxFile
              /\ IF to < 0
                   THEN Ends(o.st, "seek", <<whence, offset>>, -1) /\ UNCHANGED turn
                   ELSE /\ Ends(Moved(o.st, to), "seek", <<whence, offset>>, 0)
                        /\ turn' = "either"

Rewind ==
    /\ turn # "closed"
    /\ \E o \in Flush(Now) :
          Ends([Moved(o.st, 0) EXCEPT !.fp.err = FALSE], "seek", <<"set", 0>>, 0)
    /\ turn' = "either"

\* Fault: the bytes read ahead count as read.
Told(s) == s.file.pos

\* ftell(): the kernel's place less what was read ahead.
Tell(s) == s.file.pos - Len(s.fp.unread)

Ftell ==
    /\ turn # "closed"
    /\ \E o \in Flush(Now) : Ends(o.st, "tell", <<>>, Tell(o.st))
    /\ UNCHANGED turn

Clearerr ==
    /\ turn # "closed"
    /\ Ends([Now EXCEPT !.fp.eof = FALSE, !.fp.err = FALSE], "clear", <<>>, 0)
    /\ UNCHANGED turn

\* setvbuf(): without a buffer, with one of the user's, or with one it
\* allocates, unless malloc() has none; it has its size all the same.
Setvbuf ==
    /\ turn = "new"
    /\ \E b \in {[out |-> "none", size |-> 0], [out |-> "user", size |-> SmallBuf],
                 [out |-> "own", size |-> SmallBuf], [out |-> "null", size |-> SmallBuf]} :
          Ends([Now EXCEPT !.fp.out = b.out, !.fp.osize = b.size, !.fp.pending = <<>>],
               "buffer", <<>>, 0)
    /\ UNCHANGED turn

Reset(p) == [p EXCEPT !.back = EOF, !.unread = <<>>, !.pending = <<>>, !.eof = FALSE, !.err = FALSE]

\* stdio_ensure_buffers(), when malloc() has them.
Ensured(p) ==
    [p EXCEPT !.in = "own",
              !.out = IF @ \in {"lazy", "none", "null"} THEN "own" ELSE @,
              !.osize = IF p.out \in {"lazy", "none", "null"} THEN BUFSIZ ELSE @]

OpenedFile(f, mode) == [data |-> IF Truncates(mode) THEN <<>> ELSE f.data, pos |-> 0, mode |-> mode]

Fopen(mode) ==
    /\ turn = "closed"
    /\ Ends([fp |-> Ensured(Closed), file |-> OpenedFile(file, mode), lost |-> FALSE],
            "open", <<>>, 0)
    /\ turn' = "new"

\* freopen(): it gives up, with the old stream as it is, when the flush fails.
\* When close(), open() or malloc() does, the stream is left without a file.
Freopen(mode) ==
    /\ turn # "closed"
    /\ \E o \in Flush(Now) :
          IF o.ret = EOF
            THEN Ends(o.st, "fail", <<>>, EOF) /\ UNCHANGED turn
            ELSE \/ /\ Ends([fp |-> Reset(Ensured(o.st.fp)), lost |-> FALSE,
                             file |-> OpenedFile(o.st.file, mode)], "open", <<>>, 0)
                    /\ turn' = "new"
                 \/ /\ Ends([o.st EXCEPT !.fp = Closed], "close", <<>>, EOF)
                    /\ turn' = "closed"

\* fclose(): the descriptor is closed whether or not the flush went through.
Fclose ==
    /\ turn # "closed"
    /\ \E o \in Flush(Now) : Ends([o.st EXCEPT !.fp = Closed], "close", <<>>, 0)
    /\ turn' = "closed"

Next ==
    \/ \E b \in Bytes : PutByte(b)
    \/ \E data \in Strings : PutString(data)
    \/ \E data \in Strings : WriteBytes(data)
    \/ FlushAll
    \/ GetByte
    \/ \E n \in 1 .. MaxCall : GetString(n)
    \/ \E delimiter \in Bytes, room \in 1 .. MaxCall : GetDelim(delimiter, room)
    \/ \E n \in 1 .. MaxCall : ReadBytes(n)
    \/ UngetByte
    \/ \E offset \in -1 .. 1, whence \in {"set", "cur", "end"} : Fseek(offset, whence)
    \/ Rewind
    \/ Ftell
    \/ Clearerr
    \/ Setvbuf
    \/ \E mode \in OpenModes : Fopen(mode)
    \/ \E mode \in OpenModes : Freopen(mode)
    \/ Fclose

Spec == Init /\ [][Next]_vars

-------------------------------------------------------------------------------
(***************************************************************************)
(* Properties.                                                             *)
(***************************************************************************)

\* The text and the place as the user of the stream knows them.
Text ==
    IF fp.pending = <<>> THEN file.data ELSE Overlay(file.data, WritePlace(file), fp.pending)

At ==
    IF fp.pending # <<>> THEN WritePlace(file) + Len(fp.pending)
    ELSE file.pos - Len(fp.unread) - (IF fp.back = EOF THEN 0 ELSE 1)

\* The state is made of the values the code's variables can hold; between
\* calls a buffer has room for another byte, so that fputc() never comes to
\* drop one, unless a flush has failed.
TypeOK ==
    /\ fp.back \in Bytes \cup {EOF}
    /\ fp.in \in {"none", "own"}
    /\ fp.out \in {"lazy", "none", "own", "user", "null"}
    /\ Len(fp.unread) <= BUFSIZ
    /\ Len(fp.pending) <= fp.osize
    /\ fp.out \in {"lazy", "none"} <=> fp.osize = 0
    /\ \A i \in DOMAIN file.data : file.data[i] \in Bytes
    /\ Len(file.data) <= MaxFile /\ file.pos \in 0 .. MaxFile
    /\ turn \in {"new", "either", "in", "out", "closed"}
    /\ ~lost /\ fp.osize > 0 => Len(fp.pending) < fp.osize

\* What is read ahead is what the file has before the kernel's place, through
\* all the writes and moves of the same stream.
ReadAheadFresh ==
    ~lost =>
        /\ Len(fp.unread) <= file.pos
        /\ fp.unread = SubSeq(file.data, file.pos - Len(fp.unread) + 1, file.pos)

\* feof() says so only when there is nothing more to read.
EofMeansEnd == fp.eof /\ ~lost => At >= Len(Text)

\* A seek from the beginning or the end lands where it says whatever was in
\* the buffers, and ftell() tells the place unless a byte is pushed back.
SeeksLand ==
    ~lost =>
        /\ did.call = "seek" /\ did.ret = 0 =>
              /\ did.data[1] = "set" => At = did.data[2]
              /\ did.data[1] = "end" => At = Len(Text) + did.data[2]
        /\ did.call = "tell" /\ fp.back = EOF => did.ret = At

\* The buffers do not show: the stream is a text and a place in it.
Bytewise == INSTANCE ByteStream WITH text <- Text, at <- At, appends <- Appends(file.mode)

ImplementsByteStream == Bytewise!Spec
===============================================================================
