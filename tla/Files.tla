-------------------------------- MODULE Files --------------------------------
(***************************************************************************)
(* A directory in which several processes make temporary files with        *)
(* mkstemp(), mkdtemp() and tmpnam() (mkstemp.c, tmpnam.c) while one lists *)
(* it with opendir(), readdir() and closedir() (dirent.c) and files are    *)
(* removed.  A step is a system call with what the code does up to the     *)
(* next one: between two of them all other processes may run.              *)
(*                                                                         *)
(* The directory is the kernel's (external): a row of places, each with an *)
(* entry or none, that getdents() goes through in order.                   *)
(***************************************************************************)
EXTENDS Integers, Sequences, FiniteSets, Functions

CONSTANTS
    Pids,           \* the processes that make files, by their numbers
    Names,          \* names there are for a template, 36^6
    Token(_, _),    \* the number in a name of tmpnam(), of a process and its count
    TMP_ATTEMPTS,   \* names mkstemp() tries before it gives up
    TMP_MAX,        \* names tmpnam() tries before it gives up
    Batch,          \* bound: the entries that fit DIR's buffer
    Places,         \* bound: the entries of the directory
    MaxCount        \* bound: tmpid and tmpnam_counter of a process

ASSUME FilesAssumption ==
    /\ Pids \subseteq Nat \ {0} /\ {Names, Batch, Places} \subseteq Nat \ {0}
    /\ TMP_ATTEMPTS \in 1 .. Names /\ TMP_MAX \in Nat \ {0} /\ MaxCount \in Nat

\* What one process counts gives it different numbers.
ASSUME TokenAssumption ==
    \A p \in Pids : \A m, n \in 0 .. MaxCount + TMP_MAX - 1 :
        Token(p, m) \in Nat /\ (Token(p, m) = Token(p, n) => m = n)

VARIABLES
    dir,            \* the entry at each place of the directory
    tmpid, tmpnam_counter,
    call,           \* the call a process is in, and its attempts
    template,       \* the end of the buffer it gives to mkstemp()
    tried,          \* the names the call has found taken
    given,          \* the names it has of tmpnam()
    ret,            \* how its last call ended
    reader          \* the DIR, and what the reader got of it

temporaries == <<tmpid, tmpnam_counter, call, template, tried, given, ret>>
vars == <<dir, temporaries, reader>>

Name(kind, number) == [kind |-> kind, number |-> number]
Nothing == [name |-> Name("none", 0), makers |-> <<>>]
XXXXXX == Name("XXXXXX", 0)

Taken(name) == \E i \in 1 .. Places : dir[i].name = name
Empty == {i \in 1 .. Places : dir[i] = Nothing}

-------------------------------------------------------------------------------
(***************************************************************************)
(* The directory under the calls.                                          *)
(***************************************************************************)

\* Process p makes a new entry, or opens the one of that name as well.
Entered(p, name) ==
    IF Taken(name)
    THEN {[i \in 1 .. Places |->
              IF dir[i].name = name THEN [name |-> name, makers |-> Append(dir[i].makers, p)] ELSE dir[i]]}
    ELSE {[dir EXCEPT ![i] = [name |-> name, makers |-> <<p>>]] : i \in Empty}

\* open(t, O_RDWR | O_EXCL | O_CREAT) and mkdir(t): what the directory may be
\* afterwards, nothing if the name is taken or there is no place.
Created(p, name) == IF Taken(name) THEN {} ELSE Entered(p, name)

\* The entry at place i is removed: what the reader has of it is no longer
\* one that stays.
Unlink(i) ==
    /\ dir[i] # Nothing
    /\ dir' = [dir EXCEPT ![i] = Nothing]
    /\ reader' = [reader EXCEPT !.stay = @ \ {i}]
    /\ UNCHANGED temporaries

-------------------------------------------------------------------------------
(***************************************************************************)
(* mkstemp() and mkdtemp().                                                *)
(***************************************************************************)
In(of, attempt, sequence) == [of |-> of, attempt |-> attempt, sequence |-> sequence]
Idle == In("none", 0, 0)

NameOf(p, id) == Name("mkstemp", (id + p * 7919) % Names)

\* next_name(): the candidate after tmpid, which it moves.
Renamed(p) ==
    /\ tmpid' = [tmpid EXCEPT ![p] = @ + 1]
    /\ template' = [template EXCEPT ![p] = NameOf(p, tmpid[p] + 1)]

\* The X's are back in the template.
Restored(p) == template' = [template EXCEPT ![p] = XXXXXX]

Returns(p, how) ==
    /\ call' = [call EXCEPT ![p] = Idle]
    /\ ret' = [ret EXCEPT ![p] = how]

\* A program calls with a new buffer.
Mkstemp(p) ==
    /\ call[p] = Idle /\ tmpid[p] < MaxCount
    /\ Renamed(p)
    /\ call' = [call EXCEPT ![p] = In("mkstemp", 0, 0)]
    /\ tried' = [tried EXCEPT ![p] = {}]
    /\ UNCHANGED <<dir, tmpnam_counter, given, ret, reader>>

\* ... or with the buffer the last call has left without its X's.
MkstempInvalid(p) ==
    /\ call[p] = Idle /\ template[p] # XXXXXX
    /\ Returns(p, "EINVAL")
    /\ tried' = [tried EXCEPT ![p] = {}]
    /\ UNCHANGED <<dir, tmpid, tmpnam_counter, template, given, reader>>

\* The name is free: the file or directory is made.
MkstempMakes(p) ==
    /\ call[p].of = "mkstemp"
    /\ dir' \in Created(p, template[p])
    /\ Returns(p, "made")
    /\ UNCHANGED <<tmpid, tmpnam_counter, template, tried, given, reader>>

\* The name is taken: the next one, ...
MkstempExists(p) ==
    /\ call[p].of = "mkstemp" /\ Taken(template[p]) /\ tmpid[p] < MaxCount
    /\ call[p].attempt + 1 < TMP_ATTEMPTS
    /\ Renamed(p)
    /\ call' = [call EXCEPT ![p] = In("mkstemp", call[p].attempt + 1, 0)]
    /\ tried' = [tried EXCEPT ![p] = @ \cup {template[p]}]
    /\ UNCHANGED <<dir, tmpnam_counter, given, ret, reader>>

\* ... unless this was the last attempt, which moves tmpid all the same.
MkstempGivesUp(p) ==
    /\ call[p].of = "mkstemp" /\ Taken(template[p]) /\ tmpid[p] < MaxCount
    /\ call[p].attempt + 1 >= TMP_ATTEMPTS
    /\ tmpid' = [tmpid EXCEPT ![p] = @ + 1]
    /\ Restored(p) /\ Returns(p, "EEXIST")
    /\ tried' = [tried EXCEPT ![p] = @ \cup {template[p]}]
    /\ UNCHANGED <<dir, tmpnam_counter, given, reader>>

\* Any other error ends the call: no place, no permission.
MkstempRefused(p) ==
    /\ call[p].of = "mkstemp" /\ ~Taken(template[p])
    /\ Restored(p) /\ Returns(p, "refused")
    /\ UNCHANGED <<dir, tmpid, tmpnam_counter, tried, given, reader>>

-------------------------------------------------------------------------------
(***************************************************************************)
(* tmpnam(), which only looks whether the name is there.                   *)
(***************************************************************************)
TokenOf(p, n) == Name("tmpnam", Token(p, n))
Candidate(p) == TokenOf(p, call[p].sequence + call[p].attempt)

\* Fault: the names found taken on the way are not counted.
OneFurther(c) == c.sequence + 1

\* Where the next call starts, after this one gave away its candidate.
CounterAfter(c) == c.sequence + c.attempt + 1

Tmpnam(p) ==
    /\ call[p] = Idle
    /\ call' = [call EXCEPT ![p] = In("tmpnam", 0, tmpnam_counter[p])]
    /\ tried' = [tried EXCEPT ![p] = {}]
    /\ UNCHANGED <<dir, tmpid, tmpnam_counter, template, given, ret, reader>>

TmpnamReturns(p) ==
    /\ call[p].of = "tmpnam"
    /\ ~Taken(Candidate(p)) /\ CounterAfter(call[p]) <= MaxCount
    /\ tmpnam_counter' = [tmpnam_counter EXCEPT ![p] = CounterAfter(call[p])]
    /\ given' = [given EXCEPT ![p] = Append(@, Candidate(p))]
    /\ Returns(p, "named")
    /\ UNCHANGED <<dir, tmpid, template, tried, reader>>

TmpnamExists(p) ==
    /\ call[p].of = "tmpnam" /\ Taken(Candidate(p))
    /\ IF call[p].attempt + 1 < TMP_MAX
       THEN /\ call' = [call EXCEPT ![p] = In("tmpnam", call[p].attempt + 1, call[p].sequence)]
            /\ UNCHANGED ret
       ELSE Returns(p, "NULL")
    /\ tried' = [tried EXCEPT ![p] = @ \cup {Candidate(p)}]
    /\ UNCHANGED <<dir, tmpid, tmpnam_counter, template, given, reader>>

\* The program opens the last name it was given, when it comes to that.
OpenNamed(p) ==
    /\ call[p] = Idle /\ given[p] # <<>> /\ ret[p] = "named"
    /\ dir' \in Entered(p, given[p][Len(given[p])])
    /\ Returns(p, "made")
    /\ UNCHANGED <<tmpid, tmpnam_counter, template, tried, given, reader>>

-------------------------------------------------------------------------------
(***************************************************************************)
(* The DIR: where the descriptor is (the next place), the buffer with the  *)
(* places of its entries, and the index of the next of them.  `stay` is    *)
(* the places with an entry since opendir(), `got` those readdir() gave.   *)
(* `null` tells of the last NULL it returned whether that was the end or a *)
(* failure: the two differ by errno, which only a failing getdents() sets. *)
(***************************************************************************)
Dir(open, at, buf, pos, stay, got, null) ==
    [open |-> open, at |-> at, buf |-> buf, pos |-> pos, stay |-> stay, got |-> got, null |-> null]
Opened(stay) == Dir(TRUE, 1, <<>>, 0, stay, <<>>, "none")
Closed == Dir(FALSE, 1, <<>>, 0, {}, <<>>, "none")

\* opendir(), and fdopendir() of a new descriptor; without memory for the DIR
\* the descriptor is closed.
Opendir ==
    /\ ~reader.open
    /\ reader' \in {Opened((1 .. Places) \ Empty), Closed}
    /\ UNCHANGED <<dir, temporaries>>

\* getdents() fills the buffer with the first entry ahead or more, while
\* there are any.
Ahead == {i \in reader.at .. Places : dir[i] # Nothing}
Increasing(s) == \A i, j \in 1 .. Len(s) : i < j => s[i] < s[j]
Getdents ==
    {buf \in UNION {[1 .. n -> Ahead] : n \in 1 .. Batch} :
        Increasing(buf) /\ \A i \in Ahead : i <= buf[Len(buf)] => i \in Range(buf)}

\* Fault: the last entry of a buffer is taken for its end.
AtLastOfBuffer == reader.pos + 1 >= Len(reader.buf)

AtEndOfBuffer == reader.pos >= Len(reader.buf)
Given(d) == Dir(d.open, d.at, d.buf, d.pos + 1, d.stay, Append(d.got, d.buf[d.pos + 1]), d.null)
Refilled(buf) ==
    Dir(reader.open, buf[Len(buf)] + 1, buf, 0, reader.stay, reader.got, reader.null)

\* len < 0: NULL with the DIR as it was, the kernel's place too, so that another
\* call asks for the same entries again.
Failed(d) == [d EXCEPT !.null = "error"]

Readdir ==
    /\ reader.open
    /\ IF ~AtEndOfBuffer
       THEN reader' = Given(reader)
       ELSE \/ \E buf \in Getdents : reader' = Given(Refilled(buf))
            \/ Ahead = {} /\ reader' = [reader EXCEPT !.null = "end"]
            \/ reader' = Failed(reader)
    /\ UNCHANGED <<dir, temporaries>>

Closedir ==
    /\ reader.open
    /\ reader' = Closed
    /\ UNCHANGED <<dir, temporaries>>

-------------------------------------------------------------------------------
Init ==
    /\ dir = [i \in 1 .. Places |-> Nothing]
    /\ tmpid = [p \in Pids |-> 0] /\ tmpnam_counter = [p \in Pids |-> 0]
    /\ call = [p \in Pids |-> Idle]
    /\ template = [p \in Pids |-> XXXXXX]
    /\ tried = [p \in Pids |-> {}] /\ given = [p \in Pids |-> <<>>]
    /\ ret = [p \in Pids |-> "none"]
    /\ reader = Closed

UsesMkstemp(p) ==
    \/ Mkstemp(p) \/ MkstempInvalid(p)
    \/ MkstempMakes(p) \/ MkstempExists(p) \/ MkstempGivesUp(p) \/ MkstempRefused(p)
UsesTmpnam(p) == Tmpnam(p) \/ TmpnamReturns(p) \/ TmpnamExists(p) \/ OpenNamed(p)
Reads == Opendir \/ Readdir \/ Closedir

Next ==
    \/ \E p \in Pids : UsesMkstemp(p) \/ UsesTmpnam(p)
    \/ \E i \in 1 .. Places : Unlink(i)
    \/ Reads

Spec == Init /\ [][Next]_vars

-------------------------------------------------------------------------------
(***************************************************************************)
(* Properties.                                                             *)
(***************************************************************************)

\* Whatever the processes do between each other's calls: a file mkstemp() or
\* mkdtemp() made is of one call; a call gives up over names that are taken
\* only after as many different ones as it has attempts, with the template
\* ready to be tried again; and no process gets a name from tmpnam() twice,
\* whether or not it made a file of it.
TemporaryNames ==
    /\ \A i \in 1 .. Places : dir[i].name.kind = "mkstemp" => Len(dir[i].makers) = 1
    /\ \A p \in Pids :
          /\ ret[p] = "EEXIST" /\ call[p] = Idle =>
                Cardinality(tried[p]) = TMP_ATTEMPTS /\ template[p] = XXXXXX
          /\ ret[p] = "NULL" /\ call[p] = Idle => Cardinality(tried[p]) = TMP_MAX
          /\ IsInjective(given[p])

\* readdir() gives no place of the directory twice, and when it says that this
\* is the end (NULL, with errno as it was) it has given every entry that was
\* there all the time, though others came and went, some of what it gave was
\* gone by then, and calls before that one failed and were made again.
ListsAll ==
    /\ IsInjective(reader.got)
    /\ reader.null = "end" => reader.stay \subseteq Range(reader.got)

===============================================================================
