----------------------------- MODULE FilesProofs -----------------------------
(***************************************************************************)
(* The safety of Files for any number of processes, names, attempts,       *)
(* places and entries to a buffer, and any numbering of tmpnam() that      *)
(* gives one process different numbers.                                    *)
(***************************************************************************)
EXTENDS Files, NumberFacts, FiniteSetTheorems, SequenceTheorems

(***************************************************************************)
(* Types.                                                                  *)
(***************************************************************************)
Kinds == {"none", "XXXXXX", "mkstemp", "tmpnam"}
NameSet == [kind : Kinds, number : Nat]
Entries == [name : NameSet, makers : Seq(Pids)]
Calls == [of : {"none", "mkstemp", "tmpnam"}, attempt : Nat, sequence : Nat]
Nulls == {"none", "end", "error"}
Readers == [open : BOOLEAN, at : 1 .. Places + 1, buf : Seq(1 .. Places), pos : Nat,
            stay : SUBSET (1 .. Places), got : Seq(1 .. Places), null : Nulls]

DirTyped == dir \in [1 .. Places -> Entries]

CallsTyped ==
    /\ tmpid \in [Pids -> Nat] /\ tmpnam_counter \in [Pids -> 0 .. MaxCount]
    /\ call \in [Pids -> Calls]
    /\ template \in [Pids -> NameSet]
    /\ tried \in [Pids -> SUBSET NameSet]
    /\ given \in [Pids -> Seq(NameSet)]
    /\ ret \in [Pids -> {"none", "EINVAL", "made", "EEXIST", "refused", "named", "NULL"}]

LEMMA ConstantsAre ==
    /\ Places \in Nat \ {0} /\ Batch \in Nat \ {0} /\ Names \in Nat \ {0}
    /\ TMP_ATTEMPTS \in Nat \ {0} /\ TMP_ATTEMPTS <= Names
    /\ TMP_MAX \in Nat \ {0} /\ MaxCount \in Nat
    /\ Pids \subseteq Nat
  BY FilesAssumption

(***************************************************************************)
(* The listing.                                                            *)
(*                                                                         *)
(* What the reader got lies before what is left of its buffer, and that    *)
(* before the descriptor; every place that stays is among what it got,     *)
(* what is left of the buffer, or what lies ahead.                         *)
(***************************************************************************)
Rest(d) == d.pos + 1 .. Len(d.buf)

InPlace(d) ==
    /\ d.pos <= Len(d.buf)
    /\ Increasing(d.buf) /\ Increasing(d.got)
    /\ \A i \in 1 .. Len(d.got), j \in Rest(d) : d.got[i] < d.buf[j]
    /\ \A i \in 1 .. Len(d.got) : d.got[i] < d.at
    /\ \A j \in 1 .. Len(d.buf) : d.buf[j] < d.at

Misses(d, i) == i \notin Range(d.got) /\ \A j \in Rest(d) : d.buf[j] # i

Complete(d) ==
    /\ \A i \in d.stay : Misses(d, i) => i >= d.at
    /\ d.null = "end" => d.stay \subseteq Range(d.got)

Present == \A i \in reader.stay : dir[i] # Nothing

ReaderInv == DirTyped /\ reader \in Readers /\ InPlace(reader) /\ Complete(reader) /\ Present

LEMMA ReaderTypes ==
  ASSUME NEW d \in Readers
  PROVE  /\ d.open \in BOOLEAN /\ d.at \in 1 .. Places + 1 /\ d.pos \in Nat /\ d.null \in Nulls
         /\ d.buf \in Seq(1 .. Places) /\ d.got \in Seq(1 .. Places) /\ d.stay \subseteq 1 .. Places
         /\ Len(d.buf) \in Nat /\ Len(d.got) \in Nat /\ d.at \in Nat
         /\ \A j \in 1 .. Len(d.buf) : d.buf[j] \in 1 .. Places /\ d.buf[j] \in Nat
         /\ \A j \in 1 .. Len(d.got) : d.got[j] \in 1 .. Places /\ d.got[j] \in Nat
  <1>1. /\ d.open \in BOOLEAN /\ d.at \in 1 .. Places + 1 /\ d.pos \in Nat /\ d.null \in Nulls
        /\ d.buf \in Seq(1 .. Places) /\ d.got \in Seq(1 .. Places) /\ d.stay \subseteq 1 .. Places
    BY DEF Readers
  <1>2. /\ \A j \in 1 .. Len(d.buf) : d.buf[j] \in 1 .. Places
        /\ \A j \in 1 .. Len(d.got) : d.got[j] \in 1 .. Places
    BY <1>1, ElementOfSeq
  <1>3. \A x \in 1 .. Places + 1 : x \in Nat
    BY ConstantsAre
  <1>4. 1 .. Places \subseteq 1 .. Places + 1
    BY ConstantsAre
  <1>5. Len(d.buf) \in Nat /\ Len(d.got) \in Nat
    BY <1>1
  <1> QED  BY <1>1, <1>2, <1>3, <1>4, <1>5

LEMMA ClosedInv == Closed \in Readers /\ InPlace(Closed) /\ Complete(Closed)
  <1>1. Closed \in Readers
    BY ConstantsAre DEF Closed, Dir, Readers, Nulls
  <1>2. Closed.pos = 0 /\ Len(Closed.buf) = 0 /\ Len(Closed.got) = 0 /\ Closed.stay = {}
    BY DEF Closed, Dir
  <1>3. InPlace(Closed) /\ Complete(Closed)
    BY <1>2 DEF InPlace, Complete, Rest, Increasing
  <1> QED  BY <1>1, <1>3

\* What is entered replaces no entry by none.
LEMMA EnteredKeeps ==
  ASSUME DirTyped, NEW p \in Pids, NEW name \in NameSet, name.kind # "none",
         NEW d \in Entered(p, name)
  PROVE  /\ d \in [1 .. Places -> Entries]
         /\ \A i \in 1 .. Places : dir[i] # Nothing => d[i] # Nothing
  <1>1. CASE Taken(name)
    <2>1. \A i \in 1 .. Places : Append(dir[i].makers, p) \in Seq(Pids)
      BY DEF DirTyped, Entries
    <2>2. d = [i \in 1 .. Places |->
                 IF dir[i].name = name THEN [name |-> name, makers |-> Append(dir[i].makers, p)] ELSE dir[i]]
      BY <1>1 DEF Entered
    <2>3. d \in [1 .. Places -> Entries]
      BY <2>1, <2>2 DEF DirTyped, Entries
    <2>4. \A i \in 1 .. Places : d[i] = dir[i] \/ d[i].name = name
      BY <2>2
    <2> QED  BY <2>3, <2>4 DEF Nothing, Name, NameSet
  <1>2. CASE ~Taken(name)
    <2>1. PICK k \in Empty : d = [dir EXCEPT ![k] = [name |-> name, makers |-> <<p>>]]
      BY <1>2 DEF Entered
    <2>2. [name |-> name, makers |-> <<p>>] \in Entries
      BY DEF Entries
    <2>3. k \in 1 .. Places /\ dir[k] = Nothing
      BY DEF Empty
    <2> QED  BY <2>1, <2>2, <2>3 DEF DirTyped
  <1> QED  BY <1>1, <1>2

LEMMA GivenInv ==
  ASSUME NEW d \in Readers, InPlace(d), Complete(d), d.pos < Len(d.buf)
  PROVE  Given(d) \in Readers /\ InPlace(Given(d)) /\ Complete(Given(d))
  <1> DEFINE n == Len(d.got)
             e == Given(d)
             next == d.buf[d.pos + 1]
  <1>1. /\ d.pos \in Nat /\ Len(d.buf) \in Nat /\ n \in Nat /\ d.pos + 1 \in 1 .. Len(d.buf)
        /\ d.got \in Seq(1 .. Places) /\ d.at \in 1 .. Places + 1
        /\ \A j \in 1 .. Len(d.buf) : d.buf[j] \in 1 .. Places
        /\ \A i \in 1 .. n : d.got[i] \in 1 .. Places
    BY ReaderTypes
  <1>2. next \in 1 .. Places
    BY <1>1
  <1>3. /\ e.got = Append(d.got, next) /\ e.pos = d.pos + 1
        /\ e.open = d.open /\ e.at = d.at /\ e.buf = d.buf /\ e.stay = d.stay /\ e.null = d.null
        /\ e \in Readers
    <2>1. Append(d.got, next) \in Seq(1 .. Places) /\ d.pos + 1 \in Nat
      BY <1>1, <1>2
    <2>2. /\ d.open \in BOOLEAN /\ d.buf \in Seq(1 .. Places) /\ d.stay \in SUBSET (1 .. Places)
          /\ d.null \in Nulls
      BY ReaderTypes
    <2> HIDE DEF next
    <2>3. e = Dir(d.open, d.at, d.buf, d.pos + 1, d.stay, Append(d.got, next), d.null)
      BY DEF Given, next
    <2> QED  BY <1>1, <2>1, <2>2, <2>3 DEF Dir, Readers
  <1>4. /\ Len(e.got) = n + 1 /\ e.got[n + 1] = next
        /\ \A i \in 1 .. n : e.got[i] = d.got[i]
    BY <1>1, <1>2, <1>3
  <1>5. 1 .. Len(e.got) = (1 .. n) \cup {n + 1}
    BY <1>1, <1>4
  <1>6. Rest(e) \subseteq Rest(d) /\ \A j \in Rest(d) : j \in Rest(e) \/ j = d.pos + 1
    BY <1>1, <1>3 DEF Rest
  <1>7. InPlace(e)
    <2>1. e.pos <= Len(e.buf) /\ Increasing(e.buf) /\ \A j \in 1 .. Len(e.buf) : e.buf[j] < e.at
      BY <1>1, <1>3 DEF InPlace
    <2>2. \A i \in 1 .. n : d.got[i] < next
      BY <1>1 DEF InPlace, Rest
    <2>3. Increasing(e.got)
      <3> SUFFICES ASSUME NEW i \in 1 .. Len(e.got), NEW j \in 1 .. Len(e.got), i < j
                   PROVE  e.got[i] < e.got[j]
        BY DEF Increasing
      <3>1. i \in 1 .. n
        BY <1>1, <1>4
      <3>2. CASE j = n + 1
        BY <3>1, <3>2, <2>2, <1>4
      <3>3. CASE j # n + 1
        <4>1. j \in 1 .. n
          BY <3>3, <1>5
        <4> QED  BY <3>1, <4>1, <1>4 DEF InPlace, Increasing
      <3> QED  BY <3>2, <3>3
    <2>4. \A j \in Rest(e) : next < e.buf[j]
      BY <1>1, <1>3 DEF InPlace, Increasing, Rest
    <2>5. \A i \in 1 .. Len(e.got), j \in Rest(e) : e.got[i] < e.buf[j]
      BY <2>4, <1>3, <1>4, <1>5, <1>6 DEF InPlace
    <2>6. \A i \in 1 .. Len(e.got) : e.got[i] < e.at
      BY <1>1, <1>3, <1>4, <1>5 DEF InPlace
    <2> QED  BY <2>1, <2>3, <2>5, <2>6 DEF InPlace
  <1>8. Range(d.got) \subseteq Range(e.got) /\ next \in Range(e.got)
    <2>1. DOMAIN d.got = 1 .. n
      BY <1>1
    <2>2. e.got \in Seq(1 .. Places)
      BY <1>3, ReaderTypes
    <2>3. DOMAIN e.got = 1 .. Len(e.got)
      BY <2>2
    <2>4. \A i \in 1 .. n : d.got[i] \in Range(e.got)
      BY <1>4, <1>5, <2>3 DEF Range
    <2>5. n + 1 \in DOMAIN e.got
      BY <1>5, <2>3
    <2> HIDE DEF next, e
    <2> QED  BY <1>4, <2>1, <2>4, <2>5 DEF Range
  <1>9. Complete(e)
    <2>1. ASSUME NEW i \in e.stay, Misses(e, i) PROVE i >= e.at
      <3>1. i \notin Range(d.got) /\ i # next
        BY <1>8, <2>1 DEF Misses
      <3>2. Misses(d, i)
        BY <1>3, <1>6, <2>1, <3>1 DEF Misses
      <3> QED  BY <1>3, <3>2 DEF Complete
    <2> QED  BY <1>3, <1>8, <2>1 DEF Complete
  <1> QED  BY <1>3, <1>7, <1>9

\* Without anything left of the buffer, what was missed lies ahead.
LEMMA MissedIsAhead ==
  ASSUME ReaderInv, AtEndOfBuffer, NEW i \in reader.stay, i \notin Range(reader.got)
  PROVE  i \in Ahead
  <1>1. Rest(reader) = {}
    BY DEF ReaderInv, AtEndOfBuffer, Rest, Readers
  <1>2. i >= reader.at /\ i \in 1 .. Places
    BY <1>1 DEF ReaderInv, Complete, Misses, Readers
  <1> QED  BY <1>2 DEF Ahead, ReaderInv, Present, Readers

LEMMA RefilledInv ==
  ASSUME ReaderInv, AtEndOfBuffer, NEW buf \in Getdents
  PROVE  LET d == Refilled(buf)
         IN  d \in Readers /\ InPlace(d) /\ Complete(d) /\ d.pos < Len(d.buf)
  <1> DEFINE d == Refilled(buf)
             last == buf[Len(buf)]
  <1>1. PICK n \in 1 .. Batch : buf \in [1 .. n -> Ahead]
    BY DEF Getdents
  <1>2. Increasing(buf) /\ \A i \in Ahead : i <= last => i \in Range(buf)
    BY DEF Getdents
  <1>3. n \in Nat \ {0} /\ Ahead \subseteq 1 .. Places /\ \A i \in Ahead : i >= reader.at /\ i \in Nat
    <2>1. reader.at \in Nat /\ reader.at >= 1
      BY ReaderTypes, ConstantsAre DEF ReaderInv
    <2> QED  BY <1>1, <2>1, ConstantsAre DEF Ahead
  <1>4. /\ buf \in Seq(1 .. Places) /\ Len(buf) = n /\ last \in Ahead
        /\ \A j \in 1 .. n : buf[j] \in Ahead
    <2>1. buf \in Seq(Ahead) /\ Len(buf) = n
      BY <1>1, <1>3
    <2>2. \A j \in 1 .. n : buf[j] \in Ahead
      BY <1>1
    <2>3. buf \in [1 .. n -> 1 .. Places]
      BY <1>1, <1>3
    <2>4. buf \in Seq(1 .. Places)
      BY <1>3, <2>3, SeqDef
    <2>5. n \in 1 .. n
      BY <1>3
    <2> QED  BY <2>1, <2>2, <2>4, <2>5
  <1>5. /\ d.buf = buf /\ d.pos = 0 /\ d.at = last + 1
        /\ d.open = reader.open /\ d.stay = reader.stay /\ d.got = reader.got /\ d.null = reader.null
        /\ d \in Readers
    <2>1. last \in 1 .. Places /\ last + 1 \in 1 .. Places + 1
      BY <1>3, <1>4, ConstantsAre
    <2>2. /\ reader.open \in BOOLEAN /\ reader.stay \in SUBSET (1 .. Places)
          /\ reader.got \in Seq(1 .. Places) /\ reader.null \in Nulls
      BY ReaderTypes DEF ReaderInv
    <2> HIDE DEF last
    <2>3. d = Dir(reader.open, last + 1, buf, 0, reader.stay, reader.got, reader.null)
      BY DEF Refilled, last
    <2> QED  BY <1>4, <2>1, <2>2, <2>3 DEF Dir, Readers
  <1>6. reader.at \in Nat /\ \A i \in 1 .. Len(reader.got) : reader.got[i] \in Nat /\ reader.got[i] < reader.at
    BY ReaderTypes DEF ReaderInv, InPlace
  <1>7. InPlace(d)
    <2>1. \A j \in 1 .. n : buf[j] <= last
      <3> SUFFICES ASSUME NEW j \in 1 .. n PROVE buf[j] <= last
        OBVIOUS
      <3>1. buf[j] \in Nat /\ last \in Nat
        BY <1>3, <1>4
      <3>2. CASE j = n
        BY <3>1, <3>2, <1>4
      <3>3. CASE j < n
        BY <3>1, <3>3, <1>2, <1>3, <1>4 DEF Increasing
      <3> HIDE DEF last
      <3> QED  BY <3>2, <3>3, <1>3
    <2>2. last \in Nat /\ last >= reader.at /\ \A j \in 1 .. n : buf[j] \in Nat /\ buf[j] >= reader.at
      BY <1>3, <1>4
    <2>3. \A i \in 1 .. Len(reader.got), j \in 1 .. n : reader.got[i] < buf[j]
      BY <1>6, <2>2
    <2>4. Increasing(reader.got)
      BY DEF ReaderInv, InPlace
    <2>5. Rest(d) = 1 .. n
      BY <1>4, <1>5 DEF Rest
    <2>6. d.pos <= Len(d.buf) /\ Increasing(d.buf) /\ Increasing(d.got)
      BY <1>2, <1>3, <1>4, <1>5, <2>4
    <2>7. \A i \in 1 .. Len(d.got) : d.got[i] < d.at
      BY <1>5, <1>6, <2>2
    <2>8. \A j \in 1 .. Len(d.buf) : d.buf[j] < d.at
      BY <1>4, <1>5, <2>1, <2>2
    <2>9. \A i \in 1 .. Len(d.got), j \in Rest(d) : d.got[i] < d.buf[j]
      BY <1>5, <2>3, <2>5
    <2> HIDE DEF d, last
    <2> QED  BY <2>6, <2>7, <2>8, <2>9 DEF InPlace
  <1>8. Complete(d)
    <2>1. ASSUME NEW i \in d.stay, Misses(d, i) PROVE i >= d.at
      <3>1. i \in Ahead
        BY <1>5, <2>1, MissedIsAhead DEF Misses
      <3>2. i \notin Range(buf)
        BY <1>3, <1>4, <1>5, <2>1 DEF Misses, Rest, Range
      <3>3. ~(i <= last)
        BY <1>2, <3>1, <3>2
      <3>4. i \in Nat /\ last \in Nat
        BY <1>3, <1>4, <3>1
      <3> HIDE DEF last, d
      <3> QED  BY <1>5, <3>3, <3>4
    <2> QED  BY <1>5, <2>1 DEF Complete, ReaderInv
  <1> QED  BY <1>3, <1>4, <1>5, <1>7, <1>8

(***************************************************************************)
(* The names.                                                              *)
(*                                                                         *)
(* A call of mkstemp() is at the last of the names it counted, and has     *)
(* found taken as many different ones before it as it made attempts; a     *)
(* call of tmpnam() counts from where the last one left the counter; what  *)
(* tmpnam() gave lies below the counter.                                   *)
(***************************************************************************)
Counted(p) == IsFiniteSet(tried[p]) /\ Cardinality(tried[p]) = call[p].attempt

Searching(p) ==
    /\ template[p] = NameOf(p, tmpid[p])
    /\ call[p].attempt < TMP_ATTEMPTS /\ call[p].attempt + 1 <= tmpid[p]
    /\ \A name \in tried[p] : \E k \in tmpid[p] - call[p].attempt .. tmpid[p] - 1 : name = NameOf(p, k)
    /\ Counted(p)

Probing(p) ==
    /\ call[p].sequence = tmpnam_counter[p] /\ call[p].attempt < TMP_MAX
    /\ \A name \in tried[p] : \E k \in 0 .. call[p].attempt - 1 : name = TokenOf(p, call[p].sequence + k)
    /\ Counted(p)

GivenBefore(p) ==
    /\ \A i \in 1 .. Len(given[p]) : \E n \in 0 .. tmpnam_counter[p] - 1 : given[p][i] = TokenOf(p, n)
    /\ \A i, j \in 1 .. Len(given[p]) : given[p][i] = given[p][j] => i = j

AtReturn(p) ==
    /\ ret[p] = "EEXIST" => Cardinality(tried[p]) = TMP_ATTEMPTS /\ template[p] = XXXXXX
    /\ ret[p] = "NULL" => Cardinality(tried[p]) = TMP_MAX

ProcessInv(p) ==
    /\ call[p].of = "mkstemp" => Searching(p)
    /\ call[p].of = "tmpnam" => Probing(p)
    /\ call[p] = Idle => AtReturn(p)
    /\ GivenBefore(p)

MadeOnce == \A i \in 1 .. Places : dir[i].name.kind = "mkstemp" => Len(dir[i].makers) = 1

NamesInv == DirTyped /\ CallsTyped /\ MadeOnce /\ \A p \in Pids : ProcessInv(p)

\* Numbers less than Names apart give different names.
LEMMA NamesApart ==
  ASSUME NEW p \in Pids, NEW k \in Nat, NEW m \in Nat, k < m, m - k < Names
  PROVE  NameOf(p, k) # NameOf(p, m)
  <1> DEFINE x == k + p * 7919
             y == m + p * 7919
  <1>1. Names \in Nat \ {0} /\ p \in Nat
    BY ConstantsAre
  <1>2. x \in Int /\ y \in Int /\ 0 < y - x /\ y - x < Names
    BY <1>1
  <1>3. SUFFICES ASSUME x % Names = y % Names PROVE FALSE
    BY DEF NameOf, Name
  <1> HIDE DEF x, y
  <1> DEFINE u == x \div Names
             v == y \div Names
             d == v - u
  <1>4. y - x = Names * d /\ d \in Int
    <2>1. x = Names * u + (x % Names) /\ y = Names * v + (y % Names)
      BY <1>1, <1>2, DivMod
    <2>2. u \in Int /\ v \in Int /\ x % Names \in Int
      BY <1>1, <1>2, DivMod
    <2> HIDE DEF u, v
    <2>3. Names * (v - u) = Names * v - Names * u
      BY <1>1, <2>2
    <2>4. Names * u \in Int /\ Names * v \in Int
      BY <1>1, <2>2
    <2>5. y - x = Names * v - Names * u
      BY <1>2, <1>3, <2>1, <2>2, <2>4
    <2> QED  BY <2>2, <2>3, <2>5
  <1> HIDE DEF d
  <1>5. CASE d <= 0
    BY <1>1, <1>2, <1>4, <1>5
  <1>6. CASE d >= 1
    BY <1>1, <1>2, <1>4, <1>6
  <1> QED  BY <1>4, <1>5, <1>6

LEMMA TokensApart ==
  ASSUME NEW p \in Pids, NEW m \in 0 .. MaxCount + TMP_MAX - 1, NEW n \in 0 .. MaxCount + TMP_MAX - 1,
         m # n
  PROVE  TokenOf(p, m) # TokenOf(p, n)
  BY TokenAssumption DEF TokenOf, Name

\* A name the call has not tried is one more.
LEMMA OneMoreTried ==
  ASSUME NEW p \in Pids, CallsTyped, Counted(p), NEW name, name \notin tried[p]
  PROVE  /\ IsFiniteSet(tried[p] \cup {name})
         /\ Cardinality(tried[p] \cup {name}) = call[p].attempt + 1
  BY FS_AddElement DEF Counted

LEMMA LatestIsNew ==
  ASSUME NEW p \in Pids, CallsTyped, Searching(p)
  PROVE  template[p] \notin tried[p]
  <1>1. tmpid[p] \in Nat /\ call[p].attempt \in Nat /\ TMP_ATTEMPTS <= Names /\ Names \in Nat /\ TMP_ATTEMPTS \in Nat
    BY ConstantsAre DEF CallsTyped, Calls
  <1>2. \A k \in tmpid[p] - call[p].attempt .. tmpid[p] - 1 : NameOf(p, k) # NameOf(p, tmpid[p])
    <2> SUFFICES ASSUME NEW k \in tmpid[p] - call[p].attempt .. tmpid[p] - 1
                 PROVE  NameOf(p, k) # NameOf(p, tmpid[p])
      OBVIOUS
    <2>1. k \in Nat /\ k < tmpid[p] /\ tmpid[p] - k < Names
      BY <1>1 DEF Searching
    <2> QED  BY <1>1, <2>1, NamesApart
  <1> QED  BY <1>2 DEF Searching

LEMMA CandidateIsNew ==
  ASSUME NEW p \in Pids, CallsTyped, Probing(p)
  PROVE  Candidate(p) \notin tried[p]
  <1>1. /\ call[p].attempt \in Nat /\ call[p].sequence \in 0 .. MaxCount
        /\ call[p].attempt < TMP_MAX /\ TMP_MAX \in Nat /\ MaxCount \in Nat
    BY ConstantsAre DEF CallsTyped, Calls, Probing
  <1>2. \A k \in 0 .. call[p].attempt - 1 : TokenOf(p, call[p].sequence + k) # Candidate(p)
    <2> SUFFICES ASSUME NEW k \in 0 .. call[p].attempt - 1
                 PROVE  TokenOf(p, call[p].sequence + k) # Candidate(p)
      OBVIOUS
    <2>1. /\ call[p].sequence + k \in 0 .. MaxCount + TMP_MAX - 1
          /\ call[p].sequence + call[p].attempt \in 0 .. MaxCount + TMP_MAX - 1
          /\ call[p].sequence + k # call[p].sequence + call[p].attempt
      BY <1>1
    <2> QED  BY <2>1, TokensApart DEF Candidate
  <1> QED  BY <1>2 DEF Probing

\* What others do leaves a process as it is.
Same(q) ==
    /\ tmpid'[q] = tmpid[q] /\ tmpnam_counter'[q] = tmpnam_counter[q] /\ call'[q] = call[q]
    /\ template'[q] = template[q] /\ tried'[q] = tried[q] /\ given'[q] = given[q] /\ ret'[q] = ret[q]

LEMMA SameInv ==
  ASSUME NEW q \in Pids, ProcessInv(q), Same(q)
  PROVE  ProcessInv(q)'
  BY DEF Same, ProcessInv, Searching, Probing, Counted, AtReturn, GivenBefore, TokenOf, NameOf, Idle, XXXXXX

\* One process moves, and its own part of the invariant holds of what it did.
Moves(p) == CallsTyped' /\ (\A q \in Pids \ {p} : Same(q)) /\ ProcessInv(p)'

LEMMA CallTypes ==
  ASSUME CallsTyped, NEW p \in Pids
  PROVE  /\ tmpid[p] \in Nat /\ tmpnam_counter[p] \in 0 .. MaxCount /\ tmpnam_counter[p] \in Nat
         /\ call[p] \in Calls /\ call[p].attempt \in Nat /\ call[p].sequence \in Nat
         /\ tried[p] \subseteq NameSet /\ given[p] \in Seq(NameSet) /\ Len(given[p]) \in Nat
         /\ \A k \in Nat : NameOf(p, k) \in NameSet
  <1>1. p \in Nat /\ Names \in Nat \ {0} /\ MaxCount \in Nat
    BY ConstantsAre
  <1>2. /\ tmpid[p] \in Nat /\ tmpnam_counter[p] \in 0 .. MaxCount /\ tmpnam_counter[p] \in Nat
        /\ call[p] \in Calls /\ tried[p] \subseteq NameSet /\ given[p] \in Seq(NameSet)
    BY <1>1 DEF CallsTyped
  <1>3. \A k \in Nat : NameOf(p, k) \in NameSet
    <2> SUFFICES ASSUME NEW k \in Nat PROVE NameOf(p, k) \in NameSet
      OBVIOUS
    <2>1. k + p * 7919 \in Int
      BY <1>1
    <2>2. (k + p * 7919) % Names \in Nat
      BY <1>1, <2>1, DivMod
    <2> QED  BY <2>2 DEF NameOf, Name, NameSet, Kinds
  <1> QED  BY <1>2, <1>3 DEF Calls

LEMMA MkstempMoves == ASSUME NamesInv, NEW p \in Pids, Mkstemp(p) PROVE Moves(p)
  <1>1. /\ tmpid' = [tmpid EXCEPT ![p] = tmpid[p] + 1]
        /\ template' = [template EXCEPT ![p] = NameOf(p, tmpid[p] + 1)]
        /\ call' = [call EXCEPT ![p] = In("mkstemp", 0, 0)] /\ tried' = [tried EXCEPT ![p] = {}]
        /\ UNCHANGED <<tmpnam_counter, given, ret>>
    BY DEF Mkstemp, Renamed
  <1>2. tmpid[p] \in Nat /\ NameOf(p, tmpid[p] + 1) \in NameSet /\ TMP_ATTEMPTS \in Nat \ {0}
    BY CallTypes, ConstantsAre DEF NamesInv
  <1>3. CallsTyped' /\ \A q \in Pids \ {p} : Same(q)
    BY <1>1, <1>2 DEF NamesInv, CallsTyped, Calls, In, Same
  <1>4. call'[p].of = "mkstemp" /\ call'[p].attempt = 0 /\ call'[p] # Idle /\ tried'[p] = {}
    BY <1>1 DEF NamesInv, CallsTyped, In, Idle
  <1>5. Searching(p)'
    BY <1>1, <1>2, <1>4, FS_EmptySet DEF NamesInv, CallsTyped, Searching, Counted, NameOf
  <1> QED  BY <1>1, <1>3, <1>4, <1>5 DEF NamesInv, ProcessInv, Moves, GivenBefore, TokenOf

LEMMA ReturnsMoves ==
  ASSUME NamesInv, NEW p \in Pids,
         \/ MkstempInvalid(p) \/ MkstempMakes(p) \/ MkstempRefused(p) \/ OpenNamed(p)
  PROVE  Moves(p)
  <1>1. PICK how \in {"EINVAL", "made", "refused"}, t \in {template[p], XXXXXX}, s \in {tried[p], {}} :
            /\ call' = [call EXCEPT ![p] = Idle] /\ ret' = [ret EXCEPT ![p] = how]
            /\ template' = [template EXCEPT ![p] = t] /\ tried' = [tried EXCEPT ![p] = s]
            /\ UNCHANGED <<tmpid, tmpnam_counter, given>>
    <2>1. template = [template EXCEPT ![p] = template[p]] /\ tried = [tried EXCEPT ![p] = tried[p]]
      BY DEF NamesInv, CallsTyped
    <2> QED  BY <2>1 DEF MkstempInvalid, MkstempMakes, MkstempRefused, OpenNamed, Returns, Restored
  <1>2. Idle \in Calls /\ XXXXXX \in NameSet
    BY DEF Idle, In, Calls, XXXXXX, Name, NameSet, Kinds
  <1>3. CallsTyped' /\ \A q \in Pids \ {p} : Same(q)
    <2>1. s \in SUBSET NameSet /\ t \in NameSet
      BY <1>1, <1>2 DEF NamesInv, CallsTyped
    <2> QED  BY <1>1, <1>2, <2>1 DEF NamesInv, CallsTyped, Same
  <1>4. call'[p] = Idle /\ call'[p].of = "none" /\ ret'[p] = how
    BY <1>1 DEF NamesInv, CallsTyped, In, Idle
  <1>5. AtReturn(p)'
    BY <1>4 DEF AtReturn
  <1>6. GivenBefore(p)'
    BY <1>1 DEF NamesInv, ProcessInv, GivenBefore, TokenOf
  <1> QED  BY <1>3, <1>4, <1>5, <1>6 DEF ProcessInv, Moves

LEMMA MkstempExistsMoves == ASSUME NamesInv, NEW p \in Pids, MkstempExists(p) PROVE Moves(p)
  <1> DEFINE a == call[p].attempt
  <1>1. /\ tmpid' = [tmpid EXCEPT ![p] = tmpid[p] + 1]
        /\ template' = [template EXCEPT ![p] = NameOf(p, tmpid[p] + 1)]
        /\ call' = [call EXCEPT ![p] = In("mkstemp", a + 1, 0)]
        /\ tried' = [tried EXCEPT ![p] = tried[p] \cup {template[p]}]
        /\ a + 1 < TMP_ATTEMPTS
        /\ UNCHANGED <<tmpnam_counter, given, ret>>
    BY DEF MkstempExists, Renamed
  <1>2. /\ tmpid[p] \in Nat /\ a \in Nat /\ NameOf(p, tmpid[p] + 1) \in NameSet
        /\ tried[p] \subseteq NameSet /\ template[p] \in NameSet
    BY CallTypes DEF NamesInv, CallsTyped
  <1>3. CallsTyped' /\ \A q \in Pids \ {p} : Same(q)
    BY <1>1, <1>2 DEF NamesInv, CallsTyped, Calls, In, Same
  <1>4. /\ call'[p].of = "mkstemp" /\ call'[p].attempt = a + 1 /\ call'[p] # Idle
        /\ tried'[p] = tried[p] \cup {template[p]}
        /\ tmpid'[p] = tmpid[p] + 1 /\ template'[p] = NameOf(p, tmpid[p] + 1)
    BY <1>1 DEF NamesInv, CallsTyped, In, Idle
  <1>5. Searching(p)
    BY DEF NamesInv, ProcessInv, MkstempExists
  <1>6. Counted(p)'
    BY <1>4, <1>5, OneMoreTried, LatestIsNew DEF NamesInv, Counted, Searching
  <1>7. Searching(p)'
    <2>1. ASSUME NEW name \in tried'[p]
          PROVE  \E k \in tmpid'[p] - call'[p].attempt .. tmpid'[p] - 1 : name = NameOf(p, k)
      <3>1. CASE name \in tried[p]
        BY <3>1, <1>2, <1>4, <1>5 DEF Searching
      <3>2. CASE name = template[p]
        BY <3>2, <1>2, <1>4, <1>5 DEF Searching
      <3> QED  BY <2>1, <1>4, <3>1, <3>2
    <2>2. call'[p].attempt < TMP_ATTEMPTS /\ call'[p].attempt + 1 <= tmpid'[p]
      BY <1>1, <1>2, <1>4, <1>5 DEF Searching
    <2>3. template'[p] = NameOf(p, tmpid'[p])
      BY <1>4
    <2> QED  BY <1>6, <2>1, <2>2, <2>3 DEF Searching, NameOf
  <1> QED  BY <1>1, <1>3, <1>4, <1>7 DEF NamesInv, ProcessInv, Moves, GivenBefore, TokenOf

LEMMA MkstempGivesUpMoves == ASSUME NamesInv, NEW p \in Pids, MkstempGivesUp(p) PROVE Moves(p)
  <1>1. /\ tmpid' = [tmpid EXCEPT ![p] = tmpid[p] + 1]
        /\ template' = [template EXCEPT ![p] = XXXXXX]
        /\ call' = [call EXCEPT ![p] = Idle] /\ ret' = [ret EXCEPT ![p] = "EEXIST"]
        /\ tried' = [tried EXCEPT ![p] = tried[p] \cup {template[p]}]
        /\ call[p].attempt + 1 >= TMP_ATTEMPTS
        /\ UNCHANGED <<tmpnam_counter, given>>
    BY DEF MkstempGivesUp, Restored, Returns
  <1>2. /\ tmpid[p] \in Nat /\ call[p].attempt \in Nat /\ tried[p] \subseteq NameSet /\ template[p] \in NameSet
        /\ Idle \in Calls /\ XXXXXX \in NameSet /\ TMP_ATTEMPTS \in Nat
    BY CallTypes, ConstantsAre DEF NamesInv, CallsTyped, Idle, In, Calls, XXXXXX, Name, NameSet, Kinds
  <1>3. CallsTyped' /\ \A q \in Pids \ {p} : Same(q)
    BY <1>1, <1>2 DEF NamesInv, CallsTyped, Same
  <1>4. /\ call'[p] = Idle /\ call'[p].of = "none" /\ ret'[p] = "EEXIST" /\ template'[p] = XXXXXX
        /\ tried'[p] = tried[p] \cup {template[p]}
    BY <1>1 DEF NamesInv, CallsTyped, In, Idle
  <1>5. Searching(p)
    BY DEF NamesInv, ProcessInv, MkstempGivesUp
  <1>6. Cardinality(tried'[p]) = call[p].attempt + 1 /\ call[p].attempt < TMP_ATTEMPTS
    BY <1>4, <1>5, OneMoreTried, LatestIsNew DEF NamesInv, Searching
  <1>7. AtReturn(p)'
    BY <1>1, <1>2, <1>4, <1>6 DEF AtReturn, XXXXXX
  <1> QED  BY <1>1, <1>3, <1>4, <1>7 DEF NamesInv, ProcessInv, Moves, GivenBefore, TokenOf

LEMMA TmpnamMoves == ASSUME NamesInv, NEW p \in Pids, Tmpnam(p) PROVE Moves(p)
  <1>1. /\ call' = [call EXCEPT ![p] = In("tmpnam", 0, tmpnam_counter[p])]
        /\ tried' = [tried EXCEPT ![p] = {}]
        /\ UNCHANGED <<tmpid, tmpnam_counter, template, given, ret>>
    BY DEF Tmpnam
  <1>2. tmpnam_counter[p] \in Nat /\ TMP_MAX \in Nat \ {0}
    BY CallTypes, ConstantsAre DEF NamesInv
  <1>3. CallsTyped' /\ \A q \in Pids \ {p} : Same(q)
    BY <1>1, <1>2 DEF NamesInv, CallsTyped, Calls, In, Same
  <1>4. /\ call'[p].of = "tmpnam" /\ call'[p].attempt = 0 /\ call'[p].sequence = tmpnam_counter[p]
        /\ call'[p] # Idle /\ tried'[p] = {}
    BY <1>1 DEF NamesInv, CallsTyped, In, Idle
  <1>5. Counted(p)'
    BY <1>4, FS_EmptySet DEF Counted
  <1>6. \A name \in tried'[p] : \E k \in 0 .. call'[p].attempt - 1 : name = TokenOf(p, call'[p].sequence + k)
    BY <1>4
  <1>7. Probing(p)'
    BY <1>1, <1>2, <1>4, <1>5, <1>6 DEF Probing, TokenOf
  <1> QED  BY <1>1, <1>3, <1>4, <1>7 DEF NamesInv, ProcessInv, Moves, GivenBefore, TokenOf

LEMMA TmpnamExistsMoves == ASSUME NamesInv, NEW p \in Pids, TmpnamExists(p) PROVE Moves(p)
  <1> DEFINE a == call[p].attempt
             name == Candidate(p)
  <1>1. /\ tried' = [tried EXCEPT ![p] = tried[p] \cup {name}]
        /\ UNCHANGED <<tmpid, tmpnam_counter, template, given>>
    BY DEF TmpnamExists
  <1>2. Probing(p)
    BY DEF NamesInv, ProcessInv, TmpnamExists
  <1>3. /\ a \in Nat /\ call[p].sequence \in Nat /\ call[p].sequence = tmpnam_counter[p]
        /\ tmpnam_counter[p] \in 0 .. MaxCount /\ a < TMP_MAX /\ TMP_MAX \in Nat /\ MaxCount \in Nat
        /\ tried[p] \subseteq NameSet
    BY <1>2, CallTypes, ConstantsAre DEF NamesInv, Probing
  <1>4. name \in NameSet
    <2>1. call[p].sequence + a \in 0 .. MaxCount + TMP_MAX - 1
      BY <1>3
    <2>2. Token(p, call[p].sequence + a) \in Nat
      BY <2>1, TokenAssumption
    <2> QED  BY <2>2 DEF Candidate, TokenOf, Name, NameSet, Kinds
  <1> HIDE DEF name
  <1>5. /\ IsFiniteSet(tried[p] \cup {name}) /\ Cardinality(tried[p] \cup {name}) = a + 1
    BY <1>2, OneMoreTried, CandidateIsNew DEF NamesInv, Probing, name
  <1>6. tried'[p] = tried[p] \cup {name}
    BY <1>1 DEF NamesInv, CallsTyped
  <1>7. CASE a + 1 < TMP_MAX
    <2>1. call' = [call EXCEPT ![p] = In("tmpnam", a + 1, call[p].sequence)] /\ UNCHANGED ret
      BY <1>7 DEF TmpnamExists
    <2>2. CallsTyped' /\ \A q \in Pids \ {p} : Same(q)
      BY <1>1, <1>3, <1>4, <2>1 DEF NamesInv, CallsTyped, Calls, In, Same
    <2>3. /\ call'[p].of = "tmpnam" /\ call'[p].attempt = a + 1 /\ call'[p].sequence = call[p].sequence
          /\ call'[p] # Idle
      BY <2>1 DEF NamesInv, CallsTyped, In, Idle
    <2>4. ASSUME NEW n \in tried'[p]
          PROVE  \E k \in 0 .. call'[p].attempt - 1 : n = TokenOf(p, call'[p].sequence + k)
      <3>1. CASE n \in tried[p]
        <4>1. PICK k \in 0 .. a - 1 : n = TokenOf(p, call[p].sequence + k)
          BY <3>1, <1>2 DEF Probing
        <4>2. k \in 0 .. call'[p].attempt - 1
          BY <1>3, <2>3
        <4> QED  BY <2>3, <4>1, <4>2
      <3>2. CASE n = name
        <4>1. a \in 0 .. call'[p].attempt - 1
          BY <1>3, <2>3
        <4>2. n = TokenOf(p, call'[p].sequence + a)
          BY <3>2, <2>3 DEF Candidate, name
        <4> QED  BY <4>1, <4>2
      <3> QED  BY <2>4, <1>6, <3>1, <3>2
    <2>5. Counted(p)'
      BY <1>5, <1>6, <2>3 DEF Counted
    <2>6. Probing(p)'
      BY <1>1, <1>3, <1>7, <2>3, <2>4, <2>5 DEF Probing, TokenOf
    <2> QED  BY <1>1, <2>2, <2>3, <2>6 DEF NamesInv, ProcessInv, Moves, GivenBefore, TokenOf
  <1>8. CASE ~(a + 1 < TMP_MAX)
    <2>1. call' = [call EXCEPT ![p] = Idle] /\ ret' = [ret EXCEPT ![p] = "NULL"]
      BY <1>8 DEF TmpnamExists, Returns
    <2>2. Idle \in Calls
      BY DEF Idle, In, Calls
    <2>3. CallsTyped' /\ \A q \in Pids \ {p} : Same(q)
      BY <1>1, <1>3, <1>4, <2>1, <2>2 DEF NamesInv, CallsTyped, Same
    <2>4. call'[p] = Idle /\ call'[p].of = "none" /\ ret'[p] = "NULL"
      BY <2>1 DEF NamesInv, CallsTyped, In, Idle
    <2>5. AtReturn(p)'
      BY <1>3, <1>5, <1>6, <1>8, <2>4 DEF AtReturn
    <2> QED  BY <1>1, <2>3, <2>4, <2>5 DEF NamesInv, ProcessInv, Moves, GivenBefore, TokenOf
  <1> QED  BY <1>7, <1>8

\* The counter goes behind every name tmpnam() has looked at.
LEMMA TmpnamReturnsMoves == ASSUME NamesInv, NEW p \in Pids, TmpnamReturns(p) PROVE Moves(p)
  <1> DEFINE n == Len(given[p])
             next == call[p].sequence + call[p].attempt
  <1>1. /\ tmpnam_counter' = [tmpnam_counter EXCEPT ![p] = next + 1] /\ next + 1 <= MaxCount
        /\ given' = [given EXCEPT ![p] = Append(given[p], TokenOf(p, next))]
        /\ call' = [call EXCEPT ![p] = Idle] /\ ret' = [ret EXCEPT ![p] = "named"]
        /\ UNCHANGED <<tmpid, template, tried>>
    BY DEF TmpnamReturns, Returns, CounterAfter, Candidate
  <1>2. /\ call[p].attempt \in Nat /\ call[p].sequence \in Nat /\ call[p].sequence = tmpnam_counter[p]
        /\ tmpnam_counter[p] \in 0 .. MaxCount /\ TMP_MAX \in Nat \ {0} /\ MaxCount \in Nat
        /\ given[p] \in Seq(NameSet) /\ n \in Nat
    BY CallTypes, ConstantsAre DEF NamesInv, ProcessInv, Probing, TmpnamReturns
  <1>3. next \in 0 .. MaxCount + TMP_MAX - 1 /\ next + 1 \in 0 .. MaxCount /\ next >= tmpnam_counter[p]
    BY <1>1, <1>2
  <1>4. TokenOf(p, next) \in NameSet
    <2> HIDE DEF next
    <2>1. Token(p, next) \in Nat
      BY <1>3, TokenAssumption
    <2> QED  BY <2>1 DEF TokenOf, Name, NameSet, Kinds
  <1> HIDE DEF next
  <1>5. Append(given[p], TokenOf(p, next)) \in Seq(NameSet)
    BY <1>2, <1>4
  <1>6. Idle \in Calls
    BY DEF Idle, In, Calls
  <1>7. CallsTyped' /\ \A q \in Pids \ {p} : Same(q)
    BY <1>1, <1>3, <1>5, <1>6 DEF NamesInv, CallsTyped, Same
  <1>8. /\ call'[p] = Idle /\ call'[p].of = "none" /\ ret'[p] = "named"
        /\ tmpnam_counter'[p] = next + 1
        /\ given'[p] = Append(given[p], TokenOf(p, next))
    BY <1>1 DEF NamesInv, CallsTyped, In, Idle
  <1>9. /\ Len(given'[p]) = n + 1 /\ given'[p][n + 1] = TokenOf(p, next)
        /\ \A i \in 1 .. n : given'[p][i] = given[p][i]
        /\ 1 .. Len(given'[p]) = (1 .. n) \cup {n + 1}
    BY <1>2, <1>4, <1>8
  <1>10. GivenBefore(p)
    BY DEF NamesInv, ProcessInv
  <1>11. ASSUME NEW i \in 1 .. n
         PROVE  \E k \in 0 .. tmpnam_counter'[p] - 1 : given'[p][i] = TokenOf(p, k)
    <2>1. PICK k \in 0 .. tmpnam_counter[p] - 1 : given[p][i] = TokenOf(p, k)
      BY <1>10 DEF GivenBefore
    <2>2. k \in 0 .. tmpnam_counter'[p] - 1
      BY <1>2, <1>3, <1>8
    <2> QED  BY <1>9, <2>1, <2>2
  <1>12. ASSUME NEW i \in 1 .. n PROVE given'[p][i] # TokenOf(p, next)
    <2>1. PICK k \in 0 .. tmpnam_counter[p] - 1 : given[p][i] = TokenOf(p, k)
      BY <1>10 DEF GivenBefore
    <2>2. k \in 0 .. MaxCount + TMP_MAX - 1 /\ k # next
      BY <1>2, <1>3
    <2> QED  BY <1>3, <1>9, <2>1, <2>2, TokensApart
  <1>13. next \in 0 .. tmpnam_counter'[p] - 1
    BY <1>3, <1>8
  <1>14. GivenBefore(p)'
    <2>1. ASSUME NEW i \in 1 .. Len(given'[p])
          PROVE  \E k \in 0 .. tmpnam_counter'[p] - 1 : given'[p][i] = TokenOf(p, k)
      BY <1>9, <1>11, <1>13
    <2>2. ASSUME NEW i \in 1 .. Len(given'[p]), NEW j \in 1 .. Len(given'[p]), given'[p][i] = given'[p][j]
          PROVE  i = j
      BY <1>9, <1>10, <1>12, <2>2 DEF GivenBefore
    <2> QED  BY <2>1, <2>2 DEF GivenBefore, TokenOf
  <1> QED  BY <1>7, <1>8, <1>14 DEF ProcessInv, Moves, AtReturn

\* mkstemp() is the one maker of what it makes, ...
LEMMA CreatedOnce ==
  ASSUME NamesInv, NEW p \in Pids, MkstempMakes(p)
  PROVE  DirTyped' /\ MadeOnce' /\ \A i \in 1 .. Places : dir[i] # Nothing => dir'[i] # Nothing
  <1> DEFINE name == template[p]
  <1>1. name = NameOf(p, tmpid[p]) /\ tmpid[p] \in Nat
    BY CallTypes DEF NamesInv, ProcessInv, Searching, MkstempMakes
  <1>2. name \in NameSet /\ name.kind = "mkstemp"
    BY <1>1, CallTypes DEF NamesInv, NameOf, Name
  <1>3. ~Taken(name) /\ dir' \in Entered(p, name)
    BY DEF MkstempMakes, Created
  <1> HIDE DEF name
  <1>4. DirTyped' /\ \A i \in 1 .. Places : dir[i] # Nothing => dir'[i] # Nothing
    <2>1. name.kind # "none"
      BY <1>2
    <2>2. /\ dir' \in [1 .. Places -> Entries]
          /\ \A i \in 1 .. Places : dir[i] # Nothing => dir'[i] # Nothing
      BY <1>2, <1>3, <2>1, EnteredKeeps DEF NamesInv
    <2> QED  BY <2>2 DEF DirTyped
  <1>5. PICK k \in Empty : dir' = [dir EXCEPT ![k] = [name |-> name, makers |-> <<p>>]]
    BY <1>3 DEF Entered
  <1>6. MadeOnce'
    BY <1>5 DEF NamesInv, DirTyped, MadeOnce
  <1> QED  BY <1>4, <1>6

\* ... and what is opened by a name of tmpnam() is none of mkstemp().
LEMMA OpenedApart ==
  ASSUME NamesInv, NEW p \in Pids, OpenNamed(p)
  PROVE  DirTyped' /\ MadeOnce' /\ \A i \in 1 .. Places : dir[i] # Nothing => dir'[i] # Nothing
  <1> DEFINE name == given[p][Len(given[p])]
  <1>1. given[p] \in Seq(NameSet) /\ given[p] # <<>> /\ Len(given[p]) \in 1 .. Len(given[p])
    BY CallTypes DEF NamesInv, OpenNamed
  <1>2. name \in NameSet
    BY <1>1, ElementOfSeq
  <1>3. name.kind = "tmpnam"
    <2>1. GivenBefore(p)
      BY DEF NamesInv, ProcessInv
    <2>2. PICK n \in 0 .. tmpnam_counter[p] - 1 : name = TokenOf(p, n)
      BY <1>1, <2>1 DEF GivenBefore
    <2> HIDE DEF name
    <2> QED  BY <2>2 DEF TokenOf, Name
  <1>4. dir' \in Entered(p, name)
    BY DEF OpenNamed
  <1> HIDE DEF name
  <1>5. DirTyped' /\ \A i \in 1 .. Places : dir[i] # Nothing => dir'[i] # Nothing
    <2>1. name.kind # "none"
      BY <1>3
    <2>2. /\ dir' \in [1 .. Places -> Entries]
          /\ \A i \in 1 .. Places : dir[i] # Nothing => dir'[i] # Nothing
      BY <1>2, <1>4, <2>1, EnteredKeeps DEF NamesInv
    <2> QED  BY <2>2 DEF DirTyped
  <1>6. ASSUME NEW i \in 1 .. Places PROVE dir'[i] = dir[i] \/ dir'[i].name = name
    <2>1. CASE Taken(name)
      BY <1>4, <2>1 DEF Entered
    <2>2. CASE ~Taken(name)
      <3>1. PICK k \in Empty : dir' = [dir EXCEPT ![k] = [name |-> name, makers |-> <<p>>]]
        BY <1>4, <2>2 DEF Entered
      <3> QED  BY <3>1 DEF NamesInv, DirTyped
    <2> QED  BY <2>1, <2>2
  <1>7. MadeOnce'
    BY <1>3, <1>6 DEF NamesInv, MadeOnce
  <1> QED  BY <1>5, <1>7

LEMMA MovesInv ==
  ASSUME NamesInv, NEW p \in Pids, Moves(p), DirTyped', MadeOnce'
  PROVE  NamesInv'
  <1>1. ASSUME NEW q \in Pids PROVE ProcessInv(q)'
    <2>1. CASE q = p
      BY <2>1 DEF Moves
    <2>2. CASE q # p
      <3>1. Same(q)
        BY <2>2 DEF Moves
      <3> QED  BY <3>1, SameInv DEF NamesInv
    <2> QED  BY <2>1, <2>2
  <1> QED  BY <1>1 DEF NamesInv, Moves

LEMMA NamesInit == Init => NamesInv
  <1> SUFFICES ASSUME Init PROVE NamesInv
    OBVIOUS
  <1>1. /\ Nothing \in Entries /\ Nothing.name.kind = "none" /\ XXXXXX \in NameSet /\ Idle \in Calls
        /\ MaxCount \in Nat
    BY ConstantsAre DEF Nothing, XXXXXX, Name, NameSet, Kinds, Entries, Idle, In, Calls
  <1>2. DirTyped /\ MadeOnce
    BY <1>1 DEF Init, DirTyped, MadeOnce
  <1>3. CallsTyped
    BY <1>1 DEF Init, CallsTyped
  <1>4. ASSUME NEW p \in Pids PROVE ProcessInv(p)
    <2>1. call[p].of = "none" /\ ret[p] = "none" /\ given[p] = <<>>
      BY DEF Init, Idle, In
    <2>2. Len(given[p]) = 0
      BY <2>1
    <2> QED  BY <2>1, <2>2 DEF ProcessInv, AtReturn, GivenBefore
  <1> QED  BY <1>2, <1>3, <1>4 DEF NamesInv

\* A step that leaves the calls alone.
LEMMA StaysInv ==
  ASSUME NamesInv, UNCHANGED temporaries, DirTyped', MadeOnce'
  PROVE  NamesInv'
  <1>1. ASSUME NEW q \in Pids PROVE ProcessInv(q)'
    BY SameInv DEF NamesInv, Same, temporaries
  <1>2. CallsTyped'
    BY DEF NamesInv, CallsTyped, temporaries
  <1> QED  BY <1>1, <1>2 DEF NamesInv

LEMMA UnlinkTyped ==
  ASSUME NamesInv, NEW k \in 1 .. Places, Unlink(k)
  PROVE  DirTyped' /\ MadeOnce'
  <1>1. Nothing \in Entries /\ Nothing.name.kind = "none"
    BY DEF Nothing, Name, NameSet, Kinds, Entries
  <1> QED  BY <1>1 DEF NamesInv, DirTyped, MadeOnce, Unlink

LEMMA NamesNext == NamesInv /\ [Next]_vars => NamesInv'
  <1> SUFFICES ASSUME NamesInv, [Next]_vars PROVE NamesInv'
    OBVIOUS
  <1>1. ASSUME NEW p \in Pids,
               \/ Mkstemp(p) \/ MkstempInvalid(p) \/ MkstempExists(p) \/ MkstempGivesUp(p) \/ MkstempRefused(p)
               \/ Tmpnam(p) \/ TmpnamReturns(p) \/ TmpnamExists(p)
        PROVE  NamesInv'
    <2>1. UNCHANGED dir
      BY <1>1 DEF Mkstemp, MkstempInvalid, MkstempExists, MkstempGivesUp, MkstempRefused,
                  Tmpnam, TmpnamReturns, TmpnamExists
    <2>2. DirTyped' /\ MadeOnce'
      BY <2>1 DEF NamesInv, DirTyped, MadeOnce
    <2>3. Moves(p)
      BY <1>1, MkstempMoves, ReturnsMoves, MkstempExistsMoves, MkstempGivesUpMoves,
         TmpnamMoves, TmpnamReturnsMoves, TmpnamExistsMoves
    <2> QED  BY <2>2, <2>3, MovesInv
  <1>2. ASSUME NEW p \in Pids, MkstempMakes(p) PROVE NamesInv'
    BY <1>2, CreatedOnce, ReturnsMoves, MovesInv
  <1>3. ASSUME NEW p \in Pids, OpenNamed(p) PROVE NamesInv'
    BY <1>3, OpenedApart, ReturnsMoves, MovesInv
  <1>4. ASSUME NEW k \in 1 .. Places, Unlink(k) PROVE NamesInv'
    <2>1. UNCHANGED temporaries
      BY <1>4 DEF Unlink
    <2> QED  BY <1>4, <2>1, UnlinkTyped, StaysInv
  <1>5. CASE Reads \/ UNCHANGED vars
    <2>1. UNCHANGED <<dir, temporaries>>
      BY <1>5 DEF Reads, Opendir, Readdir, Closedir, vars, temporaries
    <2>2. DirTyped' /\ MadeOnce'
      BY <2>1 DEF NamesInv, DirTyped, MadeOnce
    <2> QED  BY <2>1, <2>2, StaysInv
  <1> QED  BY <1>1, <1>2, <1>3, <1>4, <1>5 DEF Next, UsesMkstemp, UsesTmpnam

\* Whatever processes do between each other's calls, a file of mkstemp() has
\* one maker, a call gives up over taken names only after all its attempts,
\* and no process is given a name by tmpnam() twice: mkstemp.c, tmpnam.c.
THEOREM OneMaker == Spec => []TemporaryNames
  <1>1. NamesInv => TemporaryNames
    <2> SUFFICES ASSUME NamesInv PROVE TemporaryNames
      OBVIOUS
    <2>1. ASSUME NEW p \in Pids PROVE IsInjective(given[p])
      <3>1. given[p] \in Seq(NameSet) /\ GivenBefore(p)
        BY CallTypes DEF NamesInv, ProcessInv
      <3>2. DOMAIN given[p] = 1 .. Len(given[p])
        BY <3>1
      <3> QED  BY <3>1, <3>2 DEF IsInjective, GivenBefore
    <2>2. ASSUME NEW p \in Pids
          PROVE  /\ ret[p] = "EEXIST" /\ call[p] = Idle =>
                       Cardinality(tried[p]) = TMP_ATTEMPTS /\ template[p] = XXXXXX
                 /\ ret[p] = "NULL" /\ call[p] = Idle => Cardinality(tried[p]) = TMP_MAX
      BY DEF NamesInv, ProcessInv, AtReturn
    <2> QED  BY <2>1, <2>2 DEF NamesInv, MadeOnce, TemporaryNames
  <1> QED  BY <1>1, NamesInit, NamesNext, PTL DEF Spec

(***************************************************************************)
(* The steps of the listing.                                               *)
(***************************************************************************)
LEMMA OpenedInv ==
  ASSUME NEW s \in SUBSET (1 .. Places)
  PROVE  Opened(s) \in Readers /\ InPlace(Opened(s)) /\ Complete(Opened(s))
  <1>1. Opened(s) \in Readers
    BY ConstantsAre DEF Opened, Dir, Readers, Nulls
  <1>2. /\ Opened(s).pos = 0 /\ Len(Opened(s).buf) = 0 /\ Len(Opened(s).got) = 0 /\ Opened(s).at = 1
        /\ Opened(s).stay = s /\ Opened(s).null = "none"
    BY DEF Opened, Dir
  <1>3. InPlace(Opened(s))
    BY <1>2 DEF InPlace, Rest, Increasing
  <1>4. Complete(Opened(s))
    <2>1. \A i \in s : i >= 1
      BY ConstantsAre
    <2> HIDE DEF Opened
    <2> QED  BY <1>2, <2>1 DEF Complete
  <1> QED  BY <1>1, <1>3, <1>4

\* The reader has nothing to do with what others enter.
LEMMA EnteringInv ==
  ASSUME ReaderInv, UNCHANGED reader, DirTyped',
         \A i \in 1 .. Places : dir[i] # Nothing => dir'[i] # Nothing
  PROVE  ReaderInv'
  <1>1. reader.stay \subseteq 1 .. Places
    BY ReaderTypes DEF ReaderInv
  <1> QED  BY <1>1 DEF ReaderInv, Present

LEMMA UnlinkInv ==
  ASSUME NamesInv, ReaderInv, NEW k \in 1 .. Places, Unlink(k)
  PROVE  ReaderInv'
  <1>1. DirTyped' /\ \A i \in 1 .. Places : i # k => dir'[i] = dir[i]
    BY UnlinkTyped DEF Unlink, NamesInv, DirTyped
  <1>2. /\ reader'.open = reader.open /\ reader'.at = reader.at /\ reader'.buf = reader.buf
        /\ reader'.pos = reader.pos /\ reader'.got = reader.got /\ reader'.null = reader.null
        /\ reader'.stay = reader.stay \ {k} /\ reader' \in Readers
    <2>1. reader' = [reader EXCEPT !.stay = reader.stay \ {k}]
      BY DEF Unlink
    <2>2. reader.stay \ {k} \in SUBSET (1 .. Places) /\ reader \in Readers
      BY ReaderTypes DEF ReaderInv
    <2> QED  BY <2>1, <2>2 DEF Readers
  <1>3. InPlace(reader')
    BY <1>2 DEF ReaderInv, InPlace, Rest
  <1>4. Complete(reader')
    <2>1. \A i : Misses(reader', i) <=> Misses(reader, i)
      BY <1>2 DEF Misses, Rest
    <2> QED  BY <1>2, <2>1 DEF ReaderInv, Complete
  <1>5. Present'
    <2>1. reader.stay \subseteq 1 .. Places
      BY ReaderTypes DEF ReaderInv
    <2> QED  BY <1>1, <1>2, <2>1 DEF ReaderInv, Present
  <1> QED  BY <1>1, <1>2, <1>3, <1>4, <1>5 DEF ReaderInv

LEMMA OpendirInv == ASSUME ReaderInv, Opendir \/ Closedir PROVE ReaderInv'
  <1> DEFINE there == (1 .. Places) \ Empty
  <1>1. reader' \in {Opened(there), Closed} /\ UNCHANGED dir
    BY DEF Opendir, Closedir
  <1>2. there \in SUBSET (1 .. Places) /\ \A i \in there : dir[i] # Nothing
    BY DEF Empty
  <1> HIDE DEF there
  <1>3. CASE reader' = Closed
    <2>1. Closed.stay = {}
      BY DEF Closed, Dir
    <2> QED  BY <1>1, <1>3, <2>1, ClosedInv DEF ReaderInv, Present, DirTyped
  <1>4. CASE reader' = Opened(there)
    <2>1. Opened(there).stay = there
      BY DEF Opened, Dir
    <2> QED  BY <1>1, <1>2, <1>4, <2>1, OpenedInv DEF ReaderInv, Present, DirTyped
  <1> QED  BY <1>1, <1>3, <1>4

LEMMA GivesInv ==
  ASSUME ReaderInv, UNCHANGED dir, NEW d \in Readers, InPlace(d), Complete(d), d.pos < Len(d.buf),
         d.stay = reader.stay, reader' = Given(d)
  PROVE  ReaderInv'
  <1>1. Given(d).stay = d.stay
    BY DEF Given, Dir
  <1> QED  BY <1>1, GivenInv DEF ReaderInv, Present, DirTyped

LEMMA ReaddirInv == ASSUME ReaderInv, Readdir PROVE ReaderInv'
  <1>1. UNCHANGED dir
    BY DEF Readdir
  <1>2. CASE ~AtEndOfBuffer
    <2>1. reader' = Given(reader) /\ reader.pos < Len(reader.buf)
      <3>1. reader.pos \in Nat /\ Len(reader.buf) \in Nat
        BY ReaderTypes DEF ReaderInv
      <3> QED  BY <1>2, <3>1 DEF Readdir, AtEndOfBuffer
    <2> QED  BY <1>1, <2>1, GivesInv DEF ReaderInv
  <1>3. ASSUME AtEndOfBuffer, NEW buf \in Getdents, reader' = Given(Refilled(buf)) PROVE ReaderInv'
    <2>1. Refilled(buf).stay = reader.stay
      BY DEF Refilled, Dir
    <2>2. /\ Refilled(buf) \in Readers /\ InPlace(Refilled(buf)) /\ Complete(Refilled(buf))
          /\ Refilled(buf).pos < Len(Refilled(buf).buf)
      BY <1>3, RefilledInv
    <2> QED  BY <1>1, <1>3, <2>1, <2>2, GivesInv
  <1>4. ASSUME AtEndOfBuffer, Ahead = {}, reader' = [reader EXCEPT !.null = "end"] PROVE ReaderInv'
    <2>1. /\ reader'.open = reader.open /\ reader'.at = reader.at /\ reader'.buf = reader.buf
          /\ reader'.pos = reader.pos /\ reader'.got = reader.got /\ reader'.stay = reader.stay
          /\ reader'.null = "end" /\ reader' \in Readers
      BY <1>4 DEF ReaderInv, Readers, Nulls
    <2>2. reader.stay \subseteq Range(reader.got)
      BY <1>4, MissedIsAhead
    <2>3. InPlace(reader')
      BY <2>1 DEF ReaderInv, InPlace, Rest
    <2>4. Complete(reader')
      BY <2>1, <2>2 DEF Complete, Misses
    <2> QED  BY <1>1, <2>1, <2>3, <2>4 DEF ReaderInv, Present, DirTyped
  <1>5. ASSUME AtEndOfBuffer, reader' = Failed(reader) PROVE ReaderInv'
    <2>1. /\ reader'.open = reader.open /\ reader'.at = reader.at /\ reader'.buf = reader.buf
          /\ reader'.pos = reader.pos /\ reader'.got = reader.got /\ reader'.stay = reader.stay
          /\ reader'.null = "error" /\ reader' \in Readers
      BY <1>5 DEF Failed, ReaderInv, Readers, Nulls
    <2>2. InPlace(reader')
      BY <2>1 DEF ReaderInv, InPlace, Rest
    <2>3. Complete(reader')
      <3>1. \A i : Misses(reader', i) <=> Misses(reader, i)
        BY <2>1 DEF Misses, Rest
      <3> QED  BY <2>1, <3>1 DEF ReaderInv, Complete
    <2> QED  BY <1>1, <2>1, <2>2, <2>3 DEF ReaderInv, Present, DirTyped
  <1> QED  BY <1>2, <1>3, <1>4, <1>5 DEF Readdir

LEMMA ReaderNext == NamesInv /\ ReaderInv /\ [Next]_vars => ReaderInv'
  <1> SUFFICES ASSUME NamesInv, ReaderInv, [Next]_vars PROVE ReaderInv'
    OBVIOUS
  <1>1. CASE UNCHANGED <<dir, reader>>
    BY <1>1 DEF ReaderInv, Present, DirTyped
  <1>2. ASSUME NEW p \in Pids, UsesMkstemp(p) \/ UsesTmpnam(p) PROVE ReaderInv'
    <2>1. CASE MkstempMakes(p)
      <3>1. UNCHANGED reader
        BY <2>1 DEF MkstempMakes
      <3> QED  BY <2>1, <3>1, CreatedOnce, EnteringInv
    <2>2. CASE OpenNamed(p)
      <3>1. UNCHANGED reader
        BY <2>2 DEF OpenNamed
      <3> QED  BY <2>2, <3>1, OpenedApart, EnteringInv
    <2>3. CASE ~MkstempMakes(p) /\ ~OpenNamed(p)
      <3>1. UNCHANGED <<dir, reader>>
        BY <1>2, <2>3 DEF UsesMkstemp, UsesTmpnam, Mkstemp, MkstempInvalid, MkstempExists, MkstempGivesUp,
                          MkstempRefused, Tmpnam, TmpnamReturns, TmpnamExists
      <3> QED  BY <1>1, <3>1
    <2> QED  BY <2>1, <2>2, <2>3
  <1>3. ASSUME NEW k \in 1 .. Places, Unlink(k) PROVE ReaderInv'
    BY <1>3, UnlinkInv
  <1>4. CASE Reads
    BY <1>4, OpendirInv, ReaddirInv DEF Reads
  <1>5. CASE UNCHANGED vars
    BY <1>1, <1>5 DEF vars
  <1> QED  BY <1>2, <1>3, <1>4, <1>5 DEF Next

LEMMA ReaderInit == Init => ReaderInv
  <1> SUFFICES ASSUME Init PROVE ReaderInv
    OBVIOUS
  <1>1. reader = Closed /\ Closed.stay = {}
    BY DEF Init, Closed, Dir
  <1> QED  BY <1>1, NamesInit, ClosedInv DEF NamesInv, ReaderInv, Present

\* The listing gives no place twice, and at its end every entry that was there
\* all the time, whatever came and went between two calls: dirent.c.
THEOREM Listing == Spec => []ListsAll
  <1>1. ReaderInv => ListsAll
    <2> SUFFICES ASSUME ReaderInv PROVE ListsAll
      OBVIOUS
    <2>1. /\ Increasing(reader.got) /\ DOMAIN reader.got = 1 .. Len(reader.got) /\ Len(reader.got) \in Nat
          /\ \A i \in 1 .. Len(reader.got) : reader.got[i] \in Nat
      BY ReaderTypes DEF ReaderInv, InPlace
    <2>2. ASSUME NEW i \in 1 .. Len(reader.got), NEW j \in 1 .. Len(reader.got),
                 reader.got[i] = reader.got[j]
          PROVE  i = j
      <3>1. ~(i < j) /\ ~(j < i)
        BY <2>1, <2>2 DEF Increasing
      <3> QED  BY <2>1, <3>1
    <2>3. IsInjective(reader.got)
      BY <2>1, <2>2 DEF IsInjective
    <2> QED  BY <2>3 DEF ReaderInv, Complete, ListsAll
  <1>2. NamesInv /\ ReaderInv /\ [Next]_vars => NamesInv' /\ ReaderInv'
    BY NamesNext, ReaderNext
  <1> QED  BY <1>1, <1>2, NamesInit, ReaderInit, PTL DEF Spec
===============================================================================
