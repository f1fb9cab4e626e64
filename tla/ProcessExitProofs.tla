--------------------------- MODULE ProcessExitProofs ---------------------------
(***************************************************************************)
(* The safety of ProcessExit for every set of handlers, every size of the  *)
(* tables and every number of prints and of calls of system().             *)
(***************************************************************************)
EXTENDS ProcessExit, FiniteSetTheorems, TLAPS

(***************************************************************************)
(* The inductive invariant.                                                *)
(***************************************************************************)
Phases == {"none", "main", "exec", "fini", "handlers", "gone"}
Place == [phase : Phases, inside : BOOLEAN, left : 0 .. MaxFini]

Typed ==
    /\ registered \in Seq(Handlers) /\ Len(registered) <= ATEXIT_MAX
    /\ fini \in 0 .. MaxFini
    /\ unwritten \in Nat /\ written \in Nat /\ printed \in 0 .. MaxPrints
    /\ failed \in BOOLEAN
    /\ at \in [Processes -> Place]
    /\ running \in Processes
    /\ ran \in [Handlers -> Seq(Processes)]
    /\ finiRan \in [1 .. MaxFini -> Nat]
    /\ accepted \subseteq Handlers

\* What has been accepted is either registered, once, or called, once.
Shared(reg, called, taken) ==
    /\ \A i, j \in 1 .. Len(reg) : reg[i] = reg[j] => i = j
    /\ \A i \in 1 .. Len(reg) : reg[i] \in taken /\ called[reg[i]] = <<>>
    /\ \A h \in Handlers \ taken : called[h] = <<>>
    /\ \A h \in taken : (\A i \in 1 .. Len(reg) : reg[i] # h) => Len(called[h]) = 1

\* The table is either untouched or one process's to go through, and the
\* functions it has yet to call have not been called.
FiniOnce ==
    /\ fini > 0 => \A i \in 1 .. MaxFini : finiRan[i] = 0
    /\ fini > 0 => \A p \in Processes : at[p].left = 0
    /\ \A i \in 1 .. MaxFini : finiRan[i] <= 1
    /\ \A p \in Processes, i \in 1 .. MaxFini : i <= at[p].left => finiRan[i] = 0
    /\ at["parent"].left = 0 \/ at["child"].left = 0

\* Where the two can be: a child runs only in the middle of a call of the
\* parent, and nothing is left behind by a parent that is gone.
Stands ==
    /\ at["parent"].phase \in {"main", "fini", "handlers", "gone"}
    /\ at["child"].phase # "main"
    /\ \A p \in Processes : at[p].phase \in {"none", "main", "exec", "gone"} => ~at[p].inside
    /\ running = "child" => at["parent"].phase # "gone"
    /\ at["parent"].phase = "gone" => registered = <<>> /\ (~failed => unwritten = 0)

\* What was printed is written or waits in a buffer, as long as no write fails;
\* when one has, the buffers still hold no more than was printed.
Counted ==
    /\ unwritten <= printed
    /\ ~failed => written + unwritten = printed

Inv == Typed /\ Shared(registered, ran, accepted) /\ FiniOnce /\ Stands /\ Counted

LEMMA ConstantsAre == {ATEXIT_MAX, MaxFini, MaxPrints, MaxSystem} \subseteq Nat
  BY ProcessExitAssumption

LEMMA InvInit == Init => Inv
  <1> SUFFICES ASSUME Init PROVE Inv
    OBVIOUS
  <1>1. Typed
    <2>1. at \in [Processes -> Place]
      BY ConstantsAre DEF Init, Place, Phases, Processes, In
    <2>2. ran \in [Handlers -> Seq(Processes)] /\ finiRan \in [1 .. MaxFini -> Nat]
      BY DEF Init
    <2>3. registered \in Seq(Handlers) /\ Len(registered) <= ATEXIT_MAX
      BY ConstantsAre DEF Init
    <2>4. /\ fini \in 0 .. MaxFini /\ unwritten \in Nat /\ written \in Nat
          /\ printed \in 0 .. MaxPrints /\ failed \in BOOLEAN
      <3>1. 0 \in 0 .. MaxPrints
        BY ConstantsAre
      <3> QED  BY <3>1 DEF Init
    <2>5. running \in Processes /\ accepted \subseteq Handlers
      BY DEF Init, Processes
    <2> QED  BY <2>1, <2>2, <2>3, <2>4, <2>5 DEF Typed
  <1>2. Shared(registered, ran, accepted)
    BY DEF Init, Shared
  <1>3. FiniOnce
    BY ConstantsAre DEF Init, FiniOnce, Processes, In
  <1>4. Stands
    BY DEF Init, Stands, Processes, In
  <1>5. Counted
    BY DEF Init, Counted
  <1> QED  BY <1>1, <1>2, <1>3, <1>4, <1>5 DEF Inv

(***************************************************************************)
(* One lemma for each action.                                              *)
(***************************************************************************)
LEMMA AtexitStep == ASSUME Inv, NEW h \in Handlers, Atexit(h) PROVE Inv'
  <1> USE DEF Inv
  <1>1. /\ registered' = Append(registered, h) /\ Len(registered) < ATEXIT_MAX
        /\ registered' \in Seq(Handlers) /\ Len(registered') = Len(registered) + 1
        /\ \A i \in 1 .. Len(registered) : registered'[i] = registered[i]
        /\ registered'[Len(registered) + 1] = h
    BY DEF Atexit, HasPlace, Typed
  <1>2. Typed'
    BY <1>1, ConstantsAre DEF Atexit, Typed
  <1>3. Shared(registered, ran, accepted)'
    <2> DEFINE n == Len(registered)
    <2>1. h \notin accepted /\ accepted' = accepted \cup {h} /\ ran' = ran /\ ran[h] = <<>>
      BY DEF Atexit, Shared
    <2>2. \A i \in 1 .. n : registered[i] # h
      BY <2>1 DEF Shared
    <2>3. n \in Nat /\ 1 .. Len(registered') = (1 .. n) \cup {n + 1}
      BY <1>1 DEF Typed
    <2> HIDE DEF n
    <2>4. \A i, j \in 1 .. Len(registered') : registered'[i] = registered'[j] => i = j
      BY <1>1, <2>2, <2>3 DEF Shared, n
    <2>5. \A i \in 1 .. Len(registered') : registered'[i] \in accepted' /\ ran'[registered'[i]] = <<>>
      BY <1>1, <2>1, <2>3 DEF Shared, n
    <2>6. \A g \in Handlers \ accepted' : ran'[g] = <<>>
      BY <2>1 DEF Shared
    <2>7. ASSUME NEW g \in accepted', \A i \in 1 .. Len(registered') : registered'[i] # g
          PROVE  Len(ran'[g]) = 1
      <3>1. g # h /\ g \in accepted
        BY <1>1, <2>1, <2>3, <2>7 DEF n
      <3>2. \A i \in 1 .. n : registered[i] # g
        BY <1>1, <2>3, <2>7 DEF n
      <3> QED  BY <2>1, <3>1, <3>2 DEF Shared, n
    <2> QED  BY <2>4, <2>5, <2>6, <2>7 DEF Shared
  <1>4. FiniOnce'
    BY DEF Atexit, FiniOnce
  <1>5. Stands'
    BY DEF Atexit, UserCode, here, Stands, Processes, Typed
  <1>6. Counted'
    BY DEF Atexit, Counted
  <1> QED  BY <1>2, <1>3, <1>4, <1>5, <1>6

\* What a flush of n prints leaves, and what it may lose: nothing but when it fails.
LEMMA FlushLeaves ==
  ASSUME Typed, NEW n \in Nat, Flush(n)
  PROVE  /\ unwritten' \in 0 .. n /\ written' \in Nat /\ failed' \in BOOLEAN
         /\ failed => failed'
         /\ ~failed' => unwritten' = 0 /\ written' = written + n
  <1>1. written \in Nat /\ failed \in BOOLEAN
    BY DEF Typed
  <1> PICK kept \in 0 .. n :
        \E some \in 0 .. kept :
           /\ unwritten' = kept
           /\ written' = written + (n - kept) + some
           /\ failed' = (failed \/ kept > 0)
    BY DEF Flush, Flushed
  <1> PICK some \in 0 .. kept :
        /\ unwritten' = kept
        /\ written' = written + (n - kept) + some
        /\ failed' = (failed \/ kept > 0)
    OBVIOUS
  <1>2. /\ unwritten' = kept
        /\ written' = written + (n - kept) + some
        /\ failed' = (failed \/ kept > 0)
    OBVIOUS
  <1>3. failed' \in BOOLEAN /\ (failed => failed') /\ (~failed' => ~(kept > 0))
    BY <1>1, <1>2
  <1>4. unwritten' \in 0 .. n /\ written' \in Nat
    BY <1>1, <1>2
  <1>5. ASSUME ~failed' PROVE unwritten' = 0 /\ written' = written + n
    BY <1>1, <1>2, <1>3, <1>5
  <1> QED  BY <1>3, <1>4, <1>5

LEMMA PrintfStep == ASSUME Inv, Printf PROVE Inv'
  <1> USE DEF Inv
  <1>0. /\ unwritten' \in Nat /\ written' \in Nat /\ failed' \in BOOLEAN /\ (failed => failed')
        /\ unwritten' <= unwritten + 1
        /\ ~failed' => written' + unwritten' = written + unwritten + 1
    <2>0. unwritten \in Nat /\ written \in Nat /\ failed \in BOOLEAN
      BY DEF Typed
    <2>1. CASE unwritten' = unwritten + 1 /\ UNCHANGED <<written, failed>>
      BY <2>0, <2>1
    <2>2. CASE Flush(unwritten + 1)
      BY <2>0, <2>2, FlushLeaves
    <2>3. CASE failed /\ unwritten > 0 /\ Flush(unwritten)
      BY <2>0, <2>3, FlushLeaves
    <2> QED  BY <2>1, <2>2, <2>3 DEF Printf
  <1>1. Typed'
    BY <1>0, ConstantsAre DEF Printf, Typed
  <1>2. Shared(registered, ran, accepted)'
    BY DEF Printf, Shared
  <1>3. FiniOnce'
    BY DEF Printf, FiniOnce
  <1>4. Stands'
    BY DEF Printf, UserCode, here, Stands, Processes, Typed
  <1>5. Counted'
    <2>1. printed' = printed + 1 /\ printed \in Nat /\ unwritten \in Nat /\ written \in Nat
      BY ConstantsAre DEF Printf, Typed
    <2>2. unwritten <= printed /\ (~failed => written + unwritten = printed)
      BY DEF Counted
    <2>3. unwritten' <= printed'
      BY <1>0, <2>1, <2>2
    <2>4. ASSUME ~failed' PROVE written' + unwritten' = printed'
      <3>1. ~failed
        BY <1>0, <2>4
      <3> QED  BY <1>0, <2>1, <2>2, <2>4, <3>1
    <2> QED  BY <2>3, <2>4 DEF Counted
  <1> QED  BY <1>1, <1>2, <1>3, <1>4, <1>5

\* exit(), called by the program or by a child that cannot exec.
LEMMA BeginsExit ==
  ASSUME Inv, at["parent"].phase = "gone" => running # "parent",
         at' = [at EXCEPT ![running] = In("fini", FALSE, fini)], fini' = FiniRead(fini),
         UNCHANGED <<registered, unwritten, running, history>>
  PROVE  Inv'
  <1> USE DEF Inv
  <1>1. Typed'
    BY ConstantsAre DEF Typed, FiniRead, history, In, Place, Phases
  <1>2. Shared(registered, ran, accepted)'
    BY DEF Shared, history
  <1>3. FiniOnce'
    <2>1. fini' = 0 /\ finiRan' = finiRan
      BY DEF FiniRead, history
    <2>2. \A p \in Processes : at'[p].left = IF p = running THEN fini ELSE at[p].left
      BY DEF Typed, In
    <2>3. CASE fini > 0
      <3>1. \A p \in Processes : at[p].left = 0
        BY <2>3 DEF FiniOnce
      <3>2. \A i \in 1 .. MaxFini : finiRan'[i] = 0
        BY <2>1, <2>3 DEF FiniOnce
      <3>3. at'["parent"].left = 0 \/ at'["child"].left = 0
        BY <2>2, <3>1 DEF Processes, Typed
      <3>4. \A i \in 1 .. MaxFini : finiRan'[i] <= 1
        BY <3>2
      <3>5. ~(fini' > 0)
        BY <2>1
      <3> QED  BY <3>2, <3>3, <3>4, <3>5 DEF FiniOnce
    <2>4. CASE ~(fini > 0)
      <3>1. fini = 0
        BY <2>4, ConstantsAre DEF Typed
      <3> QED  BY <2>1, <2>2, <3>1 DEF FiniOnce, Processes, Typed
    <2> QED  BY <2>3, <2>4
  <1>4. Stands'
    BY DEF Stands, Processes, Typed, In
  <1>5. Counted'
    BY DEF Counted, history
  <1> QED  BY <1>1, <1>2, <1>3, <1>4, <1>5

LEMMA ExitStep == ASSUME Inv, Exit PROVE Inv'
  <1>1. at["parent"].phase = "gone" => running # "parent"
    BY DEF Exit, UserCode, here, Inv, Stands, Processes
  <1> QED  BY <1>1, BeginsExit DEF Exit

LEMMA ExecFailsStep == ASSUME Inv, ExecFails PROVE Inv'
  <1>1. at["parent"].phase = "gone" => running # "parent"
    BY DEF ExecFails, here
  <1> QED  BY <1>1, BeginsExit DEF ExecFails

LEMMA ReturnStep == ASSUME Inv, Return PROVE Inv'
  <1> USE DEF Inv
  <1>1. Typed'
    BY DEF Return, Typed, memory, history, Place, In, here
  <1>2. Shared(registered, ran, accepted)'
    BY DEF Return, Shared, memory, history
  <1>3. \A p \in Processes : at'[p].left = at[p].left /\ at'[p].phase = at[p].phase
    BY DEF Return, Typed, Place, In, here
  <1>4. FiniOnce'
    BY <1>3 DEF Return, FiniOnce, memory, history, Processes
  <1>5. Stands'
    BY <1>3 DEF Return, Stands, memory, history, Processes, Typed, Place, In, here
  <1>6. Counted'
    BY DEF Return, Counted, memory, history
  <1> QED  BY <1>1, <1>2, <1>4, <1>5, <1>6

LEMMA SystemStep == ASSUME Inv, System PROVE Inv'
  <1> USE DEF Inv
  <1>1. Typed'
    BY ConstantsAre DEF System, Typed, memory, In, Place, Phases, Processes
  <1>2. Shared(registered, ran, accepted)'
    BY DEF System, Shared, memory
  <1>3. at'["parent"] = at["parent"] /\ at'["child"] = In("exec", FALSE, 0)
    BY DEF System, Typed, Processes
  <1>4. FiniOnce'
    BY <1>3, ConstantsAre DEF System, FiniOnce, memory, Processes, In
  <1>5. Stands'
    BY <1>3 DEF System, UserCode, here, Stands, memory, Processes, In
  <1>6. Counted'
    BY DEF System, Counted, memory
  <1> QED  BY <1>1, <1>2, <1>4, <1>5, <1>6

LEMMA CallFiniStep == ASSUME Inv, CallFini PROVE Inv'
  <1> USE DEF Inv
  <1> DEFINE k == at[running].left
  <1>1. /\ k \in 1 .. MaxFini /\ running \in Processes /\ at[running].phase = "fini"
        /\ at' = [at EXCEPT ![running] = In("fini", TRUE, k - 1)]
        /\ finiRan' = [finiRan EXCEPT ![k] = @ + 1]
    BY ConstantsAre DEF CallFini, Calling, here, Typed, Place
  <1>2. \A p \in Processes : at'[p].left = IF p = running THEN k - 1 ELSE at[p].left
    BY <1>1 DEF Typed, In
  <1> HIDE DEF k
  <1>3. Typed'
    <2>1. In("fini", TRUE, k - 1) \in Place
      BY <1>1, ConstantsAre DEF In, Place, Phases
    <2>2. at' \in [Processes -> Place]
      BY <1>1, <2>1 DEF Typed
    <2>3. finiRan' \in [1 .. MaxFini -> Nat]
      <3>1. finiRan[k] + 1 \in Nat
        <4>1. k \in 1 .. MaxFini /\ finiRan \in [1 .. MaxFini -> Nat]
          BY <1>1 DEF Typed
        <4>2. finiRan[k] \in Nat
          BY <4>1
        <4> QED  BY <4>2
      <3>2. finiRan' = [finiRan EXCEPT ![k] = finiRan[k] + 1]
        BY <1>1
      <3> QED  BY <1>1, <3>1, <3>2 DEF Typed
    <2> QED  BY <2>2, <2>3 DEF CallFini, Typed, memory
  <1>4. Shared(registered, ran, accepted)'
    BY DEF CallFini, Shared, memory
  <1>5. FiniOnce'
    <2>1. fini = 0 /\ fini' = 0
      BY <1>1, ConstantsAre DEF CallFini, FiniOnce, memory, Typed, k
    <2>2. finiRan[k] = 0 /\ \A i \in 1 .. MaxFini : finiRan'[i] = IF i = k THEN 1 ELSE finiRan[i]
      BY <1>1, ConstantsAre DEF FiniOnce, Typed, k
    <2>3. \A p \in Processes \ {running} : at[p].left = 0
      BY <1>1 DEF FiniOnce, Processes, k
    <2>4. \A i \in 1 .. MaxFini : finiRan'[i] <= 1
      BY <2>2 DEF FiniOnce
    <2>5. ASSUME NEW p \in Processes, NEW i \in 1 .. MaxFini, i <= at'[p].left
          PROVE  finiRan'[i] = 0
      <3>1. p = running /\ i <= k - 1
        BY <1>2, <2>3, <2>5
      <3>2. i <= k /\ i # k
        BY <1>1, <3>1
      <3> QED  BY <1>1, <2>2, <3>2 DEF FiniOnce, k
    <2>6. at'["parent"].left = 0 \/ at'["child"].left = 0
      BY <1>1, <1>2, <2>3 DEF Processes
    <2> QED  BY <2>1, <2>4, <2>5, <2>6 DEF FiniOnce
  <1>6. Stands'
    BY <1>1 DEF CallFini, Stands, memory, Processes, Typed, In
  <1>7. Counted'
    BY DEF CallFini, Counted, memory
  <1> QED  BY <1>3, <1>4, <1>5, <1>6, <1>7

LEMMA FiniDoneStep == ASSUME Inv, FiniDone PROVE Inv'
  <1> USE DEF Inv
  <1>1. Typed'
    BY ConstantsAre DEF FiniDone, Typed, memory, history, Place, Phases, In
  <1>2. Shared(registered, ran, accepted)'
    BY DEF FiniDone, Shared, memory, history
  <1>3. \A p \in Processes : at'[p].left = at[p].left /\ at'[p].inside = at[p].inside
    BY DEF FiniDone, Calling, here, Typed, Place, In
  <1>4. FiniOnce'
    BY <1>3 DEF FiniDone, FiniOnce, memory, history, Processes
  <1>5. Stands'
    BY <1>3 DEF FiniDone, Calling, here, Stands, memory, history, Processes, Typed, Place, In
  <1>6. Counted'
    BY DEF FiniDone, Counted, memory, history
  <1> QED  BY <1>1, <1>2, <1>4, <1>5, <1>6

LEMMA CallHandlerStep == ASSUME Inv, CallHandler PROVE Inv'
  <1> USE DEF Inv
  <1> DEFINE n == Len(registered)
             last == registered[n]
  <1>1. n \in Nat \ {0} /\ last \in Handlers
    BY DEF CallHandler, Typed
  <1>2. /\ registered' \in Seq(Handlers) /\ Len(registered') = n - 1
        /\ \A i \in 1 .. n - 1 : registered'[i] = registered[i]
    <2>1. registered \in Seq(Handlers) /\ registered' = SubSeq(registered, 1, n - 1)
      BY DEF CallHandler, Fewer, Typed
    <2>2. n = Len(registered)
      OBVIOUS
    <2> HIDE DEF n
    <2> QED  BY <1>1, <2>1, <2>2
  <1>3. last \in accepted /\ ran[last] = <<>> /\ ran' = [ran EXCEPT ![last] = <<running>>]
    <2>1. last \in accepted /\ ran[last] = <<>>
      BY <1>1 DEF Shared
    <2>2. ran' = [ran EXCEPT ![last] = IF Len(@) < 2 THEN Append(@, running) ELSE @]
      BY DEF CallHandler, LastOf
    <2>3. Len(ran[last]) < 2 /\ Append(ran[last], running) = <<running>>
      BY <2>1
    <2> QED  BY <2>1, <2>2, <2>3
  <1>4. \A g \in Handlers : ran'[g] = IF g = last THEN <<running>> ELSE ran[g]
    BY <1>3 DEF Typed
  <1> HIDE DEF n, last
  <1>5. Typed'
    <2>1. ran' \in [Handlers -> Seq(Processes)]
      BY <1>3 DEF Typed
    <2>2. Len(registered') <= ATEXIT_MAX
      BY <1>1, <1>2, ConstantsAre DEF Typed, n
    <2>3. at' \in [Processes -> Place]
      BY DEF CallHandler, Typed, Place, In, here
    <2> QED  BY <1>2, <2>1, <2>2, <2>3 DEF CallHandler, Typed
  <1>6. Shared(registered, ran, accepted)'
    <2>1. accepted' = accepted /\ accepted \subseteq Handlers
      BY DEF CallHandler, Typed
    <2>2. \A i \in 1 .. n - 1 : i \in 1 .. n /\ registered[i] # last
      BY <1>1 DEF Shared, n, last
    <2>3. \A i, j \in 1 .. Len(registered') : registered'[i] = registered'[j] => i = j
      BY <1>2, <2>2 DEF Shared, n
    <2>4. \A i \in 1 .. Len(registered') : registered'[i] \in accepted' /\ ran'[registered'[i]] = <<>>
      BY <1>2, <1>4, <2>1, <2>2 DEF Shared, n
    <2>5. \A g \in Handlers \ accepted' : ran'[g] = <<>>
      BY <1>3, <1>4, <2>1 DEF Shared
    <2>6. ASSUME NEW g \in accepted', \A i \in 1 .. Len(registered') : registered'[i] # g
          PROVE  Len(ran'[g]) = 1
      <3>1. CASE g = last
        BY <1>4, <2>1, <3>1
      <3>2. CASE g # last
        <4>1. \A i \in 1 .. n : i = n \/ i \in 1 .. n - 1
          BY <1>1
        <4>2. \A i \in 1 .. n : registered[i] # g
          BY <1>2, <2>6, <3>2, <4>1 DEF last
        <4> QED  BY <1>4, <2>1, <3>2, <4>2 DEF Shared, n
      <3> QED  BY <3>1, <3>2
    <2> QED  BY <2>3, <2>4, <2>5, <2>6 DEF Shared
  <1>7. \A p \in Processes : at'[p].left = at[p].left /\ at'[p].phase = at[p].phase
    BY DEF CallHandler, Typed, Place, In, here
  <1>8. FiniOnce'
    BY <1>7 DEF CallHandler, FiniOnce, Processes
  <1>9. Stands'
    BY <1>7 DEF CallHandler, here, Stands, Processes, Typed, Place, In
  <1>10. Counted'
    BY DEF CallHandler, Counted
  <1> QED  BY <1>5, <1>6, <1>8, <1>9, <1>10

\* A process that is gone: the parent with nothing left, or its child.
LEMMA GoneStands ==
  ASSUME Inv, Gone, ~at[running].inside, registered' = registered, fini' = fini, finiRan' = finiRan,
         running = "parent" => registered = <<>> /\ (~failed' => unwritten' = 0),
         at["parent"].phase = "gone" => (~failed' => unwritten' = 0)
  PROVE  FiniOnce' /\ Stands' /\ (at' \in [Processes -> Place]) /\ running' \in Processes
  <1> USE DEF Inv
  <1>1. \A p \in Processes : at'[p].left = at[p].left /\ at'[p].inside = at[p].inside
    BY DEF Gone, Typed, Place, In, here
  <1>2. \A p \in Processes : at'[p].phase = IF p = running THEN "gone" ELSE at[p].phase
    BY DEF Gone, Typed, Place, In, here
  <1>3. at' \in [Processes -> Place]
    BY DEF Gone, Typed, Place, Phases, In, here
  <1>4. FiniOnce'
    BY <1>1 DEF FiniOnce, Processes
  <1>5. Stands'
    BY <1>1, <1>2 DEF Gone, Stands, Processes, Typed
  <1> QED  BY <1>3, <1>4, <1>5 DEF Gone, Processes

LEMMA FlushAndGoStep == ASSUME Inv, FlushAndGo PROVE Inv'
  <1> USE DEF Inv
  <1>0. /\ unwritten' \in 0 .. unwritten /\ written' \in Nat /\ failed' \in BOOLEAN
        /\ failed => failed'
        /\ ~failed' => unwritten' = 0 /\ written' = written + unwritten
    BY FlushLeaves DEF FlushAndGo, Typed
  <1>1. FiniOnce' /\ Stands' /\ at' \in [Processes -> Place] /\ running' \in Processes
    BY <1>0, GoneStands DEF FlushAndGo, here
  <1>2. Typed'
    <2>1. unwritten \in Nat
      BY DEF Typed
    <2>2. unwritten' \in Nat
      BY <1>0, <2>1
    <2> QED  BY <1>0, <1>1, <2>2 DEF FlushAndGo, Typed
  <1>3. Shared(registered, ran, accepted)'
    BY DEF FlushAndGo, Shared
  <1>4. Counted'
    <2>1. printed' = printed /\ printed \in Nat /\ unwritten \in Nat /\ written \in Nat
      BY ConstantsAre DEF FlushAndGo, Typed
    <2>2. unwritten <= printed /\ (~failed => written + unwritten = printed)
      BY DEF Counted
    <2>3. unwritten' <= printed'
      BY <1>0, <2>1, <2>2
    <2>4. ASSUME ~failed' PROVE written' + unwritten' = printed'
      <3>1. ~failed
        BY <1>0, <2>4
      <3> QED  BY <1>0, <2>1, <2>2, <2>4, <3>1
    <2> QED  BY <2>3, <2>4 DEF Counted
  <1> QED  BY <1>1, <1>2, <1>3, <1>4

LEMMA ExecStep == ASSUME Inv, Exec PROVE Inv'
  <1> USE DEF Inv
  <1>1. running # "parent" /\ ~at[running].inside
    BY DEF Exec, here, Stands, Typed
  <1>2. FiniOnce' /\ Stands' /\ at' \in [Processes -> Place] /\ running' \in Processes
    BY <1>1, GoneStands DEF Exec, memory, history, Stands
  <1>3. Typed'
    BY <1>2 DEF Exec, Typed, memory, history
  <1>4. Shared(registered, ran, accepted)'
    BY DEF Exec, Shared, memory, history
  <1>5. Counted'
    BY DEF Exec, Counted, memory, history
  <1> QED  BY <1>2, <1>3, <1>4, <1>5

LEMMA InvNext == Inv /\ [Next]_vars => Inv'
  <1> SUFFICES ASSUME Inv, [Next]_vars PROVE Inv'
    OBVIOUS
  <1>1. ASSUME NEW h \in Handlers, Atexit(h) PROVE Inv'
    BY <1>1, AtexitStep
  <1>2. CASE UNCHANGED vars
    BY <1>2 DEF Inv, Typed, Shared, FiniOnce, Stands, Counted, vars, memory, history
  <1> QED
    BY <1>1, <1>2, PrintfStep, ExitStep, ReturnStep, SystemStep, CallFiniStep, FiniDoneStep,
       CallHandlerStep, FlushAndGoStep, ExecStep, ExecFailsStep
       DEF Next, Ended

LEMMA InvAlways == Spec => []Inv
  BY InvInit, InvNext, PTL DEF Spec

(***************************************************************************)
(* The properties the runs check.                                          *)
(***************************************************************************)
LEMMA InvTypeOK == Inv => TypeOK
  <1> SUFFICES ASSUME Inv PROVE TypeOK
    OBVIOUS
  <1>1. registered \in UNION {[1 .. n -> Handlers] : n \in 0 .. ATEXIT_MAX}
    <2>1. Len(registered) \in 0 .. ATEXIT_MAX /\ registered \in [1 .. Len(registered) -> Handlers]
      BY ConstantsAre DEF Inv, Typed
    <2> QED  BY <2>1
  <1>2. unwritten \in 0 .. MaxPrints
    BY ConstantsAre DEF Inv, Typed, Counted
  <1> QED  BY <1>1, <1>2 DEF Inv, Typed, TypeOK, Place, Phases

LEMMA InvCalledOnce == Inv => CalledOnce
  <1> SUFFICES ASSUME Inv PROVE CalledOnce
    OBVIOUS
  <1>1. ASSUME NEW h \in Handlers
        PROVE  Len(ran[h]) + Cardinality({i \in DOMAIN registered : registered[i] = h})
                   = IF h \in accepted THEN 1 ELSE 0
    <2> DEFINE places == {i \in DOMAIN registered : registered[i] = h}
    <2>1. DOMAIN registered = 1 .. Len(registered)
      BY DEF Inv, Typed
    <2>2. CASE \E i \in 1 .. Len(registered) : registered[i] = h
      <3>1. PICK i \in 1 .. Len(registered) : registered[i] = h
        BY <2>2
      <3>2. places = {i}
        BY <2>1, <3>1 DEF Inv, Shared
      <3>3. Cardinality(places) = 1
        BY <3>2, FS_Singleton
      <3>4. h \in accepted /\ ran[h] = <<>>
        BY <3>1 DEF Inv, Shared
      <3> QED  BY <3>3, <3>4
    <2>3. CASE \A i \in 1 .. Len(registered) : registered[i] # h
      <3>1. places = {}
        BY <2>1, <2>3
      <3>2. Cardinality(places) = 0
        BY <3>1, FS_EmptySet
      <3>3. CASE h \in accepted
        <4>1. Len(ran[h]) = 1
          BY <2>3, <3>3 DEF Inv, Shared
        <4> QED  BY <3>2, <3>3, <4>1
      <3>4. CASE h \notin accepted
        <4>1. ran[h] = <<>>
          BY <3>4 DEF Inv, Shared
        <4> QED  BY <3>2, <3>4, <4>1
      <3> QED  BY <3>3, <3>4
    <2> QED  BY <2>2, <2>3
  <1>2. \A i \in 1 .. MaxFini : finiRan[i] <= 1
    BY DEF Inv, FiniOnce
  <1> QED  BY <1>1, <1>2 DEF CalledOnce

LEMMA InvNothingLeft == Inv => NothingLeft
  BY DEF Inv, Stands, Counted, Typed, NothingLeft

\* The values stay in their types, whatever the program's functions do.
THEOREM ExitTypes == Spec => []TypeOK
  BY InvAlways, InvTypeOK, PTL

\* Every handler atexit() took is registered or has been called, once; no fini
\* function is called twice.
THEOREM EachOnce == Spec => []CalledOnce
  BY InvAlways, InvCalledOnce, PTL

\* A parent that is gone has called all that was registered, by a handler too,
\* and written all that was printed, once, unless the kernel refused a write or cut
\* one short: exit() does not look at what its flushes return.
THEOREM AllDone == Spec => []NothingLeft
  BY InvAlways, InvNothingLeft, PTL
===============================================================================
