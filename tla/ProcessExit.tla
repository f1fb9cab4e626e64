----------------------------- MODULE ProcessExit -----------------------------
(***************************************************************************)
(* The end of a process in stdlib.c: exit() runs the functions of the      *)
(* module's fini table, then those given to atexit() and on_exit(), last   *)
(* one first, then flushes stdout and stderr and is gone.  The functions   *)
(* are the program's own: they may register more of them, print, call      *)
(* system() and even exit().                                               *)
(*                                                                         *)
(* system() runs a child with vfork(): it is on the parent's memory, and   *)
(* the parent stands still, until the child execs or is gone.  A child     *)
(* that cannot exec calls exit().                                          *)
(***************************************************************************)
EXTENDS Integers, Sequences, FiniteSets

CONSTANTS
    Handlers,       \* functions to register, each once
    ATEXIT_MAX,     \* how many may be registered at a time
    MaxFini,        \* bound: no table has more functions than this
    MaxPrints,      \* bound on the calls of printf()
    MaxSystem       \* bound on the calls of system()

ASSUME ProcessExitAssumption ==
    {ATEXIT_MAX, MaxFini, MaxPrints, MaxSystem} \subseteq Nat

VARIABLES
    registered,     \* the functions in atexit_func[0 .. atexit_cnt - 1]
    fini,           \* how many functions __yasos_fini_table has, 0 for NULL
    unwritten,      \* what is in the buffers of stdout and stderr: how many prints
    at,             \* where each process is: its phase, whether a function of the
                    \* program runs there, and the fini functions yet to be called
    running,        \* the process that runs: "parent", or "child" in system()
    ran,            \* the processes that have called each handler, the first two
    finiRan,        \* how often each function of the fini table was called
    accepted,       \* the handlers atexit() has taken
    printed,        \* how many prints there were
    written,        \* ... and how many the kernel has taken
    failed,         \* whether it refused a write of them, or cut it short
    systems         \* how many calls of system()

memory == <<registered, fini, unwritten>>
history == <<ran, finiRan, accepted, printed, written, failed, systems>>
vars == <<memory, at, running, history>>

Processes == {"parent", "child"}
here == at[running]
In(phase, inside, left) == [phase |-> phase, inside |-> inside, left |-> left]

\* The program's own code runs: main(), or a function that exit() has called.
UserCode == here.phase = "main" \/ here.inside

Init ==
    /\ registered = <<>>
    /\ fini \in 0 .. MaxFini
    /\ unwritten = 0
    /\ at = [p \in Processes |-> In(IF p = "parent" THEN "main" ELSE "none", FALSE, 0)]
    /\ running = "parent"
    /\ ran = [h \in Handlers |-> <<>>]
    /\ finiRan = [i \in 1 .. MaxFini |-> 0]
    /\ accepted = {}
    /\ printed = 0 /\ written = 0 /\ systems = 0
    /\ failed = FALSE

-------------------------------------------------------------------------------
(***************************************************************************)
(* The program.                                                            *)
(***************************************************************************)

\* Fault: one more than there are places.
HasPlaceForOneMore(s) == Len(s) <= ATEXIT_MAX

HasPlace(s) == Len(s) < ATEXIT_MAX

\* atexit() and on_exit(): -1 when there is no place left.
Atexit(h) ==
    /\ UserCode
    /\ h \notin accepted
    /\ HasPlace(registered)
    /\ registered' = Append(registered, h)
    /\ accepted' = accepted \cup {h}
    /\ UNCHANGED <<fini, unwritten, at, running, ran, finiRan, printed, written, failed, systems>>

\* Fault: what was in the buffer goes with it.
Discarded(n) == 0

Flushed(n) == n

\* fflush() of both streams with n prints in their buffers.  A stream whose
\* write fails or is cut short keeps its buffer, to be sent again whole, though
\* the kernel may have some of it; `kept` are those in the buffers of such.
Flush(n) ==
    \E kept \in 0 .. n :
        \E some \in 0 .. kept :
            /\ some = 0 \/ some < kept
            /\ unwritten' = kept
            /\ written' = written + Flushed(n - kept) + some
            /\ failed' = (failed \/ kept > 0)

\* printf(): into the buffer, and with it to the kernel if that is full or the
\* line ends.  Where a flush has failed the buffer may be full, and fputc()
\* drops what there is no room for.
Printf ==
    /\ UserCode /\ printed < MaxPrints
    /\ printed' = printed + 1
    /\ \/ unwritten' = unwritten + 1 /\ UNCHANGED <<written, failed>>
       \/ Flush(unwritten + 1)
       \/ failed /\ unwritten > 0 /\ Flush(unwritten)
    /\ UNCHANGED <<registered, fini, at, running, ran, finiRan, accepted, systems>>

\* Fault: the table is still there for an exit() inside a fini function.
FiniLeft(n) == n

\* The table after exit() has read it.
FiniRead(n) == 0

\* exit(), from wherever it is called.
Exit ==
    /\ UserCode
    /\ at' = [at EXCEPT ![running] = In("fini", FALSE, fini)]
    /\ fini' = FiniRead(fini)
    /\ UNCHANGED <<registered, unwritten, running, history>>

\* A function exit() has called returns to it.
Return ==
    /\ here.inside
    /\ at' = [at EXCEPT ![running] = In(here.phase, FALSE, here.left)]
    /\ UNCHANGED <<memory, running, history>>

\* system() in the parent: the child runs, and it is about to exec.
System ==
    /\ running = "parent" /\ UserCode /\ systems < MaxSystem
    /\ systems' = systems + 1
    /\ running' = "child"
    /\ at' = [at EXCEPT !["child"] = In("exec", FALSE, 0)]
    /\ UNCHANGED <<memory, ran, finiRan, accepted, printed, written, failed>>

-------------------------------------------------------------------------------
(***************************************************************************)
(* exit().                                                                 *)
(***************************************************************************)

Calling == here.phase = "fini" /\ ~here.inside

CallFini ==
    /\ Calling /\ here.left > 0
    /\ at' = [at EXCEPT ![running] = In("fini", TRUE, here.left - 1)]
    /\ finiRan' = [finiRan EXCEPT ![here.left] = @ + 1]
    /\ UNCHANGED <<memory, running, ran, accepted, printed, written, failed, systems>>

FiniDone ==
    /\ Calling /\ here.left = 0
    /\ at' = [at EXCEPT ![running] = In("handlers", FALSE, 0)]
    /\ UNCHANGED <<memory, running, history>>

LastOf(s) == s[Len(s)]

\* Fault: the count goes down only once the handler has returned, and it calls
\* exit() instead.
StillThere(s) == s

Fewer(s) == SubSeq(s, 1, Len(s) - 1)

\* The count goes down before the call, so an exit() in it does not see it.
CallHandler ==
    /\ here.phase = "handlers" /\ ~here.inside /\ registered # <<>>
    /\ registered' = Fewer(registered)
    /\ ran' = [ran EXCEPT ![LastOf(registered)] = IF Len(@) < 2 THEN Append(@, running) ELSE @]
    /\ at' = [at EXCEPT ![running] = In(here.phase, TRUE, here.left)]
    /\ UNCHANGED <<fini, unwritten, running, finiRan, accepted, printed, written, failed,
                   systems>>

Gone ==
    /\ at' = [at EXCEPT ![running] = In("gone", FALSE, here.left)]
    /\ running' = "parent"

\* fflush() of both streams and _exit(), whether or not the flushes went through:
\* what a parent's buffers keep goes with it, what a child's keep is still the
\* parent's to send, again.  The parent goes on after its child.
FlushAndGo ==
    /\ here.phase = "handlers" /\ ~here.inside /\ registered = <<>>
    /\ Flush(unwritten)
    /\ Gone
    /\ UNCHANGED <<registered, fini, ran, finiRan, accepted, printed, systems>>

-------------------------------------------------------------------------------
(***************************************************************************)
(* The child of system().                                                  *)
(***************************************************************************)

Exec ==
    /\ here.phase = "exec"
    /\ Gone
    /\ UNCHANGED <<memory, history>>

\* There is no /bin/sh, or no memory for it: exit(1), on the parent's memory.
ExecFails ==
    /\ here.phase = "exec"
    /\ at' = [at EXCEPT ![running] = In("fini", FALSE, fini)]
    /\ fini' = FiniRead(fini)
    /\ UNCHANGED <<registered, unwritten, running, history>>

Ended == at["parent"].phase = "gone" /\ UNCHANGED vars

Next ==
    \/ \E h \in Handlers : Atexit(h)
    \/ Printf
    \/ Exit
    \/ Return
    \/ System
    \/ CallFini
    \/ FiniDone
    \/ CallHandler
    \/ FlushAndGo
    \/ Exec
    \/ ExecFails
    \/ Ended

\* The code of exit() and of the child goes on, and the functions of the
\* program that it calls come back, or call exit() themselves.
Fairness ==
    /\ WF_vars(CallFini) /\ WF_vars(FiniDone) /\ WF_vars(CallHandler)
    /\ WF_vars(FlushAndGo)
    /\ WF_vars(Exec \/ ExecFails)
    /\ WF_vars(Return \/ (here.inside /\ Exit))

Spec == Init /\ [][Next]_vars /\ Fairness

-------------------------------------------------------------------------------
(***************************************************************************)
(* Properties.                                                             *)
(***************************************************************************)

\* The state is made of the values the code's variables can hold.
TypeOK ==
    /\ registered \in UNION {[1 .. n -> Handlers] : n \in 0 .. ATEXIT_MAX}
    /\ fini \in 0 .. MaxFini
    /\ unwritten \in 0 .. MaxPrints
    /\ at \in [Processes -> [phase : {"none", "main", "exec", "fini", "handlers", "gone"},
                             inside : BOOLEAN, left : 0 .. MaxFini]]
    /\ running \in Processes
    /\ accepted \subseteq Handlers

\* A handler that atexit() has taken is called once and no more, and is only
\* ever either called or registered, and no fini function is called twice: in
\* whatever order they register others, call exit() or run a child that does.
CalledOnce ==
    /\ \A h \in Handlers :
          Len(ran[h]) + Cardinality({i \in DOMAIN registered : registered[i] = h})
              = IF h \in accepted THEN 1 ELSE 0
    /\ \A i \in 1 .. MaxFini : finiRan[i] <= 1

\* When the parent is gone no handler is left that was not called, and all that
\* was printed, by a handler or in the middle of a call of system() too, is
\* written, and once, by the parent or by a child with the same buffers, unless
\* the kernel has refused a write of it or cut one short.
NothingLeft ==
    at["parent"].phase = "gone" =>
        /\ registered = <<>>
        /\ ~failed => written = printed /\ unwritten = 0

\* A process that has called exit() comes to its end, though the functions on
\* the way register others or call exit() themselves.
ExitEnds ==
    (at["parent"].phase \in {"fini", "handlers"}) ~> (at["parent"].phase = "gone")
===============================================================================
