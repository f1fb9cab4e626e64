------------------------------- MODULE MCFiles --------------------------------
(***************************************************************************)
(* A directory of few names, fewer than two processes would use, and those *)
(* of the two overlap.  Names of mkstemp() and of tmpnam() never meet, and *)
(* to the reader one entry is like another: so in each behaviour one of    *)
(* the three is at work, the bound that lets each go further.              *)
(***************************************************************************)
EXTENDS Files, Bitwise

\* The number tmpnam() writes, in three bits instead of 32.
XorToken(p, n) == (p ^^ n) % 8

VARIABLE scene      \* what the processes do in this behaviour

Keeps(s) == scene = s /\ UNCHANGED scene

ByMkstemp == Keeps("mkstemp") /\ \E p \in Pids : UsesMkstemp(p)
ByTmpnam == Keeps("tmpnam") /\ \E p \in Pids : UsesTmpnam(p)
ByReader == Keeps("listing") /\ (Reads \/ UsesMkstemp(CHOOSE p \in Pids : TRUE))
Removing == Keeps(scene) /\ \E i \in 1 .. Places : Unlink(i)

SceneInit == Init /\ scene \in {"mkstemp", "tmpnam", "listing"}
SceneNext == ByMkstemp \/ ByTmpnam \/ ByReader \/ Removing
SceneSpec == SceneInit /\ [][SceneNext]_<<vars, scene>>
===============================================================================
