----------------------------- MODULE ByteStream -----------------------------
(***************************************************************************)
(* What a stream of <stdio.h> promises whoever uses it, whatever it keeps  *)
(* in buffers: there is one text and one place in it.  A write puts its    *)
(* bytes at the place and a read returns the bytes from there on; both     *)
(* leave the place behind the last of them.  A read that fails for want of *)
(* memory may have taken bytes which its caller never sees.  Once output   *)
(* was lost nothing is promised until the stream is opened anew.           *)
(***************************************************************************)
EXTENDS Integers, Sequences

VARIABLES
    text,       \* the bytes of the file as its user knows them
    at,         \* how many of them lie before the place
    appends,    \* whether writes go to the end
    lost,       \* whether a write of buffered bytes has failed
    did         \* the last call: its name, the bytes that went over, its result;
                \* those that went over in a call "lose" went nowhere

vars == <<text, at, appends, lost, did>>

\* The text d with s laid over it behind the first n bytes; a gap reads as 0.
Overlay(d, n, s) ==
    [i \in 1 .. (IF n + Len(s) > Len(d) THEN n + Len(s) ELSE Len(d)) |->
        IF i > n /\ i <= n + Len(s) THEN s[i - n]
        ELSE IF i <= Len(d) THEN d[i] ELSE 0]

Place == IF appends THEN Len(text) ELSE at

Opened == did'.call = "open"

\* There is no place any more.
Closing ==
    /\ did'.call = "close"
    /\ UNCHANGED text

Put ==
    /\ did'.call = "put"
    /\ IF did'.data = <<>>
         THEN UNCHANGED <<text, at>>
         ELSE /\ text' = Overlay(text, Place, did'.data)
              /\ at' = Place + Len(did'.data)

Get ==
    /\ did'.call \in {"get", "lose"}
    /\ did'.data = SubSeq(text, at + 1, at + Len(did'.data))
    /\ at' = at + Len(did'.data)
    /\ UNCHANGED text

Unget ==
    /\ did'.call = "unget"
    /\ at' = at - 1
    /\ UNCHANGED text

Seek ==
    /\ did'.call = "seek"
    /\ UNCHANGED text

Other ==
    /\ did'.call \notin {"open", "close", "put", "get", "lose", "unget", "seek"}
    /\ UNCHANGED <<text, at>>

Next ==
    \/ Opened
    \/ /\ ~Opened
       /\ lost => lost'
       /\ UNCHANGED appends
       /\ lost' \/ Closing \/ Put \/ Get \/ Unget \/ Seek \/ Other

Init == text \in Seq(Int) /\ at = 0 /\ ~lost

Spec == Init /\ [][Next]_vars
===============================================================================
