----------------------------- MODULE Transcode -----------------------------
(***************************************************************************)
(* What a transcode promises: each output stream is written packet by      *)
(* packet in the order its input and its filters give, and a transcode     *)
(* that is done has written all of them.  It may be aborted at any time.   *)
(***************************************************************************)
EXTENDS Naturals, Sequences

VARIABLES
    expect,          \* per output stream: the packets it should get
    written,         \* per output stream: the packets written so far
    status           \* running, done or aborted

vars == <<expect, written, status>>

Init ==
    /\ written = [s \in DOMAIN expect |-> <<>>]
    /\ status = "running"

Write(s) ==
    /\ status = "running"
    /\ Len(written[s]) < Len(expect[s])
    /\ written' = [written EXCEPT ![s] = Append(@, expect[s][Len(@) + 1])]
    /\ UNCHANGED <<expect, status>>

Finish ==
    /\ status = "running" /\ written = expect
    /\ status' = "done"
    /\ UNCHANGED <<expect, written>>

Abort ==
    /\ status = "running"
    /\ status' = "aborted"
    /\ UNCHANGED <<expect, written>>

Next == Finish \/ Abort \/ \E s \in DOMAIN expect : Write(s)

Spec == Init /\ [][Next]_vars
=============================================================================
