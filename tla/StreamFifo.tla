----------------------------- MODULE StreamFifo -----------------------------
(***************************************************************************)
(* What a stream promises its users: the bytes of the writers' buffers     *)
(* reach the readers' buffers in order, each once, through a queue of      *)
(* bounded length; once the stream has ended nothing more enters it, what  *)
(* is in it can still be read, and only then may the rest be dropped.      *)
(***************************************************************************)
EXTENDS Integers, Sequences

CONSTANTS Users, Buffers     \* who uses streams, and the byte strings one call may write

VARIABLES
    queue,       \* bytes written and not yet read
    bound,       \* how many of them the stream holds at most
    ended,       \* the stream takes no more bytes
    pending,     \* per user: what is left of the buffer it writes
    taken        \* per user: what its call has read

vars == <<queue, bound, ended, pending, taken>>

\* No stream yet is a stream that has ended.
Init ==
    /\ queue = <<>> /\ bound = 0 /\ ended = TRUE
    /\ pending = [u \in Users |-> <<>>] /\ taken = [u \in Users |-> <<>>]

\* A call starts with a buffer to write, or ends.
Call(u) ==
    /\ \E b \in Buffers : pending' = [pending EXCEPT ![u] = b]
    /\ taken' = [taken EXCEPT ![u] = <<>>]
    /\ UNCHANGED <<queue, bound, ended>>

\* The next n bytes of a writer's buffer enter the queue.
Put(u) ==
    /\ ~ended
    /\ \E n \in 1..Len(pending[u]) :
         /\ Len(queue) + n <= bound
         /\ queue' = queue \o SubSeq(pending[u], 1, n)
         /\ pending' = [pending EXCEPT ![u] = SubSeq(@, n + 1, Len(@))]
    /\ UNCHANGED <<bound, ended, taken>>

\* The oldest n bytes move to a reader's buffer.
Take(u) ==
    /\ \E n \in 1..Len(queue) :
         /\ taken' = [taken EXCEPT ![u] = @ \o SubSeq(queue, 1, n)]
         /\ queue' = SubSeq(queue, n + 1, Len(queue))
    /\ UNCHANGED <<bound, ended, pending>>

End == ended' = TRUE /\ UNCHANGED <<queue, bound, pending, taken>>

\* A stream that has ended gives way to the next one, or to none.
Renew ==
    /\ ended
    /\ queue' = <<>> /\ ended' \in BOOLEAN /\ bound' \in Nat
    /\ UNCHANGED <<pending, taken>>

Next ==
    \/ \E u \in Users : Call(u) \/ Put(u) \/ Take(u)
    \/ End
    \/ Renew

Spec == Init /\ [][Next]_vars
=============================================================================
