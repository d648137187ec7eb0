----------------------------- MODULE MemoryFile -----------------------------
(***************************************************************************)
(* What a memory buffer promises FFmpeg: a file.  Every handle has a       *)
(* position of its own, a write is one step whatever has to be allocated   *)
(* for it, it extends the file when it passes the end, and what it skips   *)
(* reads as zeros.  Requests that fail change nothing.                     *)
(***************************************************************************)
EXTENDS Integers, Sequences

CONSTANTS
    Handles,
    Byte,
    Zero,      \* the byte that fills a gap
    Blocks,    \* what can be written by one call
    Positions  \* how far a handle can seek, and how much it can ask for

VARIABLES
    users,     \* handles that are open
    length, content,
    position,
    got        \* what the last read of each handle returned

vars == <<users, length, content, position, got>>

Longer(a, b) == IF a > b THEN a ELSE b

Init ==
    /\ users = {}
    /\ length = 0 /\ content = <<>>
    /\ position = [h \in Handles |-> 0] /\ got = [h \in Handles |-> <<>>]

\* Nobody has the file open: it becomes another one.
Replace ==
    /\ users = {}
    /\ length' \in Nat /\ content' \in [0..length' - 1 -> Byte]
    /\ UNCHANGED <<users, position, got>>

Open(h) ==
    /\ h \notin users
    /\ users' = users \cup {h}
    /\ UNCHANGED <<length, content, position, got>>

Close(h) ==
    /\ users' = users \ {h}
    /\ position' = [position EXCEPT ![h] = 0] /\ got' = [got EXCEPT ![h] = <<>>]
    /\ UNCHANGED <<length, content>>

Read(h, n) ==
    /\ h \in users
    /\ LET end == IF position[h] + n < length THEN position[h] + n ELSE Longer(position[h], length)
       IN  /\ got' = [got EXCEPT ![h] = [i \in 1..end - position[h] |-> content[position[h] + i - 1]]]
           /\ position' = [position EXCEPT ![h] = end]
    /\ UNCHANGED <<users, length, content>>

Write(h, block) ==
    /\ h \in users
    /\ LET end == position[h] + Len(block)
       IN  /\ length' = Longer(length, end)
           /\ content' = [i \in 0..Longer(length, end) - 1 |->
                            IF i \in position[h]..end - 1 THEN block[i - position[h] + 1]
                            ELSE IF i < length THEN content[i] ELSE Zero]
           /\ position' = [position EXCEPT ![h] = end]
    /\ UNCHANGED <<users, got>>

Seek(h) ==
    /\ h \in users
    /\ \E p \in Positions : position' = [position EXCEPT ![h] = p]
    /\ UNCHANGED <<users, length, content, got>>

Next ==
    \/ Replace
    \/ \E h \in Handles :
         \/ Open(h) \/ Close(h) \/ Seek(h)
         \/ \E n \in Positions : Read(h, n)
         \/ \E block \in Blocks : Write(h, block)

Spec == Init /\ [][Next]_vars
=============================================================================
