--------------------------- MODULE StreamChannels ---------------------------
(***************************************************************************)
(* What a thread queue promises: one bounded channel per stream.  An       *)
(* accepted item is received once and in its stream's order, unless the    *)
(* receiver has given the stream up; the receiver is told the end of each  *)
(* stream once, after the stream's last item.  A queue that ran out of     *)
(* memory for an item has mixed up its streams and promises nothing.       *)
(***************************************************************************)
EXTENDS Integers, Sequences

CONSTANTS Streams, Data

VARIABLES
    offer,       \* per stream: <<item>> while its sender is in a call
    said,        \* per stream: how the sender's last call ended
    chan,        \* per stream: items accepted and not received
    closed,      \* streams that take no more items
    gone,        \* streams the receiver has given up or knows the end of
    got,         \* what the receiver's last call returned
    broken       \* an item could not be stored

vars == <<offer, said, chan, closed, gone, got, broken>>

Init ==
    /\ offer = [s \in Streams |-> <<>>] /\ said = [s \in Streams |-> "none"]
    /\ chan = [s \in Streams |-> <<>>]
    /\ closed = {} /\ gone = {}
    /\ got = <<"none">>
    /\ broken = FALSE

Offer(s) ==
    /\ offer[s] = <<>>
    /\ \E d \in Data : offer' = [offer EXCEPT ![s] = <<d>>]
    /\ said' = [said EXCEPT ![s] = "none"]
    /\ UNCHANGED <<chan, closed, gone, got>>

Accept(s) ==
    /\ offer[s] # <<>> /\ s \notin closed \cup gone
    /\ chan' = [chan EXCEPT ![s] = @ \o offer[s]]
    /\ offer' = [offer EXCEPT ![s] = <<>>]
    /\ said' = [said EXCEPT ![s] = "ok"]
    /\ UNCHANGED <<closed, gone, got>>

\* A finished sender is told of its mistake, one whose receiver is gone of the end.
Refuse(s) ==
    /\ offer[s] # <<>>
    /\ \/ s \in closed /\ said' = [said EXCEPT ![s] = "einval"]
       \/ s \in gone   /\ said' = [said EXCEPT ![s] = "eof"]
    /\ offer' = [offer EXCEPT ![s] = <<>>]
    /\ closed' = closed \cup {s}
    /\ UNCHANGED <<chan, gone, got>>

Close(s) ==
    /\ closed' = closed \cup {s}
    /\ UNCHANGED <<offer, said, chan, gone, got>>

GiveUp(s) ==
    /\ gone' = gone \cup {s}
    /\ chan' = [chan EXCEPT ![s] = <<>>]
    /\ UNCHANGED <<offer, said, closed, got>>

\* A call of the receiver's begins.
Ask == got' = <<"none">> /\ UNCHANGED <<offer, said, chan, closed, gone>>

Take(s) ==
    /\ chan[s] # <<>>
    /\ got' = <<"item", s, Head(chan[s])>>
    /\ chan' = [chan EXCEPT ![s] = Tail(@)]
    /\ UNCHANGED <<offer, said, closed, gone>>

TellEnd(s) ==
    /\ s \in closed \ gone /\ chan[s] = <<>>
    /\ gone' = gone \cup {s}
    /\ got' = <<"eof", s>>
    /\ UNCHANGED <<offer, said, chan, closed>>

TellAllEnded ==
    /\ Streams \subseteq closed \cup gone
    /\ \A s \in Streams : chan[s] = <<>>
    /\ got' = <<"eof">>
    /\ UNCHANGED <<offer, said, chan, closed, gone>>

\* A call that may not wait finds nothing to return.
TellNothing == got' = <<"again">> /\ UNCHANGED <<offer, said, chan, closed, gone>>

Works ==
    \/ \E s \in Streams : \/ Offer(s) \/ Accept(s) \/ Refuse(s) \/ Close(s)
                          \/ GiveUp(s) \/ Take(s) \/ TellEnd(s)
    \/ Ask \/ TellAllEnded \/ TellNothing

Next == broken' \/ (~broken' /\ Works)

Spec == Init /\ [][Next]_vars
=============================================================================
