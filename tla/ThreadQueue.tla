---------------------------- MODULE ThreadQueue ----------------------------
(***************************************************************************)
(* One thread queue in use: a sender per stream, one receiver, and the     *)
(* scheduler, which chokes it from any thread.  A call is cut where it     *)
(* waits: tq_send tests its loop's condition when it enters and after each *)
(* wake-up, and everything between two waits is one action under the lock. *)
(***************************************************************************)
EXTENDS ThreadQueueOps, Sublists

CONSTANTS
    NbStreams,       \* streams the queue is allocated for
    Sizes,           \* the sizes a queue is allocated with
    Data,            \* packets or frames
    FailingSizes     \* bound: the sizes with which memory for an item may run out

ASSUME QueueAssumption ==
    /\ NbStreams \in Nat \ {0}
    /\ Sizes \subseteq Nat \ {0}
    /\ FailingSizes \subseteq Sizes

Streams  == 0..NbStreams - 1
Receiver == -1
Threads  == Streams \cup {Receiver}

VARIABLES
    tq,              \* the struct ThreadQueue
    pc,              \* per thread: idle, enter, waiting or woken
    arg,             \* per sender: <<item>> while in a call
    said,            \* per sender: what its last call returned, "none" in a call
    block,           \* the receiver's call may wait (no THREAD_QUEUE_FLAG_NO_BLOCK)
    got              \* what the receiver's last call returned, "none" in a call

vars == <<tq, pc, arg, said, block, got>>

\* pthread_cond_broadcast: whoever waits tests its condition again.
Broadcast(p) == [t \in Threads |-> IF p[t] = "waiting" THEN "woken" ELSE p[t]]

Init ==
    /\ \E n \in Sizes : tq = NewQueue(NbStreams, n)
    /\ pc = [t \in Threads |-> "idle"]
    /\ arg = [s \in Streams |-> <<>>]
    /\ said = [s \in Streams |-> "none"]
    /\ block = TRUE /\ got = <<"none">>

-----------------------------------------------------------------------------
(***************************************************************************)
(* tq_send and tq_send_finish, by the stream's sender.                     *)
(***************************************************************************)
SendBegin(s, d) ==
    /\ pc[s] = "idle"
    /\ pc' = [pc EXCEPT ![s] = "enter"]
    /\ arg' = [arg EXCEPT ![s] = <<d>>]
    /\ said' = [said EXCEPT ![s] = "none"]
    /\ UNCHANGED <<tq, block, got>>

SendReturns(s, p, ret) ==
    /\ pc' = [p EXCEPT ![s] = "idle"]
    /\ arg' = [arg EXCEPT ![s] = <<>>]
    /\ said' = [said EXCEPT ![s] = ret]
    /\ UNCHANGED <<block, got>>

\* EINVAL, looked at before the loop alone.
SendRefused(s) ==
    /\ pc[s] = "enter" /\ s \in tq.sent
    /\ SendReturns(s, pc, "einval")
    /\ UNCHANGED tq

InLoop(s) == pc[s] = "woken" \/ (pc[s] = "enter" /\ s \notin tq.sent)

SendWaits(s) ==
    /\ InLoop(s) /\ s \notin tq.recvd /\ Full(tq)
    /\ pc' = [pc EXCEPT ![s] = "waiting"]
    /\ UNCHANGED <<tq, arg, said, block, got>>

SendEnded(s) ==
    /\ InLoop(s) /\ s \in tq.recvd
    /\ tq' = SendEnds(tq, s)
    /\ SendReturns(s, pc, "eof")

SendWrites(s) ==
    /\ InLoop(s) /\ s \notin tq.recvd /\ ~Full(tq)
    /\ tq' = Write(tq, s, arg[s][1])
    /\ SendReturns(s, Broadcast(pc), "ok")

SendFails(s) ==
    /\ tq.size \in FailingSizes
    /\ InLoop(s) /\ s \notin tq.recvd /\ ~Full(tq)
    /\ tq' = WriteFails(tq, s)
    /\ SendReturns(s, pc, "enomem")

SendFinish(s) ==
    /\ pc[s] = "idle"
    /\ tq' = SendFinished(tq, s)
    /\ pc' = Broadcast(pc)
    /\ UNCHANGED <<arg, said, block, got>>

-----------------------------------------------------------------------------
(***************************************************************************)
(* tq_receive and tq_receive_finish, by the receiver.                      *)
(***************************************************************************)
ReceiveBegin(b) ==
    /\ pc[Receiver] = "idle"
    /\ pc' = [pc EXCEPT ![Receiver] = "enter"]
    /\ block' = b
    /\ got' = <<"none">>
    /\ UNCHANGED <<tq, arg, said>>

\* The senders learn of the room a receive made, not of the ends it saw.
Signalled(r) == IF Len(r.q.items) # Len(tq.items) THEN Broadcast(pc) ELSE pc

Result(r) ==
    CASE r.ret = "item" -> <<"item", r.stream, r.item[1]>>
      [] r.ret = "eof" /\ r.stream # -1 -> <<"eof", r.stream>>
      [] OTHER -> <<r.ret>>

ReceiveWaits ==
    LET r == Receive(tq)
    IN  /\ pc[Receiver] \in {"enter", "woken"}
        /\ r.ret = "again" /\ block
        /\ tq' = r.q
        /\ pc' = [Signalled(r) EXCEPT ![Receiver] = "waiting"]
        /\ UNCHANGED <<arg, said, block, got>>

ReceiveReturns ==
    LET r == Receive(tq)
    IN  /\ pc[Receiver] \in {"enter", "woken"}
        /\ ~(r.ret = "again" /\ block)
        /\ tq' = r.q
        /\ pc' = [Signalled(r) EXCEPT ![Receiver] = "idle"]
        /\ got' = Result(r) /\ block' = TRUE
        /\ UNCHANGED <<arg, said>>

ReceiveFinishQuietly(s) ==                                     \* mutant
    /\ pc[Receiver] = "idle"
    /\ tq' = ReceiveFinished(tq, s)
    /\ UNCHANGED <<pc, arg, said, block, got>>
ReceiveFinish(s) ==
    /\ pc[Receiver] = "idle"
    /\ tq' = ReceiveFinished(tq, s)
    /\ pc' = Broadcast(pc)
    /\ UNCHANGED <<arg, said, block, got>>

-----------------------------------------------------------------------------
\* tq_choke, under the scheduler's lock in whatever thread updates the schedule.
ChokeOnly(b) ==                                                \* mutant
    /\ tq' = Choked(tq, b)
    /\ UNCHANGED <<pc, arg, said, block, got>>
Choke(b) ==
    /\ tq' = Choked(tq, b)
    /\ pc' = IF b # tq.choked THEN Broadcast(pc) ELSE pc
    /\ UNCHANGED <<arg, said, block, got>>

\* pthread_cond_wait may return for no reason.
WakesUp(t) ==
    /\ pc[t] = "waiting"
    /\ pc' = [pc EXCEPT ![t] = "woken"]
    /\ UNCHANGED <<tq, arg, said, block, got>>

SendStep(s) ==
    \/ SendRefused(s) \/ SendWaits(s) \/ SendEnded(s) \/ SendWrites(s) \/ SendFails(s)
ReceiveStep == ReceiveWaits \/ ReceiveReturns

Next ==
    \/ \E s \in Streams :
         \/ \E d \in Data : SendBegin(s, d)
         \/ SendStep(s)
         \/ SendFinish(s)
         \/ ReceiveFinish(s)
    \/ \E b \in BOOLEAN : ReceiveBegin(b) \/ Choke(b)
    \/ ReceiveStep
    \/ \E t \in Threads : WakesUp(t)

Spec == Init /\ [][Next]_vars

\* A call in progress goes on, and the consumer's loop calls tq_receive again.
LiveSpec ==
    /\ Spec
    /\ \A s \in Streams : WF_vars(SendStep(s))
    /\ WF_vars(ReceiveStep)
    /\ WF_vars(ReceiveBegin(TRUE))

-----------------------------------------------------------------------------
Queues ==
    [nb : {NbStreams}, size : Sizes, index : Seq(Streams), items : Seq(Data),
     sent : SUBSET Streams, recvd : SUBSET Streams, choked : BOOLEAN]
QueueOK(q) == q \in Queues /\ Len(q.items) <= Len(q.index) /\ Len(q.index) <= q.size
Places     == {"idle", "enter", "waiting", "woken"}

(***************************************************************************)
(* Type correctness: the index fifo is within its size and never behind    *)
(* the items.                                                              *)
(***************************************************************************)
TypeOK ==
    /\ QueueOK(tq)
    /\ pc \in [Threads -> Places]
    /\ DOMAIN arg = Streams
    /\ \A s \in Streams : IF pc[s] = "idle" THEN arg[s] = <<>> ELSE arg[s] \in {<<d>> : d \in Data}
    /\ block \in BOOLEAN

SenderMustWait(s) == s \notin tq.recvd /\ Full(tq)
ReceiverMustWait  == block /\ Receive(tq).ret = "again"

(***************************************************************************)
(* Nobody sleeps through what it waits for: a sender waits only while the  *)
(* queue is full and its stream wanted, the receiver only while the queue  *)
(* is choked or has nothing to say.  tq_receive leaves the senders asleep  *)
(* when it takes nothing, and one condition variable serves all threads.   *)
(***************************************************************************)
NoLostWakeup ==
    /\ \A s \in Streams : pc[s] = "waiting" => SenderMustWait(s)
    /\ pc[Receiver] = "waiting" => ReceiverMustWait

\* What stream s still has in the queue: nothing, once the receiver wants no more.
Own(q, s)  == {i \in Wanted(q) : q.index[i] = s}
Pending(s) == Sublist(tq.items, Own(tq, s))

Channels == INSTANCE StreamChannels WITH
    offer  <- arg,
    chan   <- [s \in Streams |-> Pending(s)],
    closed <- tq.sent,
    gone   <- tq.recvd,
    broken <- Len(tq.index) # Len(tq.items)

(***************************************************************************)
(* The shared fifo, its finished flags and its waits implement one ordered *)
(* channel per stream, until memory for an item runs out.                  *)
(***************************************************************************)
ImplementsChannels == Channels!Spec

(***************************************************************************)
(* A sender the receiver is done with does not stay in its call, and once  *)
(* all senders are finished the receiver gets to the end of every stream,  *)
(* if the queue is not choked for good.  An end is told only when the      *)
(* whole queue is empty, so one stream's end can wait for the other        *)
(* streams' items.                                                         *)
(***************************************************************************)
EndsArrive ==
    /\ \A s \in Streams : s \in tq.recvd /\ pc[s] # "idle" ~> pc[s] = "idle"
    /\ <>[](~tq.choked) => (Streams \subseteq tq.sent ~> Streams \subseteq tq.recvd)
=============================================================================
