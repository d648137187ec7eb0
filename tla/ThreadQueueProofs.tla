------------------------- MODULE ThreadQueueProofs -------------------------
(***************************************************************************)
(* Theorems about ThreadQueue for every number of streams, every queue     *)
(* size and every set of items, allocation failures included.              *)
(***************************************************************************)
EXTENDS ThreadQueue, Functions, FiniteSetTheorems, SequenceTheorems,
        WellFoundedInduction, TLAPS

-----------------------------------------------------------------------------
(***************************************************************************)
(* What the critical sections do to a queue.                               *)
(***************************************************************************)
LEMMA LowestIsLeast ==
    ASSUME NEW S, S \subseteq Nat, S # {}
    PROVE  Lowest(S) \in S /\ \A m \in S : Lowest(S) <= m
<1>1. PICK x \in S : \A y \in S : ~(<<y, x>> \in OpToRel(<, Nat))
  BY NatLessThanWellFounded, WFMin
<1>2. \A y \in S : x <= y
  <2> SUFFICES ASSUME NEW y \in S PROVE x <= y
    OBVIOUS
  <2>1. y < x => <<y, x>> \in OpToRel(<, Nat)
    BY DEF OpToRel
  <2>2. x \in Nat /\ y \in Nat
    OBVIOUS
  <2>3. ~(y < x)
    BY <1>1, <2>1
  <2> QED BY <2>2, <2>3
<1> QED BY <1>2 DEF Lowest

LEMMA StreamsAreNat == Streams \subseteq Nat /\ \A q \in Queues : StreamsOf(q) = Streams
BY QueueAssumption DEF Streams, Queues, StreamsOf

LEMMA FieldsOK ==
    ASSUME NEW q, QueueOK(q)
    PROVE  /\ q.index \in Seq(Streams) /\ q.items \in Seq(Data) /\ q.size \in Nat
           /\ Len(q.items) \in Nat /\ Len(q.index) \in Nat
           /\ Len(q.items) <= Len(q.index) /\ Len(q.index) <= q.size
           /\ q.sent \subseteq Streams /\ q.recvd \subseteq Streams /\ q.choked \in BOOLEAN
<1>1. /\ q.index \in Seq(Streams) /\ q.items \in Seq(Data) /\ q.size \in Sizes
      /\ q.sent \subseteq Streams /\ q.recvd \subseteq Streams /\ q.choked \in BOOLEAN
  BY DEF QueueOK, Queues
<1>2. Len(q.items) \in Nat /\ Len(q.index) \in Nat
  BY <1>1, LenProperties
<1> QED BY <1>1, <1>2, QueueAssumption DEF QueueOK

LEMMA NewQueueOK ==
    ASSUME NEW n \in Sizes
    PROVE  QueueOK(NewQueue(NbStreams, n))
<1>1. Len(<<>>) = 0 /\ <<>> \in Seq(Streams) /\ <<>> \in Seq(Data)
  OBVIOUS
<1> QED BY <1>1, QueueAssumption DEF QueueOK, Queues, NewQueue

LEMMA WriteOK ==
    ASSUME NEW q, QueueOK(q), NEW s \in Streams, NEW d \in Data, ~Full(q)
    PROVE  /\ QueueOK(Write(q, s, d)) /\ QueueOK(WriteFails(q, s))
           /\ WriteFails(q, s).items = q.items
           /\ \A i \in 1..Len(q.items) : WriteFails(q, s).index[i] = q.index[i]
           /\ Len(WriteFails(q, s).index) = Len(q.index) + 1
<1>1. /\ q.index \in Seq(Streams) /\ q.items \in Seq(Data) /\ q.size \in Nat
      /\ Len(q.items) \in Nat /\ Len(q.index) \in Nat
  BY FieldsOK
<1>2. /\ Append(q.index, s) \in Seq(Streams) /\ Len(Append(q.index, s)) = Len(q.index) + 1
      /\ \A i \in 1..Len(q.index) : Append(q.index, s)[i] = q.index[i]
  BY <1>1, AppendProperties
<1>3. Append(q.items, d) \in Seq(Data) /\ Len(Append(q.items, d)) = Len(q.items) + 1
  BY <1>1, AppendProperties
<1> DEFINE w == Write(q, s, d)
           f == WriteFails(q, s)
<1>4. /\ w \in Queues /\ f \in Queues /\ w.size = q.size /\ f.size = q.size
      /\ w.index = Append(q.index, s) /\ w.items = Append(q.items, d)
      /\ f.index = Append(q.index, s) /\ f.items = q.items
  BY <1>2, <1>3 DEF QueueOK, Queues, Write, WriteFails
<1>5. Len(q.items) <= Len(q.index) /\ Len(q.index) < q.size
  BY <1>1 DEF QueueOK, Full
<1> QED BY <1>1, <1>2, <1>3, <1>4, <1>5 DEF QueueOK

LEMMA FlagsOK ==
    ASSUME NEW q, QueueOK(q), NEW s \in Streams, NEW b \in BOOLEAN
    PROVE  /\ QueueOK(SendEnds(q, s)) /\ QueueOK(SendFinished(q, s))
           /\ QueueOK(ReceiveFinished(q, s)) /\ QueueOK(Choked(q, b))
BY DEF QueueOK, Queues, SendEnds, SendFinished, ReceiveFinished, Choked

LEMMA DropFirstOK ==
    ASSUME NEW q, QueueOK(q), NEW n \in 0..Len(q.items)
    PROVE  LET p == DropFirst(q, n)
           IN  /\ QueueOK(p)
               /\ Len(p.items) = Len(q.items) - n /\ Len(p.index) = Len(q.index) - n
               /\ p.sent = q.sent /\ p.recvd = q.recvd /\ p.choked = q.choked /\ p.size = q.size
               /\ n = 0 => p.index = q.index
<1>1. /\ q.index \in Seq(Streams) /\ q.items \in Seq(Data) /\ q.size \in Nat
      /\ Len(q.items) \in Nat /\ Len(q.index) \in Nat
      /\ Len(q.items) <= Len(q.index) /\ Len(q.index) <= q.size
  BY FieldsOK
<1> DEFINE ix == SubSeq(q.index, n + 1, Len(q.index))
           it == SubSeq(q.items, n + 1, Len(q.items))
           p == DropFirst(q, n)
<1>2. ix \in Seq(Streams) /\ Len(ix) = Len(q.index) - n
  <2>1. \A i \in n + 1..Len(q.index) : q.index[i] \in Streams
    BY <1>1, ElementOfSeq
  <2> QED BY <1>1, <2>1, SubSeqProperties
<1>3. it \in Seq(Data) /\ Len(it) = Len(q.items) - n
  <2>1. \A i \in n + 1..Len(q.items) : q.items[i] \in Data
    BY <1>1, ElementOfSeq
  <2> QED BY <1>1, <2>1, SubSeqProperties
<1>4. n = 0 => ix = q.index
  BY <1>1, SubSeqFull
<1>5. /\ p \in Queues /\ p.index = ix /\ p.items = it /\ p.size = q.size
      /\ p.sent = q.sent /\ p.recvd = q.recvd /\ p.choked = q.choked
  BY <1>2, <1>3 DEF QueueOK, Queues, DropFirst
<1> HIDE DEF p, ix, it
<1>6. QueueOK(p)
  BY <1>1, <1>2, <1>3, <1>5 DEF QueueOK
<1> QED BY <1>2, <1>3, <1>4, <1>5, <1>6 DEF p

\* The outcome of receive_locked, case by case.
LEMMA ReceiveOutcomes ==
    ASSUME NEW q, QueueOK(q)
    PROVE  LET r == Receive(q)
           IN  \/ r.ret = "again" /\ q.choked /\ r.q = q /\ r.stream = -1
               \/ /\ ~q.choked /\ r.ret = "item" /\ r.q = DropFirst(q, Lowest(Wanted(q)))
                  /\ Lowest(Wanted(q)) \in 1..Len(q.items)
               \/ /\ ~q.choked /\ r.ret = "eof" /\ Untold(q) # {}
                  /\ r.q = ReceiveFinished(DropFirst(q, Len(q.items)), Lowest(Untold(q)))
                  /\ Lowest(Untold(q)) \in Untold(q)
               \/ /\ ~q.choked /\ Untold(q) = {} /\ r.stream = -1
                  /\ r.ret = IF AllFinished(q) THEN "eof" ELSE "again"
                  /\ r.q = DropFirst(q, Len(q.items))
<1>0. /\ Len(q.items) \in Nat /\ q.sent \subseteq Streams /\ q.choked \in BOOLEAN
  BY FieldsOK
<1>1. Wanted(q) \subseteq 1..Len(q.items) /\ Wanted(q) \subseteq Nat
  BY <1>0 DEF Wanted
<1>2. Untold(q) \subseteq Nat
  BY <1>0, StreamsAreNat DEF Untold
<1>3. CASE q.choked
  BY <1>3 DEF Receive, Nothing
<1>4. CASE ~q.choked /\ Wanted(q) # {}
  <2>1. Lowest(Wanted(q)) \in Wanted(q)
    BY <1>1, <1>4, LowestIsLeast
  <2>2. Receive(q) = NextItem(q)
    BY <1>4 DEF Receive
  <2> QED BY <1>1, <1>4, <2>1, <2>2 DEF NextItem
<1>5. CASE ~q.choked /\ Wanted(q) = {} /\ Untold(q) # {}
  <2>1. Lowest(Untold(q)) \in Untold(q)
    BY <1>2, <1>5, LowestIsLeast
  <2>2. Receive(q) = NextEnd(q)
    BY <1>5 DEF Receive
  <2> QED BY <1>5, <2>1, <2>2 DEF NextEnd
<1>6. CASE ~q.choked /\ Wanted(q) = {} /\ Untold(q) = {}
  <2>1. Receive(q) = Nothing(q, IF AllFinished(q) THEN "eof" ELSE "again")
    BY <1>6 DEF Receive
  <2> QED BY <1>6, <2>1 DEF Nothing
<1> QED BY <1>0, <1>3, <1>4, <1>5, <1>6

LEMMA ReceiveOK ==
    ASSUME NEW q, QueueOK(q)
    PROVE  QueueOK(Receive(q).q)
<1>1. Len(q.items) \in Nat /\ Len(q.items) \in 0..Len(q.items)
  BY FieldsOK
<1>2. CASE Receive(q).q = q
  BY <1>2
<1>3. CASE Receive(q).q = DropFirst(q, Lowest(Wanted(q))) /\ Lowest(Wanted(q)) \in 1..Len(q.items)
  <2>1. Lowest(Wanted(q)) \in 0..Len(q.items)
    BY <1>1, <1>3
  <2> QED BY <1>3, <2>1, DropFirstOK
<1>4. CASE Receive(q).q = DropFirst(q, Len(q.items))
  BY <1>1, <1>4, DropFirstOK
<1>5. CASE /\ Receive(q).q = ReceiveFinished(DropFirst(q, Len(q.items)), Lowest(Untold(q)))
           /\ Lowest(Untold(q)) \in Untold(q)
  <2>1. Lowest(Untold(q)) \in Streams
    BY <1>5, FieldsOK DEF Untold
  <2>2. QueueOK(DropFirst(q, Len(q.items)))
    BY <1>1, DropFirstOK
  <2> QED BY <1>5, <2>1, <2>2, FlagsOK
<1> QED BY <1>2, <1>3, <1>4, <1>5, ReceiveOutcomes

\* A receive tells the senders nothing.
LEMMA ReceiveSent ==
    ASSUME NEW q, QueueOK(q)
    PROVE  Receive(q).q.sent = q.sent
<1>1. Len(q.items) \in Nat /\ Len(q.items) \in 0..Len(q.items)
  BY FieldsOK
<1>2. \A n \in 0..Len(q.items) : QueueOK(DropFirst(q, n)) /\ DropFirst(q, n).sent = q.sent
  BY DropFirstOK
<1>3. \A p, s : QueueOK(p) => ReceiveFinished(p, s).sent = p.sent
  BY DEF ReceiveFinished, QueueOK, Queues
<1>4. \A n \in 1..Len(q.items) : n \in 0..Len(q.items)
  BY <1>1
<1> QED BY <1>1, <1>2, <1>3, <1>4, ReceiveOutcomes

-----------------------------------------------------------------------------
(***************************************************************************)
(* Type correctness.                                                       *)
(***************************************************************************)
LEMMA ThreadsAre == Receiver \in Threads /\ Receiver \notin Streams /\ Streams \subseteq Threads
BY StreamsAreNat DEF Receiver, Threads, Streams

LEMMA BroadcastOK ==
    ASSUME pc \in [Threads -> Places]
    PROVE  /\ Broadcast(pc) \in [Threads -> Places]
           /\ \A t \in Threads : Broadcast(pc)[t] # "waiting"
           /\ \A t \in Threads : Broadcast(pc)[t] = "idle" <=> pc[t] = "idle"
           /\ \A t \in Threads : pc[t] # "waiting" => Broadcast(pc)[t] = pc[t]
BY DEF Broadcast, Places

\* In the loop of tq_send the stream has not been finished by its sender.
NotFinished == \A s \in Streams : pc[s] \in {"waiting", "woken"} => s \notin tq.sent

IInv == TypeOK /\ NotFinished /\ NoLostWakeup

LEMMA InitIInv == Init => IInv
<1> SUFFICES ASSUME Init PROVE IInv
  OBVIOUS
<1>1. QueueOK(tq)
  BY NewQueueOK DEF Init
<1>2. TypeOK
  BY <1>1, ThreadsAre DEF Init, TypeOK, Places
<1>3. NotFinished /\ NoLostWakeup
  BY ThreadsAre DEF Init, NotFinished, NoLostWakeup
<1> QED BY <1>2, <1>3 DEF IInv

\* A sender's step seen from the other threads.
LEMMA SendReturnsOK ==
    ASSUME TypeOK, NEW s \in Streams, NEW p \in [Threads -> Places], NEW ret, SendReturns(s, p, ret),
           \A t \in Threads : p[t] = "idle" <=> pc[t] = "idle"
    PROVE  /\ pc' \in [Threads -> Places] /\ DOMAIN arg' = Streams /\ block' \in BOOLEAN
           /\ \A r \in Streams : IF pc'[r] = "idle" THEN arg'[r] = <<>> ELSE arg'[r] \in {<<d>> : d \in Data}
           /\ pc'[s] = "idle" /\ \A t \in Threads \ {s} : pc'[t] = p[t]
<1>1. s \in Threads /\ "idle" \in Places
  BY ThreadsAre DEF Places
<1>2. pc' = [p EXCEPT ![s] = "idle"] /\ arg' = [arg EXCEPT ![s] = <<>>] /\ block' = block
  BY DEF SendReturns
<1>3. \A r \in Streams \ {s} : r \in Threads /\ pc'[r] = p[r] /\ arg'[r] = arg[r]
  BY <1>1, <1>2, ThreadsAre DEF TypeOK
<1>4. pc'[s] = "idle" /\ arg'[s] = <<>>
  BY <1>1, <1>2 DEF TypeOK
<1> QED BY <1>1, <1>2, <1>3, <1>4 DEF TypeOK

\* The item a call carries.
LEMMA ArgIsItem ==
    ASSUME TypeOK, NEW s \in Streams, pc[s] # "idle"
    PROVE  arg[s][1] \in Data
BY DEF TypeOK

LEMMA InLoopOK ==
    ASSUME TypeOK, NotFinished, NEW s \in Streams, InLoop(s)
    PROVE  pc[s] # "idle" /\ s \notin tq.sent
BY DEF InLoop, NotFinished

LEMMA NextTypeOK ==
    ASSUME IInv, [Next]_vars
    PROVE  TypeOK' /\ NotFinished'
<1> USE DEF IInv
<1>0. CASE UNCHANGED vars
  BY <1>0 DEF vars, TypeOK, NotFinished, QueueOK, Queues
<1>1. ASSUME NEW s \in Streams, NEW d \in Data, SendBegin(s, d) PROVE TypeOK' /\ NotFinished'
  <2>1. pc' \in [Threads -> Places] /\ pc'[s] = "enter" /\ \A r \in Streams \ {s} : pc'[r] = pc[r]
    BY <1>1, ThreadsAre DEF SendBegin, TypeOK, Places
  <2>2. arg'[s] = <<d>> /\ DOMAIN arg' = Streams /\ \A r \in Streams \ {s} : arg'[r] = arg[r]
    BY <1>1 DEF SendBegin, TypeOK
  <2>3. QueueOK(tq') /\ block' \in BOOLEAN /\ tq' = tq
    BY <1>1 DEF SendBegin, TypeOK
  <2> QED BY <2>1, <2>2, <2>3 DEF TypeOK, NotFinished
<1>2. ASSUME NEW s \in Streams, SendRefused(s) PROVE TypeOK' /\ NotFinished'
  <2>1. SendReturns(s, pc, "einval") /\ tq' = tq
    BY <1>2 DEF SendRefused
  <2> QED BY <2>1, SendReturnsOK, ThreadsAre DEF TypeOK, NotFinished
<1>3. ASSUME NEW s \in Streams, SendWaits(s) PROVE TypeOK' /\ NotFinished'
  <2>1. pc' \in [Threads -> Places] /\ pc'[s] = "waiting" /\ \A r \in Streams \ {s} : pc'[r] = pc[r]
    BY <1>3, ThreadsAre DEF SendWaits, TypeOK, Places
  <2>2. tq' = tq /\ arg' = arg /\ block' = block
    BY <1>3 DEF SendWaits
  <2>3. pc[s] # "idle" /\ s \notin tq.sent
    BY <1>3, InLoopOK DEF SendWaits
  <2> QED BY <2>1, <2>2, <2>3 DEF TypeOK, NotFinished
<1>4. ASSUME NEW s \in Streams, SendEnded(s) PROVE TypeOK' /\ NotFinished'
  <2>1. SendReturns(s, pc, "eof") /\ tq' = SendEnds(tq, s)
    BY <1>4 DEF SendEnded
  <2>2. QueueOK(tq')
    BY <2>1, FlagsOK DEF TypeOK
  <2>3. \A r \in Streams \ {s} : r \notin tq.sent => r \notin tq'.sent
    BY <2>1 DEF SendEnds, TypeOK, QueueOK, Queues
  <2> QED BY <2>1, <2>2, <2>3, SendReturnsOK, ThreadsAre DEF TypeOK, NotFinished
<1>5. ASSUME NEW s \in Streams, SendWrites(s) PROVE TypeOK' /\ NotFinished'
  <2>1. SendReturns(s, Broadcast(pc), "ok") /\ tq' = Write(tq, s, arg[s][1]) /\ ~Full(tq)
    BY <1>5 DEF SendWrites
  <2>2. QueueOK(tq')
    BY <1>5, <2>1, ArgIsItem, InLoopOK, WriteOK DEF SendWrites, TypeOK
  <2>3. tq'.sent = tq.sent
    BY <2>1 DEF Write, TypeOK, QueueOK, Queues
  <2>4. Broadcast(pc) \in [Threads -> Places] /\ \A t \in Threads : Broadcast(pc)[t] = "idle" <=> pc[t] = "idle"
    BY BroadcastOK DEF TypeOK
  <2>5. \A t \in Threads : Broadcast(pc)[t] \in {"waiting", "woken"} => pc[t] \in {"waiting", "woken"}
    BY BroadcastOK DEF TypeOK
  <2> HIDE DEF IInv
  <2>6. TypeOK
    BY DEF IInv
  <2>7. /\ pc' \in [Threads -> Places] /\ DOMAIN arg' = Streams /\ block' \in BOOLEAN
        /\ \A r \in Streams : IF pc'[r] = "idle" THEN arg'[r] = <<>> ELSE arg'[r] \in {<<d>> : d \in Data}
        /\ pc'[s] = "idle" /\ \A t \in Threads \ {s} : pc'[t] = Broadcast(pc)[t]
    BY <2>1, <2>4, <2>6, SendReturnsOK
  <2> QED BY <2>2, <2>3, <2>5, <2>7, ThreadsAre DEF TypeOK, NotFinished, IInv
<1>6. ASSUME NEW s \in Streams, SendFails(s) PROVE TypeOK' /\ NotFinished'
  <2>1. SendReturns(s, pc, "enomem") /\ tq' = WriteFails(tq, s) /\ ~Full(tq)
    BY <1>6 DEF SendFails
  <2>2. QueueOK(tq')
    BY <1>6, <2>1, ArgIsItem, InLoopOK, WriteOK DEF SendFails, TypeOK
  <2>3. tq'.sent = tq.sent
    BY <2>1 DEF WriteFails, TypeOK, QueueOK, Queues
  <2> QED BY <2>1, <2>2, <2>3, SendReturnsOK, ThreadsAre DEF TypeOK, NotFinished
<1>7. ASSUME NEW s \in Streams, SendFinish(s) PROVE TypeOK' /\ NotFinished'
  <2>1. QueueOK(tq')
    BY <1>7, FlagsOK DEF SendFinish, TypeOK
  <2>2. \A r \in Streams : pc'[r] \notin {"waiting", "woken"} \/ (pc[r] \in {"waiting", "woken"} /\ r # s)
    BY <1>7, BroadcastOK, ThreadsAre DEF SendFinish, TypeOK
  <2>3. tq'.sent = tq.sent \cup {s}
    BY <1>7 DEF SendFinish, SendFinished, TypeOK, QueueOK, Queues
  <2>4. pc' \in [Threads -> Places] /\ \A t \in Threads : pc'[t] = "idle" <=> pc[t] = "idle"
    BY <1>7, BroadcastOK DEF SendFinish, TypeOK
  <2>5. arg' = arg /\ block' = block
    BY <1>7 DEF SendFinish
  <2> QED BY <2>1, <2>2, <2>3, <2>4, <2>5, ThreadsAre DEF TypeOK, NotFinished
<1>8. ASSUME NEW b \in BOOLEAN, ReceiveBegin(b) PROVE TypeOK' /\ NotFinished'
  <2>1. pc' \in [Threads -> Places] /\ \A r \in Streams : pc'[r] = pc[r]
    BY <1>8, ThreadsAre DEF ReceiveBegin, TypeOK, Places
  <2>2. tq' = tq /\ arg' = arg /\ block' = b
    BY <1>8 DEF ReceiveBegin
  <2> QED BY <2>1, <2>2 DEF TypeOK, NotFinished
<1>9. ASSUME ReceiveStep PROVE TypeOK' /\ NotFinished'
  <2>1. QueueOK(tq') /\ tq'.sent = tq.sent
    <3>1. tq' = Receive(tq).q
      BY <1>9 DEF ReceiveStep, ReceiveWaits, ReceiveReturns
    <3>2. Receive(tq).q.sent = tq.sent
      BY ReceiveSent DEF TypeOK
    <3> QED BY <3>1, <3>2, ReceiveOK DEF TypeOK
  <2>2. PICK c \in {pc, Broadcast(pc)}, x \in Places : pc' = [c EXCEPT ![Receiver] = x]
    BY <1>9 DEF ReceiveStep, ReceiveWaits, ReceiveReturns, Signalled, Places
  <2>3. /\ pc' \in [Threads -> Places] 
        /\ \A r \in Streams : /\ pc'[r] = "idle" <=> pc[r] = "idle"
                              /\ pc'[r] \in {"waiting", "woken"} => pc[r] \in {"waiting", "woken"}
    BY <2>2, BroadcastOK, ThreadsAre DEF TypeOK, Places
  <2>4. arg' = arg /\ block' \in BOOLEAN
    BY <1>9 DEF ReceiveStep, ReceiveWaits, ReceiveReturns, TypeOK
  <2> QED BY <2>1, <2>3, <2>4 DEF TypeOK, NotFinished
<1>10. ASSUME NEW s \in Streams, ReceiveFinish(s) PROVE TypeOK' /\ NotFinished'
  <2>1. QueueOK(tq') /\ tq'.sent = tq.sent
    BY <1>10, FlagsOK DEF ReceiveFinish, ReceiveFinished, TypeOK, QueueOK, Queues
  <2>2. /\ pc' \in [Threads -> Places] /\ \A t \in Threads : pc'[t] = "idle" <=> pc[t] = "idle"
        /\ \A t \in Threads : pc'[t] # "waiting" /\ (pc'[t] = "woken" => pc[t] \in {"waiting", "woken"})
    BY <1>10, BroadcastOK DEF ReceiveFinish, TypeOK
  <2>3. arg' = arg /\ block' = block
    BY <1>10 DEF ReceiveFinish
  <2> QED BY <2>1, <2>2, <2>3, ThreadsAre DEF TypeOK, NotFinished
<1>11. ASSUME NEW b \in BOOLEAN, Choke(b) PROVE TypeOK' /\ NotFinished'
  <2>1. QueueOK(tq') /\ tq'.sent = tq.sent
    BY <1>11, FlagsOK, StreamsAreNat, QueueAssumption DEF Choke, Choked, TypeOK, QueueOK, Queues, Streams
  <2>2. /\ pc' \in [Threads -> Places] /\ \A t \in Threads : pc'[t] = "idle" <=> pc[t] = "idle"
        /\ \A t \in Threads : pc'[t] \in {"waiting", "woken"} => pc[t] \in {"waiting", "woken"}
    BY <1>11, BroadcastOK DEF Choke, TypeOK
  <2>3. arg' = arg /\ block' = block
    BY <1>11 DEF Choke
  <2> QED BY <2>1, <2>2, <2>3, ThreadsAre DEF TypeOK, NotFinished
<1>12. ASSUME NEW t \in Threads, WakesUp(t) PROVE TypeOK' /\ NotFinished'
  <2>1. /\ pc' \in [Threads -> Places] /\ pc'[t] = "woken" /\ pc[t] = "waiting"
        /\ \A r \in Threads \ {t} : pc'[r] = pc[r]
    BY <1>12 DEF WakesUp, TypeOK, Places
  <2>2. tq' = tq /\ arg' = arg /\ block' = block
    BY <1>12 DEF WakesUp
  <2> QED BY <2>1, <2>2, ThreadsAre DEF TypeOK, NotFinished
<1> QED BY <1>0, <1>1, <1>2, <1>3, <1>4, <1>5, <1>6, <1>7, <1>8, <1>9, <1>10, <1>11, <1>12 DEF Next, SendStep

-----------------------------------------------------------------------------
(***************************************************************************)
(* No lost wake-up.                                                        *)
(***************************************************************************)
\* When a receive has nothing to return.
Silent(q) == q.choked \/ (Wanted(q) = {} /\ Untold(q) = {} /\ ~AllFinished(q))

LEMMA AgainIsSilent ==
    ASSUME NEW q, QueueOK(q)
    PROVE  Receive(q).ret = "again" <=> Silent(q)
<1>1. CASE q.choked
  BY <1>1 DEF Receive, Nothing, Silent
<1>2. CASE ~q.choked /\ Wanted(q) # {}
  <2>1. Receive(q) = NextItem(q)
    BY <1>2 DEF Receive
  <2> QED BY <1>2, <2>1 DEF NextItem, Silent
<1>3. CASE ~q.choked /\ Wanted(q) = {} /\ Untold(q) # {}
  <2>1. Receive(q) = NextEnd(q)
    BY <1>3 DEF Receive
  <2> QED BY <1>3, <2>1 DEF NextEnd, Silent
<1>4. CASE ~q.choked /\ Wanted(q) = {} /\ Untold(q) = {}
  <2>1. Receive(q) = Nothing(q, IF AllFinished(q) THEN "eof" ELSE "again")
    BY <1>4 DEF Receive
  <2> QED BY <1>4, <2>1 DEF Nothing, Silent
<1> QED BY <1>1, <1>2, <1>3, <1>4

\* A receive with nothing to return leaves a queue with nothing to return.
LEMMA SilentStays ==
    ASSUME NEW q, QueueOK(q), Receive(q).ret = "again"
    PROVE  Receive(Receive(q).q).ret = "again"
<1> DEFINE p == DropFirst(q, Len(q.items))
<1>1. Len(q.items) \in Nat /\ Len(q.items) \in 0..Len(q.items)
  BY FieldsOK
<1>2. /\ QueueOK(p) /\ Len(p.items) = Len(q.items) - Len(q.items)
      /\ p.sent = q.sent /\ p.recvd = q.recvd /\ p.choked = q.choked
  BY <1>1, DropFirstOK
<1>0. Len(p.items) = 0
  BY <1>1, <1>2
<1>3. CASE q.choked
  BY <1>3, ReceiveOutcomes
<1>4. CASE ~q.choked
  <2>1. Silent(q)
    BY AgainIsSilent
  <2>2. Receive(q).q = p
    BY <1>4, <2>1, ReceiveOutcomes DEF Silent
  <2>3. Wanted(p) = {}
    BY <1>0 DEF Wanted
  <2>4. Untold(p) = Untold(q) /\ (AllFinished(p) <=> AllFinished(q))
    BY <1>2, StreamsAreNat DEF Untold, AllFinished, QueueOK
  <2>5. Silent(p)
    BY <1>4, <2>1, <2>3, <2>4 DEF Silent
  <2> QED BY <1>2, <2>2, <2>5, AgainIsSilent
<1> QED BY <1>3, <1>4

\* A receive that takes nothing leaves the senders as they are.
LEMMA ReceiveSpares ==
    ASSUME NEW q, QueueOK(q), Len(Receive(q).q.items) = Len(q.items),
           NEW s \in Streams, s \notin q.sent, s \notin q.recvd, Full(q)
    PROVE  s \notin Receive(q).q.recvd /\ Full(Receive(q).q)
<1> DEFINE n == Len(q.items)
           p == DropFirst(q, n)
           l == Lowest(Wanted(q))
<1>1. n \in Nat /\ n \in 0..n /\ QueueOK(p) /\ Len(p.items) = 0
  BY FieldsOK, DropFirstOK
<1>2. p.recvd = q.recvd /\ p.size = q.size /\ (n = 0 => p.index = q.index)
  BY <1>1, DropFirstOK
<1>3. CASE Receive(q).q = q
  BY <1>3
<1>4. CASE Receive(q).q = DropFirst(q, l) /\ l \in 1..n
  <2>1. l \in 0..n
    BY <1>1, <1>4
  <2>2. Len(DropFirst(q, l).items) = n - l
    BY <2>1, DropFirstOK
  <2> QED BY <1>1, <1>4, <2>2
<1>5. CASE Receive(q).q = p
  <2>1. n = 0
    BY <1>1, <1>5
  <2> QED BY <1>2, <1>5, <2>1 DEF Full
<1>6. CASE /\ Receive(q).q = ReceiveFinished(p, Lowest(Untold(q)))
           /\ Lowest(Untold(q)) \in Untold(q)
  <2> DEFINE u == Lowest(Untold(q))
             f == ReceiveFinished(p, u)
  <2>1. f.items = p.items /\ f.index = p.index /\ f.size = p.size /\ f.recvd = p.recvd \cup {u}
    BY <1>1 DEF ReceiveFinished, QueueOK, Queues
  <2>2. n = 0
    BY <1>1, <1>6, <2>1
  <2>3. u # s
    BY <1>6 DEF Untold
  <2> QED BY <1>2, <1>6, <2>1, <2>2, <2>3 DEF Full
<1> QED BY <1>3, <1>4, <1>5, <1>6, ReceiveOutcomes

\* Nobody sleeps after a broadcast.
LEMMA AwakeOK ==
    ASSUME \A t \in Threads : pc'[t] # "waiting"
    PROVE  NoLostWakeup'
BY ThreadsAre DEF NoLostWakeup

LEMMA NextNoLostWakeup ==
    ASSUME IInv, [Next]_vars
    PROVE  NoLostWakeup'
<1>a. TypeOK /\ NotFinished /\ NoLostWakeup /\ QueueOK(tq)
  BY DEF IInv, TypeOK
<1>b. /\ pc \in [Threads -> Places]
      /\ \A s \in Streams : s \in Threads /\ s # Receiver
  BY <1>a, ThreadsAre DEF TypeOK
<1>0. CASE UNCHANGED vars
  BY <1>0, <1>a DEF vars, NoLostWakeup, SenderMustWait, ReceiverMustWait
\* Steps that leave the queue alone and put nobody to sleep.
<1>c. ASSUME tq' = tq, \A t \in Threads : pc'[t] = "waiting" => pc[t] = "waiting",
             pc'[Receiver] = "waiting" => block' = block
      PROVE  NoLostWakeup'
  BY <1>a, <1>c, ThreadsAre DEF NoLostWakeup, SenderMustWait, ReceiverMustWait
<1>1. ASSUME NEW s \in Streams, NEW d \in Data, SendBegin(s, d) PROVE NoLostWakeup'
  BY <1>1, <1>b, <1>c DEF SendBegin
<1>2. ASSUME NEW s \in Streams, SendRefused(s) PROVE NoLostWakeup'
  BY <1>2, <1>b, <1>c DEF SendRefused, SendReturns
<1>3. ASSUME NEW s \in Streams, SendWaits(s) PROVE NoLostWakeup'
  <2>1. tq' = tq /\ block' = block /\ SenderMustWait(s)
    BY <1>3 DEF SendWaits, SenderMustWait
  <2>2. \A t \in Threads \ {s} : pc'[t] = pc[t]
    BY <1>3, <1>b DEF SendWaits
  <2> QED BY <1>a, <1>b, <2>1, <2>2, ThreadsAre DEF NoLostWakeup, SenderMustWait, ReceiverMustWait
<1>4. ASSUME NEW s \in Streams, SendEnded(s) PROVE NoLostWakeup'
  <2>1. /\ \A t \in Threads : pc'[t] = "waiting" => pc[t] = "waiting"
        /\ tq' = SendEnds(tq, s) /\ s \in tq.recvd /\ block' = block
    BY <1>4, <1>b DEF SendEnded, SendReturns
  <2>2. /\ QueueOK(tq') /\ tq'.recvd = tq.recvd /\ tq'.index = tq.index /\ tq'.items = tq.items
        /\ tq'.size = tq.size /\ tq'.choked = tq.choked /\ tq'.sent = tq.sent \cup {s}
    BY <1>a, <2>1, FlagsOK DEF SendEnds, QueueOK, Queues
  <2>3. Silent(tq) => Silent(tq')
    <3>1. Wanted(tq') = Wanted(tq) /\ Untold(tq') = Untold(tq)
      BY <2>1, <2>2 DEF Wanted, Untold
    <3>2. AllFinished(tq') => AllFinished(tq)
      BY <1>a, <2>1, <2>2, StreamsAreNat DEF AllFinished, QueueOK
    <3> QED BY <2>2, <3>1, <3>2 DEF Silent
  <2>4. Receive(tq).ret = "again" => Receive(tq').ret = "again"
    BY <1>a, <2>2, <2>3, AgainIsSilent
  <2>5. \A r \in Streams : SenderMustWait(r) => SenderMustWait(r)'
    BY <2>2 DEF SenderMustWait, Full
  <2> QED BY <1>a, <2>1, <2>4, <2>5, ThreadsAre DEF NoLostWakeup, ReceiverMustWait
<1>5. ASSUME NEW s \in Streams, SendWrites(s) PROVE NoLostWakeup'
  <2>1. \A t \in Threads : pc'[t] # "waiting"
    BY <1>5, <1>b, BroadcastOK DEF SendWrites, SendReturns
  <2> QED BY <2>1, AwakeOK
<1>6. ASSUME NEW s \in Streams, SendFails(s) PROVE NoLostWakeup'
  <2>1. /\ \A t \in Threads : pc'[t] = "waiting" => pc[t] = "waiting"
        /\ tq' = WriteFails(tq, s) /\ block' = block /\ ~Full(tq)
    BY <1>6, <1>b DEF SendFails, SendReturns
  <2>2. /\ QueueOK(tq') /\ tq'.items = tq.items /\ Len(tq'.index) = Len(tq.index) + 1
        /\ \A i \in 1..Len(tq.items) : tq'.index[i] = tq.index[i]
    BY <1>6, <1>a, <2>1, ArgIsItem, InLoopOK, WriteOK DEF SendFails
  <2>3. tq'.recvd = tq.recvd /\ tq'.size = tq.size /\ tq'.choked = tq.choked /\ tq'.sent = tq.sent
    BY <1>a, <2>1 DEF WriteFails, QueueOK, Queues
  <2>4. Silent(tq) => Silent(tq')
    <3>1. Wanted(tq') = Wanted(tq) /\ Untold(tq') = Untold(tq)
      BY <2>2, <2>3 DEF Wanted, Untold
    <3>2. AllFinished(tq') <=> AllFinished(tq)
      BY <1>a, <2>2, <2>3, StreamsAreNat DEF AllFinished, QueueOK
    <3> QED BY <2>3, <3>1, <3>2 DEF Silent
  <2>5. Receive(tq).ret = "again" => Receive(tq').ret = "again"
    BY <1>a, <2>2, <2>4, AgainIsSilent
  <2>6. \A r \in Streams : SenderMustWait(r) => SenderMustWait(r)'
    BY <2>1 DEF SenderMustWait
  <2> QED BY <1>a, <2>1, <2>5, <2>6, ThreadsAre DEF NoLostWakeup, ReceiverMustWait
<1>7. ASSUME NEW s \in Streams, SendFinish(s) PROVE NoLostWakeup'
  BY <1>7, <1>b, BroadcastOK, AwakeOK DEF SendFinish
<1>8. ASSUME NEW b \in BOOLEAN, ReceiveBegin(b) PROVE NoLostWakeup'
  BY <1>8, <1>b, <1>c, ThreadsAre DEF ReceiveBegin
<1>9. ASSUME ReceiveStep PROVE NoLostWakeup'
  <2> DEFINE r == Receive(tq)
  <2>1. /\ tq' = r.q
        /\ \A t \in Streams : pc'[t] = Signalled(r)[t]
        /\ pc'[Receiver] = "waiting" => r.ret = "again" /\ block /\ block' = block
    BY <1>9, <1>b, ThreadsAre, BroadcastOK DEF ReceiveStep, ReceiveWaits, ReceiveReturns, Signalled
  <2>2. pc'[Receiver] = "waiting" => ReceiverMustWait'
    BY <1>a, <2>1, SilentStays DEF ReceiverMustWait
  <2>3. ASSUME NEW s \in Streams, pc'[s] = "waiting" PROVE SenderMustWait(s)'
    <3>1. Len(r.q.items) = Len(tq.items) /\ pc[s] = "waiting"
      BY <2>1, <2>3, <1>b, BroadcastOK DEF Signalled
    <3>2. s \notin tq.sent /\ s \notin tq.recvd /\ Full(tq)
      BY <1>a, <3>1 DEF NotFinished, NoLostWakeup, SenderMustWait
    <3>3. s \notin r.q.recvd /\ Full(r.q)
      BY <1>a, <3>1, <3>2, ReceiveSpares
    <3> QED BY <2>1, <3>3 DEF SenderMustWait
  <2> QED BY <2>2, <2>3 DEF NoLostWakeup
<1>10. ASSUME NEW s \in Streams, ReceiveFinish(s) PROVE NoLostWakeup'
  BY <1>10, <1>b, BroadcastOK, AwakeOK DEF ReceiveFinish
<1>11. ASSUME NEW b \in BOOLEAN, Choke(b) PROVE NoLostWakeup'
  <2>1. CASE b # tq.choked
    BY <1>11, <2>1, <1>b, BroadcastOK, AwakeOK DEF Choke
  <2>2. CASE b = tq.choked
    <3>1. tq' = tq /\ pc' = pc /\ block' = block
      BY <1>11, <2>2, <1>a DEF Choke, Choked, QueueOK, Queues
    <3> QED BY <3>1, <1>c
  <2> QED BY <2>1, <2>2
<1>12. ASSUME NEW t \in Threads, WakesUp(t) PROVE NoLostWakeup'
  BY <1>12, <1>b, <1>c DEF WakesUp
<1> QED BY <1>0, <1>1, <1>2, <1>3, <1>4, <1>5, <1>6, <1>7, <1>8, <1>9, <1>10, <1>11, <1>12 DEF Next, SendStep

LEMMA Inductive == Spec => []IInv
<1>1. IInv /\ [Next]_vars => IInv'
  BY NextTypeOK, NextNoLostWakeup DEF IInv
<1> QED BY InitIInv, <1>1, PTL DEF Spec

\* The index fifo stays within its size and never falls behind the items.
THEOREM TypeCorrect == Spec => []TypeOK
<1>1. IInv => TypeOK
  BY DEF IInv
<1> QED BY <1>1, Inductive, PTL

\* For any number of streams and any size, with allocations failing at will and
\* the queue choked and unchoked at any time, nobody sleeps through its wake-up.
THEOREM NoWakeupIsLost == Spec => []NoLostWakeup
<1>1. IInv => NoLostWakeup
  BY DEF IInv
<1> QED BY <1>1, Inductive, PTL

-----------------------------------------------------------------------------
(***************************************************************************)
(* The part of a sequence at a set of its positions.                       *)
(***************************************************************************)
\* Ranks grow with the positions and number them from 1 to their count.
LEMMA RankGrows ==
    ASSUME NEW n \in Nat, NEW S \in SUBSET (1..n)
    PROVE  /\ IsFiniteSet(S) /\ Cardinality(S) \in Nat
           /\ \A i \in S : Rank(S, i) \in 1..Cardinality(S)
           /\ \A i, j \in S : i < j => Rank(S, i) < Rank(S, j)
<1>1. IsFiniteSet(S) /\ Cardinality(S) \in Nat
  <2>1. IsFiniteSet(1..n)
    BY FS_Interval
  <2> QED BY <2>1, FS_Subset, FS_CardinalityType
<1> DEFINE To(i) == {j \in S : j <= i}
<1>2. \A i \in S : IsFiniteSet(To(i)) /\ Cardinality(To(i)) \in Nat
                   /\ Cardinality(To(i)) <= Cardinality(S)
  <2> TAKE i \in S
  <2>1. To(i) \in SUBSET S
    OBVIOUS
  <2> QED BY <1>1, <2>1, FS_Subset, FS_CardinalityType
<1>3. \A i \in S : Cardinality(To(i)) # 0
  <2> TAKE i \in S
  <2>1. i \in To(i)
    OBVIOUS
  <2> QED BY <1>2, <2>1, FS_EmptySet
<1>4. ASSUME NEW i \in S, NEW j \in S, i < j
      PROVE  Cardinality(To(i)) < Cardinality(To(j))
  <2>1. \A k \in S : k \in Nat
    OBVIOUS
  <2>2. (\A k \in S : k <= i => k <= j) /\ j <= j /\ ~(j <= i)
    BY <1>4, <2>1
  <2>3. To(i) \in SUBSET To(j) /\ j \in To(j) /\ j \notin To(i)
    BY <2>2
  <2>4. Cardinality(To(i)) <= Cardinality(To(j)) /\ Cardinality(To(j)) # Cardinality(To(i))
    BY <1>2, <2>3, FS_Subset
  <2> QED BY <1>2, <2>4
<1>5. \A i \in S : Rank(S, i) = Cardinality(To(i))
  BY DEF Rank
<1> HIDE DEF To
<1> QED BY <1>1, <1>2, <1>3, <1>4, <1>5

\* Nth and Rank are inverse to each other.
LEMMA NthIsRanked ==
    ASSUME NEW n \in Nat, NEW S \in SUBSET (1..n)
    PROVE  /\ \A k \in 1..Cardinality(S) : Nth(S, k) \in S /\ Rank(S, Nth(S, k)) = k
           /\ \A i \in S : Nth(S, Rank(S, i)) = i
<1> DEFINE c == Cardinality(S)
           f == [i \in S |-> Rank(S, i)]
<1>1. IsFiniteSet(S) /\ c \in Nat /\ f \in [S -> 1..c]
  BY RankGrows
<1>2. \A i, j \in S : i # j => f[i] # f[j]
  <2> SUFFICES ASSUME NEW i \in S, NEW j \in S, i # j PROVE f[i] # f[j]
    OBVIOUS
  <2>1. i \in 1..n /\ j \in 1..n
    OBVIOUS
  <2>2. i < j \/ j < i
    BY <2>1
  <2>3. f[i] = Rank(S, i) /\ f[j] = Rank(S, j)
    OBVIOUS
  <2>4. Rank(S, i) \in Nat /\ Rank(S, j) \in Nat
    BY <1>1, <2>3
  <2>5. Rank(S, i) < Rank(S, j) \/ Rank(S, j) < Rank(S, i)
    BY <2>2, RankGrows
  <2> QED BY <2>3, <2>4, <2>5
<1>3. f \in Injection(S, 1..c)
  BY <1>1, <1>2 DEF Injection, IsInjective
<1>4. IsFiniteSet(1..c) /\ Cardinality(1..c) = c
  BY <1>1, FS_Interval
<1>5. f \in Surjection(S, 1..c)
  BY <1>3, <1>4, FS_Injection
<1>6. \A k \in 1..c : \E i \in S : f[i] = k
  BY <1>5 DEF Surjection
<1>7. \A k \in 1..c : Nth(S, k) \in S /\ Rank(S, Nth(S, k)) = k
  BY <1>6 DEF Nth
<1>8. \A i \in S : Nth(S, Rank(S, i)) = i
  <2> TAKE i \in S
  <2>1. Rank(S, i) \in 1..c
    BY RankGrows
  <2>2. Nth(S, Rank(S, i)) \in S /\ Rank(S, Nth(S, Rank(S, i))) = Rank(S, i)
    BY <1>7, <2>1
  <2> QED BY <1>2, <2>2
<1> QED BY <1>7, <1>8

LEMMA SublistIs ==
    ASSUME NEW D, NEW s \in Seq(D), NEW S \in SUBSET (1..Len(s))
    PROVE  /\ Sublist(s, S) \in Seq(D)
           /\ Len(Sublist(s, S)) = Cardinality(S) /\ Cardinality(S) \in Nat
           /\ \A k \in 1..Cardinality(S) : Sublist(s, S)[k] = s[Nth(S, k)]
           /\ S = {} => Sublist(s, S) = <<>>
<1>0. Len(s) \in Nat
  BY LenProperties
<1>1. Cardinality(S) \in Nat
  BY <1>0, RankGrows
<1>2. \A k \in 1..Cardinality(S) : s[Nth(S, k)] \in D
  <2>1. \A k \in 1..Cardinality(S) : Nth(S, k) \in S
    BY <1>0, NthIsRanked
  <2>2. \A i \in S : s[i] \in D
    BY ElementOfSeq
  <2> QED BY <2>1, <2>2
<1>3. Sublist(s, S) \in [1..Cardinality(S) -> D]
  BY <1>2 DEF Sublist
<1>4. S = {} => Cardinality(S) = 0
  BY FS_EmptySet
<1> QED BY <1>1, <1>3, <1>4 DEF Sublist

\* A sequence with the right elements at the right ranks is the sublist.
LEMMA SublistIsUnique ==
    ASSUME NEW D, NEW s \in Seq(D), NEW S \in SUBSET (1..Len(s)),
           NEW r \in Seq(D), Len(r) = Cardinality(S),
           \A i \in S : r[Rank(S, i)] = s[i]
    PROVE  r = Sublist(s, S)
<1>1. /\ Sublist(s, S) \in Seq(D) /\ Len(Sublist(s, S)) = Len(r)
      /\ \A k \in 1..Len(r) : Sublist(s, S)[k] = s[Nth(S, k)]
  BY SublistIs
<1>2. \A k \in 1..Len(r) : r[k] = Sublist(s, S)[k]
  <2> TAKE k \in 1..Len(r)
  <2>0. Len(s) \in Nat
    BY LenProperties
  <2>1. Nth(S, k) \in S /\ Rank(S, Nth(S, k)) = k
    BY <2>0, NthIsRanked
  <2> QED BY <1>1, <2>1
<1> QED BY <1>1, <1>2, SeqEqual

\* Positions of what was there keep their ranks when the sequence grows to a by d.
Grows(s, a, d) ==
    /\ Len(a) = Len(s) + 1 /\ a[Len(s) + 1] = d
    /\ \A i \in 1..Len(s) : a[i] = s[i]

LEMMA SublistGrows ==
    ASSUME NEW D, NEW s \in Seq(D), NEW S \in SUBSET (1..Len(s)),
           NEW a \in Seq(D), NEW d \in D, Grows(s, a, d)
    PROVE  /\ Sublist(a, S) = Sublist(s, S)
           /\ Grows(Sublist(s, S), Sublist(a, S \cup {Len(s) + 1}), d)
<1> DEFINE m == Len(s) + 1
           T == S \cup {m}
           c == Cardinality(S)
<1>1. /\ Len(a) = m /\ a[m] = d /\ \A i \in 1..Len(s) : a[i] = s[i]
      /\ Len(s) \in Nat /\ m \notin S
  BY DEF Grows
<1>2. S \in SUBSET (1..Len(a)) /\ T \in SUBSET (1..Len(a))
  <2>1. \A i \in 1..Len(s) : i \in 1..m
    BY <1>1
  <2>2. m \in 1..m
    BY <1>1
  <2> QED BY <1>1, <2>1, <2>2
<1>3. /\ Sublist(s, S) \in Seq(D) /\ Len(Sublist(s, S)) = c /\ c \in Nat
      /\ \A k \in 1..c : Sublist(s, S)[k] = s[Nth(S, k)]
  BY SublistIs
<1>4. \A i \in S : Rank(S, i) \in 1..c /\ Sublist(s, S)[Rank(S, i)] = s[i]
  BY <1>1, <1>3, RankGrows, NthIsRanked
<1>5. Sublist(a, S) = Sublist(s, S)
  <2>1. \A i \in S : Sublist(s, S)[Rank(S, i)] = a[i]
    BY <1>1, <1>4
  <2> QED BY <1>1, <1>2, <1>3, <2>1, SublistIsUnique
<1>6. IsFiniteSet(S) /\ Cardinality(T) = c + 1
  BY <1>1, RankGrows, FS_AddElement
<1>7. \A i \in S : Rank(T, i) = Rank(S, i)
  <2> TAKE i \in S
  <2>1. {j \in T : j <= i} = {j \in S : j <= i}
    BY <1>1
  <2> QED BY <2>1 DEF Rank
<1>8. Rank(T, m) = c + 1
  <2>1. \A j \in T : j <= m
    BY <1>1
  <2>2. {j \in T : j <= m} = T
    BY <2>1
  <2> QED BY <1>6, <2>2 DEF Rank
<1> HIDE DEF T, m, c
<1>9. /\ Sublist(a, T) \in Seq(D) /\ Len(Sublist(a, T)) = c + 1
      /\ \A k \in 1..c + 1 : Sublist(a, T)[k] = a[Nth(T, k)]
  BY <1>2, <1>6, SublistIs
<1>10. Nth(T, c + 1) = m /\ \A i \in S : Nth(T, Rank(S, i)) = i
  <2>1. Len(a) \in Nat
    BY <1>1, <1>2 DEF m
  <2>2. \A i \in T : Nth(T, Rank(T, i)) = i
    BY <1>2, <2>1, NthIsRanked
  <2> QED BY <1>7, <1>8, <2>2 DEF T
<1>11. \A k \in 1..c : Nth(S, k) \in S /\ Rank(S, Nth(S, k)) = k
  BY <1>1, NthIsRanked DEF c
<1>12. \A k \in 1..c : Sublist(a, T)[k] = Sublist(s, S)[k]
  <2> TAKE k \in 1..c
  <2>1. Nth(T, k) = Nth(S, k) /\ Nth(S, k) \in S
    BY <1>10, <1>11
  <2>2. k \in 1..c + 1
    BY <1>3
  <2> QED BY <1>1, <1>3, <1>9, <2>1, <2>2
<1>13. Sublist(a, T)[c + 1] = d
  BY <1>1, <1>3, <1>9, <1>10
<1> QED BY <1>3, <1>5, <1>9, <1>12, <1>13 DEF Grows, T, m

LEMMA GrowsAppends ==
    ASSUME NEW D, NEW s \in Seq(D), NEW a \in Seq(D), NEW d \in D
    PROVE  Grows(s, a, d) <=> a = Append(s, d)
<1>1. /\ Append(s, d) \in Seq(D) /\ Len(Append(s, d)) = Len(s) + 1
      /\ Append(s, d)[Len(s) + 1] = d /\ \A i \in 1..Len(s) : Append(s, d)[i] = s[i]
  BY AppendProperties
<1>2. ASSUME Grows(s, a, d) PROVE a = Append(s, d)
  <2>1. \A i \in 1..Len(s) + 1 : i \in 1..Len(s) \/ i = Len(s) + 1
    OBVIOUS
  <2>2. Len(a) = Len(Append(s, d)) /\ \A i \in 1..Len(a) : a[i] = Append(s, d)[i]
    BY <1>1, <1>2, <2>1 DEF Grows
  <2> QED BY <1>1, <2>2, SeqEqual
<1> QED BY <1>1, <1>2 DEF Grows

\* Moving a set of numbers down does not change how many they are.
LEMMA ShiftedCount ==
    ASSUME NEW n \in Nat, NEW U \in SUBSET Nat, IsFiniteSet(U)
    PROVE  Cardinality({i - n : i \in U}) = Cardinality(U)
<1> DEFINE T == {i - n : i \in U}
           f == [i \in U |-> i - n]
<1>1. f \in [U -> T] /\ \A i, j \in U : f[i] = f[j] => i = j
  OBVIOUS
<1>2. \A x \in T : \E i \in U : f[i] = x
  OBVIOUS
<1>3. f \in Bijection(U, T)
  BY <1>1, <1>2 DEF Bijection, Injection, Surjection, IsInjective
<1>4. ExistsBijection(U, T)
  BY <1>3 DEF ExistsBijection
<1> QED BY <1>4, FS_Bijection

\* What is left of a sublist when the first n elements go: all of it but the
\* elements that were among them.
LEMMA SublistDropped ==
    ASSUME NEW D, NEW s \in Seq(D), NEW S \in SUBSET (1..Len(s)), NEW n \in 0..Len(s)
    PROVE  LET gone == Cardinality({i \in S : i <= n})
               T    == {i - n : i \in {j \in S : n < j}}
           IN  /\ T \in SUBSET (1..Len(s) - n)
               /\ gone \in 0..Cardinality(S)
               /\ Sublist(SubSeq(s, n + 1, Len(s)), T)
                    = SubSeq(Sublist(s, S), gone + 1, Cardinality(S))
<1> DEFINE low  == {i \in S : i <= n}
           high == {j \in S : n < j}
           gone == Cardinality(low)
           T    == {i - n : i \in high}
           c    == Cardinality(S)
           rest == SubSeq(s, n + 1, Len(s))
<1>0. Len(s) \in Nat /\ n \in Nat /\ n <= Len(s) /\ \A i \in S : i \in Nat /\ i <= Len(s) /\ 1 <= i
  OBVIOUS
<1>1. T \in SUBSET (1..Len(s) - n)
  BY <1>0
<1>2. /\ IsFiniteSet(S) /\ c \in Nat
      /\ \A i \in S : Rank(S, i) \in 1..c
  BY <1>0, RankGrows
<1>3. /\ low \in SUBSET S /\ high \in SUBSET S /\ low \cup high = S /\ low \cap high = {}
  <2>1. \A i \in S : i <= n <=> ~(n < i)
    BY <1>0
  <2> QED BY <2>1
<1>4. IsFiniteSet(low) /\ IsFiniteSet(high) /\ gone \in Nat /\ Cardinality(high) \in Nat
  BY <1>2, <1>3, FS_Subset, FS_CardinalityType
<1>5. c = gone + Cardinality(high)
  <2>1. Cardinality(low \cup high) = gone + Cardinality(high) - Cardinality(low \cap high)
    BY <1>4, FS_Union
  <2>2. Cardinality(low \cap high) = 0
    BY <1>3, FS_EmptySet
  <2>3. c = gone + Cardinality(high) - Cardinality(low \cap high)
    BY <1>3, <2>1
  <2> HIDE DEF low, high, gone, c
  <2> QED BY <1>4, <2>2, <2>3
<1>6. Cardinality(T) = Cardinality(high)
  <2>1. high \in SUBSET Nat
    BY <1>0
  <2> QED BY <1>0, <1>4, <2>1, ShiftedCount
<1>7. \A i \in high : Rank(T, i - n) = Rank(S, i) - gone
  <2> SUFFICES ASSUME NEW i \in high PROVE Rank(T, i - n) = Rank(S, i) - gone
    OBVIOUS
  <2> DEFINE U == {j \in high : j <= i}
  <2>1. U \in SUBSET Nat /\ U \in SUBSET high /\ IsFiniteSet(U) /\ Cardinality(U) \in Nat
    BY <1>0, <1>4, FS_Subset, FS_CardinalityType
  <2>2. {j \in S : j <= i} = low \cup U /\ low \cap U = {}
    <3>1. i \in S /\ n < i
      OBVIOUS
    <3>2. \A j \in S : /\ j <= n <=> ~(n < j)
                       /\ j <= n => j <= i
      BY <1>0, <3>1
    <3> QED BY <3>2
  <2>3. Rank(S, i) = gone + Cardinality(U)
    <3>1. Cardinality(low \cup U) = gone + Cardinality(U) - Cardinality(low \cap U)
      BY <1>4, <2>1, FS_Union
    <3>2. Cardinality(low \cap U) = 0
      BY <2>2, FS_EmptySet
    <3>3. Rank(S, i) = Cardinality(low \cup U)
      BY <2>2 DEF Rank
    <3> HIDE DEF low, U
    <3> QED BY <1>4, <2>1, <3>1, <3>2, <3>3
  <2>4. {k \in T : k <= i - n} = {j - n : j \in U}
    BY <1>0
  <2>5. Rank(T, i - n) = Cardinality(U)
    BY <1>0, <2>1, <2>4, ShiftedCount DEF Rank
  <2> QED BY <1>4, <2>1, <2>3, <2>5
<1>8. /\ rest \in Seq(D) /\ Len(rest) = Len(s) - n
      /\ \A k \in 1..Len(s) - n : rest[k] = s[n + k]
  BY <1>0
<1>9. /\ Sublist(s, S) \in Seq(D) /\ Len(Sublist(s, S)) = c
      /\ \A i \in S : Sublist(s, S)[Rank(S, i)] = s[i]
  <2>1. /\ Sublist(s, S) \in Seq(D) /\ Len(Sublist(s, S)) = c
        /\ \A k \in 1..c : Sublist(s, S)[k] = s[Nth(S, k)]
    BY SublistIs
  <2>2. \A i \in S : Nth(S, Rank(S, i)) = i
    BY <1>0, NthIsRanked
  <2> QED BY <1>2, <2>1, <2>2
<1> DEFINE r == SubSeq(Sublist(s, S), gone + 1, c)
<1>10. /\ r \in Seq(D) /\ Len(r) = c - gone
       /\ \A k \in 1..c - gone : r[k] = Sublist(s, S)[gone + k]
  <2>1. gone + 1 \in 1..c + 1 /\ c - gone \in Nat
    BY <1>2, <1>4, <1>5
  <2> HIDE DEF gone, c
  <2>2. r = [k \in 1..c - gone |-> Sublist(s, S)[gone + k]]
    BY <1>2, <1>4, <1>9, <2>1
  <2>3. r \in Seq(D) /\ Len(r) = c - gone
    <3>1. \A k \in 1..c - gone : gone + k \in 1..c
      BY <1>2, <1>4, <2>1
    <3>2. \A k \in 1..c : Sublist(s, S)[k] \in D
      BY <1>9, ElementOfSeq
    <3>3. \A k \in 1..c - gone : Sublist(s, S)[gone + k] \in D
      BY <3>1, <3>2
    <3>4. [k \in 1..c - gone |-> Sublist(s, S)[gone + k]] \in [1..c - gone -> D]
      BY <3>3
    <3> HIDE DEF r
    <3> QED BY <2>1, <2>2, <3>4
  <2> HIDE DEF r
  <2> QED BY <2>2, <2>3
<1> HIDE DEF r, rest, T, gone, c, low
<1>11. \A x \in T : r[Rank(T, x)] = rest[x]
  <2> SUFFICES ASSUME NEW i \in high PROVE r[Rank(T, i - n)] = rest[i - n]
    BY DEF T
  <2>1. i \in S /\ n < i
    OBVIOUS
  <2>2. Rank(S, i) \in Nat /\ Rank(S, i) \in 1..c /\ Rank(T, i - n) = Rank(S, i) - gone
    BY <1>2, <1>7, <2>1
  <2>3. i - n \in T
    BY DEF T
  <2>4. Rank(T, i - n) \in 1..Cardinality(T)
    <3>1. Len(s) - n \in Nat
      BY <1>0
    <3> QED BY <1>1, <2>3, <3>1, RankGrows
  <2>5. Rank(T, i - n) \in 1..c - gone /\ gone + Rank(T, i - n) = Rank(S, i)
    BY <1>2, <1>4, <1>5, <1>6, <2>2, <2>4
  <2>6. r[Rank(T, i - n)] = s[i]
    BY <1>9, <1>10, <2>1, <2>5
  <2>7. i - n \in 1..Len(s) - n /\ n + (i - n) = i
    BY <1>0, <2>1
  <2> QED BY <1>8, <2>6, <2>7
<1>12. r = Sublist(rest, T)
  <2>1. Len(r) = Cardinality(T)
    BY <1>4, <1>5, <1>6, <1>10
  <2>2. T \in SUBSET (1..Len(rest))
    BY <1>1, <1>8
  <2> QED BY <1>8, <1>10, <1>11, <2>1, <2>2, SublistIsUnique
<1>13. gone \in 0..c
  BY <1>2, <1>4, <1>5
<1> QED BY <1>1, <1>12, <1>13 DEF r, rest, T, gone, c, low

-----------------------------------------------------------------------------
(***************************************************************************)
(* The refinement: what each critical section does to the channels, read   *)
(* off a queue whose two fifos are in step.                                *)
(***************************************************************************)
LEMMA OwnPositions ==
    ASSUME NEW q, QueueOK(q), NEW s
    PROVE  Own(q, s) \in SUBSET (1..Len(q.items))
BY DEF Own, Wanted

LEMMA NothingWanted ==
    ASSUME NEW q, QueueOK(q), Wanted(q) = {}, NEW s
    PROVE  Sublist(q.items, Own(q, s)) = <<>>
<1>1. Own(q, s) = {}
  BY DEF Own
<1> QED BY <1>1, OwnPositions, FieldsOK, SublistIs

\* An accepted item goes to the end of its stream's channel, and to no other.
LEMMA WriteAppends ==
    ASSUME NEW q, QueueOK(q), Len(q.index) = Len(q.items),
           NEW s \in Streams, s \notin q.recvd, NEW d \in Data,
           NEW r \in Streams
    PROVE  Sublist(Write(q, s, d).items, Own(Write(q, s, d), r))
             = IF r = s THEN Append(Sublist(q.items, Own(q, s)), d)
               ELSE Sublist(q.items, Own(q, r))
<1> DEFINE w == Write(q, s, d)
           m == Len(q.items) + 1
<1>1. /\ q.index \in Seq(Streams) /\ q.items \in Seq(Data) /\ Len(q.items) \in Nat
  BY FieldsOK
<1>2. w.index = Append(q.index, s) /\ w.items = Append(q.items, d) /\ w.recvd = q.recvd
  BY DEF Write, QueueOK, Queues
<1>3. /\ Len(w.items) = m /\ w.index[m] = s /\ m \notin 1..Len(q.items)
      /\ \A i \in 1..Len(q.items) : w.index[i] = q.index[i]
  BY <1>1, <1>2, AppendProperties
<1>4. \A i : i \in 1..m <=> i \in 1..Len(q.items) \/ i = m
  BY <1>1
<1>5. Own(w, r) = IF r = s THEN Own(q, r) \cup {m} ELSE Own(q, r)
  <2> HIDE DEF w, m
  <2> QED BY <1>2, <1>3, <1>4 DEF Own, Wanted
<1>6. Own(q, r) \in SUBSET (1..Len(q.items))
  BY OwnPositions
<1>7. /\ Sublist(w.items, Own(q, r)) = Sublist(q.items, Own(q, r))
      /\ Sublist(w.items, Own(q, r) \cup {m}) = Append(Sublist(q.items, Own(q, r)), d)
  <2> DEFINE own == Own(q, r)
             it  == q.items
             wi  == w.items
  <2>1. /\ it \in Seq(Data) /\ own \in SUBSET (1..Len(it))
        /\ wi \in Seq(Data) /\ Grows(it, wi, d)
    <3>1. wi \in Seq(Data) /\ wi = Append(it, d) /\ it \in Seq(Data)
      BY <1>1, <1>2, AppendProperties
    <3> HIDE DEF it, wi
    <3>2. Grows(it, wi, d)
      BY <3>1, GrowsAppends
    <3> QED BY <1>6, <3>1, <3>2 DEF it
  <2> HIDE DEF own, it, wi
  <2>2. /\ Sublist(wi, own) = Sublist(it, own)
        /\ Grows(Sublist(it, own), Sublist(wi, own \cup {Len(it) + 1}), d)
    BY <2>1, SublistGrows
  <2>3. Sublist(it, own) \in Seq(Data) /\ Sublist(wi, own \cup {Len(it) + 1}) \in Seq(Data)
    <3>1. Len(it) \in Nat /\ Len(wi) = Len(it) + 1
      BY <2>1 DEF Grows
    <3>2. \A i \in 1..Len(it) : i \in 1..Len(wi)
      BY <3>1
    <3>3. Len(it) + 1 \in 1..Len(wi)
      BY <3>1
    <3>4. own \cup {Len(it) + 1} \in SUBSET (1..Len(wi))
      BY <2>1, <3>2, <3>3
    <3> QED BY <2>1, <3>4, SublistIs
  <2> DEFINE x == Sublist(it, own)
             y == Sublist(wi, own \cup {Len(it) + 1})
  <2>4. x \in Seq(Data) /\ y \in Seq(Data) /\ Grows(x, y, d)
    BY <2>2, <2>3
  <2> HIDE DEF x, y
  <2>5. y = Append(x, d)
    BY <2>4, GrowsAppends
  <2> QED BY <2>2, <2>5 DEF own, it, wi, x, y
<1> QED BY <1>5, <1>7

\* Dropping from the front takes from a channel what it had there.
LEMMA DropFirstDrops ==
    ASSUME NEW q, QueueOK(q), NEW n \in 0..Len(q.items), NEW r \in Streams
    PROVE  LET own  == Own(q, r)
               gone == Cardinality({i \in own : i <= n})
           IN  /\ gone \in 0..Cardinality(own)
               /\ Sublist(DropFirst(q, n).items, Own(DropFirst(q, n), r))
                    = SubSeq(Sublist(q.items, own), gone + 1, Cardinality(own))
<1> DEFINE p   == DropFirst(q, n)
           own == Own(q, r)
           T   == {i - n : i \in {j \in own : n < j}}
<1>1. /\ q.index \in Seq(Streams) /\ q.items \in Seq(Data)
      /\ Len(q.items) \in Nat /\ Len(q.index) \in Nat /\ Len(q.items) <= Len(q.index)
  BY FieldsOK
<1>2. /\ p.index = SubSeq(q.index, n + 1, Len(q.index))
      /\ p.items = SubSeq(q.items, n + 1, Len(q.items))
      /\ p.recvd = q.recvd
  BY DEF DropFirst, QueueOK, Queues
<1>3. Len(p.items) = Len(q.items) - n
  BY DropFirstOK
<1>4. \A x \in 1..Len(q.items) - n : p.index[x] = q.index[n + x]
  BY <1>1, <1>2
<1> HIDE DEF p
<1>5. Own(p, r) = T
  <2>1. ASSUME NEW x \in Own(p, r) PROVE x \in T
    <3>1. x \in 1..Len(q.items) - n /\ p.index[x] \notin q.recvd /\ p.index[x] = r
      BY <1>2, <1>3 DEF Own, Wanted
    <3>2. n + x \in 1..Len(q.items) /\ n < n + x /\ (n + x) - n = x
      BY <1>1, <3>1
    <3>3. n + x \in own
      BY <1>4, <3>1, <3>2 DEF Own, Wanted
    <3> QED BY <3>2, <3>3
  <2>2. ASSUME NEW i \in own, n < i PROVE i - n \in Own(p, r)
    <3>1. i \in 1..Len(q.items) /\ q.index[i] \notin q.recvd /\ q.index[i] = r
      BY DEF Own, Wanted
    <3>2. i - n \in 1..Len(q.items) - n /\ n + (i - n) = i
      BY <1>1, <2>2, <3>1
    <3>3. p.index[i - n] = q.index[i]
      BY <1>4, <3>2
    <3> QED BY <1>2, <1>3, <3>1, <3>2, <3>3 DEF Own, Wanted
  <2> QED BY <2>1, <2>2
<1>6. own \in SUBSET (1..Len(q.items))
  BY OwnPositions
<1> DEFINE gone == Cardinality({i \in own : i <= n})
<1>7. /\ gone \in 0..Cardinality(own)
      /\ Sublist(SubSeq(q.items, n + 1, Len(q.items)), T)
           = SubSeq(Sublist(q.items, own), gone + 1, Cardinality(own))
  <2> HIDE DEF own
  <2> QED BY <1>1, <1>6, SublistDropped
<1> HIDE DEF T, gone
<1>8. Sublist(p.items, Own(p, r)) = SubSeq(Sublist(q.items, own), gone + 1, Cardinality(own))
  BY <1>2, <1>5, <1>7
<1> QED BY <1>7, <1>8 DEF p, gone

\* The oldest wanted item is the head of its stream's channel, and the other
\* channels have nothing before it.
LEMMA NextItemTakes ==
    ASSUME NEW q, QueueOK(q), Wanted(q) # {}, NEW r \in Streams
    PROVE  LET l == Lowest(Wanted(q))
               s == q.index[l]
               p == DropFirst(q, l)
           IN  /\ s \in Streams /\ s \notin q.recvd
               /\ Sublist(q.items, Own(q, s)) # <<>>
               /\ Head(Sublist(q.items, Own(q, s))) = q.items[l]
               /\ Sublist(p.items, Own(p, r)) = IF r = s THEN Tail(Sublist(q.items, Own(q, s)))
                                                ELSE Sublist(q.items, Own(q, r))
<1> DEFINE l == Lowest(Wanted(q))
           s == q.index[l]
           p == DropFirst(q, l)
           chan(x) == Sublist(q.items, Own(q, x))
<1>1. /\ q.index \in Seq(Streams) /\ q.items \in Seq(Data)
      /\ Len(q.items) \in Nat /\ Len(q.index) \in Nat /\ Len(q.items) <= Len(q.index)
  BY FieldsOK
<1>2. l \in Wanted(q) /\ \A i \in Wanted(q) : l <= i
  <2>1. Wanted(q) \subseteq Nat
    BY <1>1 DEF Wanted
  <2> QED BY <2>1, LowestIsLeast
<1> HIDE DEF l
<1>3. l \in 1..Len(q.items) /\ s \notin q.recvd /\ l \in 0..Len(q.items)
  BY <1>1, <1>2 DEF Wanted
<1>4. s \in Streams
  <2>1. l \in 1..Len(q.index)
    BY <1>1, <1>3
  <2> QED BY <1>1, <2>1, ElementOfSeq
<1>5. \A x \in Streams : /\ Own(q, x) \in SUBSET (1..Len(q.items))
                         /\ chan(x) \in Seq(Data) /\ Len(chan(x)) = Cardinality(Own(q, x))
                         /\ \A k \in 1..Cardinality(Own(q, x)) :
                              chan(x)[k] = q.items[Nth(Own(q, x), k)]
  BY <1>1, OwnPositions, SublistIs
<1>6. \A x \in Streams : {i \in Own(q, x) : i <= l} = IF x = s THEN {l} ELSE {}
  <2> TAKE x \in Streams
  <2>1. \A i \in Own(q, x) : i \in Nat /\ i \in Wanted(q) /\ q.index[i] = x
    BY <1>1 DEF Own, Wanted
  <2>2. \A i \in Own(q, x) : i <= l => i = l
    BY <1>2, <1>3, <2>1
  <2>3. l \in Own(q, s) /\ l <= l
    BY <1>2, <1>3 DEF Own
  <2> QED BY <2>1, <2>2, <2>3
<1>7. Rank(Own(q, s), l) = 1 /\ l \in Own(q, s)
  <2>1. l \in Own(q, s)
    BY <1>2 DEF Own
  <2> QED BY <1>4, <1>6, <2>1, FS_Singleton DEF Rank
<1>8. Nth(Own(q, s), 1) = l /\ 1 \in 1..Cardinality(Own(q, s))
  <2>1. Own(q, s) \in SUBSET (1..Len(q.items))
    BY <1>4, <1>5
  <2>2. Nth(Own(q, s), Rank(Own(q, s), l)) = l
    BY <1>1, <1>7, <2>1, NthIsRanked
  <2>3. Rank(Own(q, s), l) \in 1..Cardinality(Own(q, s))
    BY <1>1, <1>7, <2>1, RankGrows
  <2> QED BY <1>7, <2>2, <2>3
<1> HIDE DEF chan, s
<1>9. chan(s) # <<>> /\ Head(chan(s)) = q.items[l]
  <2>1. chan(s) \in Seq(Data) /\ Len(chan(s)) # 0 /\ chan(s)[1] = q.items[l]
    BY <1>4, <1>5, <1>8
  <2> QED BY <2>1
<1>10. Sublist(p.items, Own(p, r)) = IF r = s THEN Tail(chan(s)) ELSE chan(r)
  <2>1. Sublist(p.items, Own(p, r))
          = SubSeq(chan(r), Cardinality({i \in Own(q, r) : i <= l}) + 1, Len(chan(r)))
    BY <1>3, <1>5, DropFirstDrops DEF chan
  <2>2. CASE r = s
    <3>1. Cardinality({i \in Own(q, r) : i <= l}) = 1
      BY <1>6, <2>2, FS_Singleton
    <3>2. SubSeq(chan(s), 2, Len(chan(s))) = Tail(chan(s))
      BY <1>4, <1>5, <1>9
    <3>3. Cardinality({i \in Own(q, r) : i <= l}) + 1 = 2
      BY <3>1
    <3> QED BY <2>1, <2>2, <3>2, <3>3
  <2>3. CASE r # s
    <3>1. Cardinality({i \in Own(q, r) : i <= l}) = 0
      BY <1>6, <2>3, FS_EmptySet
    <3>2. SubSeq(chan(r), 1, Len(chan(r))) = chan(r)
      BY <1>5, SubSeqFull
    <3>3. Cardinality({i \in Own(q, r) : i <= l}) + 1 = 1
      BY <3>1
    <3> QED BY <2>1, <2>3, <3>2, <3>3
  <2> QED BY <2>2, <2>3
<1> QED BY <1>3, <1>4, <1>9, <1>10 DEF chan, l, s

\* All channels of a queue together.
Chan(q) == [s \in Streams |-> Sublist(q.items, Own(q, s))]

LEMMA ChanIs ==
    ASSUME NEW q, QueueOK(q)
    PROVE  Chan(q) \in [Streams -> Seq(Data)]
<1>1. \A s \in Streams : Sublist(q.items, Own(q, s)) \in Seq(Data)
  BY FieldsOK, OwnPositions, SublistIs
<1> QED BY <1>1 DEF Chan

LEMMA ChanOfWrite ==
    ASSUME NEW q, QueueOK(q), Len(q.index) = Len(q.items),
           NEW s \in Streams, s \notin q.recvd, NEW d \in Data
    PROVE  Chan(Write(q, s, d)) = [Chan(q) EXCEPT ![s] = @ \o <<d>>]
<1> DEFINE w == Write(q, s, d)
<1>1. \A r \in Streams : Chan(w)[r] = IF r = s THEN Append(Chan(q)[s], d) ELSE Chan(q)[r]
  <2> TAKE r \in Streams
  <2>1. Sublist(w.items, Own(w, r)) = IF r = s THEN Append(Sublist(q.items, Own(q, s)), d)
                                      ELSE Sublist(q.items, Own(q, r))
    BY WriteAppends
  <2> HIDE DEF w
  <2> QED BY <2>1 DEF Chan
<1>2. Append(Chan(q)[s], d) = Chan(q)[s] \o <<d>>
  <2>1. Chan(q)[s] \in Seq(Data)
    BY ChanIs
  <2> QED BY <2>1
<1>3. Chan(w) = [r \in Streams |-> Chan(w)[r]] /\ Chan(q) \in [Streams -> Seq(Data)]
  BY ChanIs DEF Chan
<1> HIDE DEF w
<1>4. \A r \in Streams : Chan(w)[r] = [Chan(q) EXCEPT ![s] = @ \o <<d>>][r]
  BY <1>1, <1>2, <1>3
<1> QED BY <1>3, <1>4 DEF w

\* The flags show in no channel, but for the one the receiver gives up.
LEMMA ChanOfFlags ==
    ASSUME NEW q, QueueOK(q), NEW s \in Streams, NEW b \in BOOLEAN
    PROVE  /\ Chan(SendEnds(q, s)) = Chan(q)
           /\ Chan(SendFinished(q, s)) = Chan(q)
           /\ Chan(Choked(q, b)) = Chan(q)
           /\ Chan(ReceiveFinished(q, s)) = [Chan(q) EXCEPT ![s] = <<>>]
<1>1. ASSUME NEW p, p.items = q.items, p.index = q.index, p.recvd = q.recvd
      PROVE  Chan(p) = Chan(q)
  <2>1. \A r \in Streams : Own(p, r) = Own(q, r)
    BY <1>1 DEF Own, Wanted
  <2> QED BY <1>1, <2>1 DEF Chan
<1>2. Chan(SendEnds(q, s)) = Chan(q)
  BY <1>1 DEF SendEnds, QueueOK, Queues
<1>3. Chan(SendFinished(q, s)) = Chan(q)
  BY <1>1 DEF SendFinished, QueueOK, Queues
<1>4. Chan(Choked(q, b)) = Chan(q)
  BY <1>1 DEF Choked, QueueOK, Queues
<1>5. Chan(ReceiveFinished(q, s)) = [Chan(q) EXCEPT ![s] = <<>>]
  <2> DEFINE p == ReceiveFinished(q, s)
  <2>1. /\ p.items = q.items /\ p.index = q.index /\ p.recvd = q.recvd \cup {s}
        /\ QueueOK(p)
    BY FlagsOK DEF ReceiveFinished, QueueOK, Queues
  <2> HIDE DEF p
  <2>2. Own(p, s) = {} /\ \A r \in Streams \ {s} : Own(p, r) = Own(q, r)
    BY <2>1 DEF Own, Wanted
  <2>3. Sublist(p.items, Own(p, s)) = <<>>
    BY <2>1, <2>2, FieldsOK, OwnPositions, SublistIs
  <2>4. Chan(p)[s] = <<>> /\ \A r \in Streams \ {s} : Chan(p)[r] = Chan(q)[r]
    BY <2>1, <2>2, <2>3 DEF Chan
  <2>5. Chan(p) \in [Streams -> Seq(Data)] /\ Chan(q) \in [Streams -> Seq(Data)]
    BY <2>1, ChanIs
  <2> QED BY <2>4, <2>5 DEF p
<1> QED BY <1>2, <1>3, <1>4, <1>5

LEMMA ChanOfNextItem ==
    ASSUME NEW q, QueueOK(q), Wanted(q) # {}
    PROVE  LET l == Lowest(Wanted(q))
               s == q.index[l]
           IN  /\ s \in Streams /\ s \notin q.recvd
               /\ Chan(q)[s] # <<>> /\ Head(Chan(q)[s]) = q.items[l]
               /\ Chan(DropFirst(q, l)) = [Chan(q) EXCEPT ![s] = Tail(@)]
<1> DEFINE l == Lowest(Wanted(q))
           s == q.index[l]
           p == DropFirst(q, l)
<1>1. /\ s \in Streams /\ s \notin q.recvd
      /\ Sublist(q.items, Own(q, s)) # <<>>
      /\ Head(Sublist(q.items, Own(q, s))) = q.items[l]
  <2>1. 0 \in Streams
    BY QueueAssumption DEF Streams
  <2> QED BY <2>1, NextItemTakes
<1>2. \A r \in Streams :
         Sublist(p.items, Own(p, r)) = IF r = s THEN Tail(Sublist(q.items, Own(q, s)))
                                       ELSE Sublist(q.items, Own(q, r))
  BY NextItemTakes
<1> HIDE DEF p, s
<1>3. /\ \A r \in Streams : Chan(p)[r] = IF r = s THEN Tail(Chan(q)[s]) ELSE Chan(q)[r]
      /\ Chan(p) = [r \in Streams |-> Chan(p)[r]]
      /\ Chan(q) = [r \in Streams |-> Chan(q)[r]]
  BY <1>1, <1>2 DEF Chan
<1>4. Chan(p) = [Chan(q) EXCEPT ![s] = Tail(@)]
  BY <1>3
<1>5. Chan(q)[s] # <<>> /\ Head(Chan(q)[s]) = q.items[l]
  BY <1>1 DEF Chan
<1> QED BY <1>1, <1>4, <1>5 DEF p, s

\* A receive that finds no item leaves every channel as it was: empty.
LEMMA ChanOfNothing ==
    ASSUME NEW q, QueueOK(q), Wanted(q) = {}
    PROVE  /\ \A s \in Streams : Chan(q)[s] = <<>>
           /\ Chan(DropFirst(q, Len(q.items))) = Chan(q)
<1> DEFINE p == DropFirst(q, Len(q.items))
<1>1. Len(q.items) \in Nat /\ Len(q.items) \in 0..Len(q.items)
  BY FieldsOK
<1>2. QueueOK(p) /\ Len(p.items) = Len(q.items) - Len(q.items)
  BY <1>1, DropFirstOK
<1>3. Wanted(p) = {}
  <2>1. Len(p.items) = 0
    BY <1>1, <1>2
  <2> QED BY <2>1 DEF Wanted
<1> HIDE DEF p
<1>4. \A s \in Streams : Sublist(q.items, Own(q, s)) = <<>> /\ Sublist(p.items, Own(p, s)) = <<>>
  BY <1>2, <1>3, NothingWanted
<1> QED BY <1>4 DEF Chan, p

\* Steps that show in no channel.
LEMMA ChannelsStand ==
    ASSUME UNCHANGED <<arg, said, got>>, Chan(tq') = Chan(tq),
           tq'.sent = tq.sent, tq'.recvd = tq.recvd,
           Len(tq.index) = Len(tq.items), Len(tq'.index) = Len(tq'.items)
    PROVE  UNCHANGED Channels!vars
<1>1. [s \in Streams |-> Pending(s)]' = [s \in Streams |-> Pending(s)]
  BY DEF Chan, Pending
<1> QED BY <1>1 DEF Channels!vars

LEMMA SendChannels ==
    ASSUME IInv, NEW s \in Streams, SendStep(s),
           Len(tq.index) = Len(tq.items), Len(tq'.index) = Len(tq'.items)
    PROVE  Channels!Accept(s) \/ Channels!Refuse(s) \/ UNCHANGED Channels!vars
<1>0. /\ TypeOK /\ NotFinished /\ QueueOK(tq)
      /\ [r \in Streams |-> Pending(r)] = Chan(tq)
      /\ [r \in Streams |-> Pending(r)]' = Chan(tq')
  BY DEF IInv, TypeOK, Pending, Chan
<1>1. pc[s] # "idle" /\ arg[s] # <<>> /\ arg[s] = <<arg[s][1]>> /\ arg[s][1] \in Data
  <2>1. pc[s] # "idle"
    BY <1>0, InLoopOK DEF SendStep, SendRefused, SendWaits, SendEnded, SendWrites, SendFails
  <2> QED BY <1>0, <2>1 DEF TypeOK
<1>2. CASE SendRefused(s)
  <2>1. s \in tq.sent /\ tq' = tq /\ SendReturns(s, pc, "einval")
    BY <1>2 DEF SendRefused
  <2>2. tq'.sent = tq.sent \cup {s}
    BY <2>1
  <2> QED BY <1>1, <2>1, <2>2 DEF SendReturns, Channels!Refuse, Pending
<1>3. CASE SendWaits(s)
  BY <1>3, ChannelsStand DEF SendWaits
<1>4. CASE SendEnded(s)
  <2>1. s \in tq.recvd /\ tq' = SendEnds(tq, s) /\ SendReturns(s, pc, "eof")
    BY <1>4 DEF SendEnded
  <2>2. tq'.sent = tq.sent \cup {s} /\ tq'.recvd = tq.recvd
    BY <1>0, <2>1 DEF SendEnds, QueueOK, Queues
  <2>3. Chan(tq') = Chan(tq)
    BY <1>0, <2>1, ChanOfFlags
  <2> QED BY <1>0, <1>1, <2>1, <2>2, <2>3 DEF SendReturns, Channels!Refuse
<1>5. CASE SendWrites(s)
  <2>1. /\ s \notin tq.recvd /\ tq' = Write(tq, s, arg[s][1])
        /\ SendReturns(s, Broadcast(pc), "ok") /\ s \notin tq.sent
    BY <1>0, <1>5, InLoopOK DEF SendWrites
  <2>2. tq'.sent = tq.sent /\ tq'.recvd = tq.recvd
    BY <1>0, <2>1 DEF Write, QueueOK, Queues
  <2>3. Chan(tq') = [Chan(tq) EXCEPT ![s] = @ \o <<arg[s][1]>>]
    <3>1. PICK d \in Data : d = arg[s][1]
      BY <1>1
    <3>2. Chan(Write(tq, s, d)) = [Chan(tq) EXCEPT ![s] = @ \o <<d>>]
      BY <1>0, <2>1, ChanOfWrite
    <3> QED BY <2>1, <3>1, <3>2
  <2>4. Chan(tq') = [Chan(tq) EXCEPT ![s] = @ \o arg[s]]
    BY <1>1, <2>3
  <2> QED BY <1>0, <1>1, <2>1, <2>2, <2>4 DEF SendReturns, Channels!Accept
<1>6. CASE SendFails(s)
  <2>1. tq' = WriteFails(tq, s)
    BY <1>6 DEF SendFails
  <2>2. /\ tq'.index = Append(tq.index, s) /\ tq'.items = tq.items
        /\ tq.index \in Seq(Streams) /\ Len(tq.items) \in Nat
    BY <1>0, <2>1, FieldsOK DEF WriteFails, QueueOK, Queues
  <2>3. Len(tq'.index) = Len(tq.index) + 1
    BY <2>2, AppendProperties
  <2> QED BY <2>2, <2>3
<1> QED BY <1>2, <1>3, <1>4, <1>5, <1>6 DEF SendStep

LEMMA ReceiveChannels ==
    ASSUME IInv, ReceiveStep,
           Len(tq.index) = Len(tq.items), Len(tq'.index) = Len(tq'.items)
    PROVE  \/ \E s \in Streams : Channels!Take(s) \/ Channels!TellEnd(s)
           \/ Channels!TellAllEnded \/ Channels!TellNothing
           \/ UNCHANGED Channels!vars
<1> DEFINE r == Receive(tq)
<1>0. /\ QueueOK(tq)
      /\ [s \in Streams |-> Pending(s)] = Chan(tq)
      /\ [s \in Streams |-> Pending(s)]' = Chan(tq')
      /\ StreamsOf(tq) = Streams
  BY StreamsAreNat DEF IInv, TypeOK, Pending, Chan, QueueOK
<1>1. tq' = r.q /\ UNCHANGED <<arg, said>>
  BY DEF ReceiveStep, ReceiveWaits, ReceiveReturns
<1>2. \/ r.ret = "again" /\ UNCHANGED got
      \/ got' = Result(r)
  BY DEF ReceiveStep, ReceiveWaits, ReceiveReturns
<1>3. r.ret # "again" => got' = Result(r)
  BY <1>2
<1>4. tq'.sent = tq.sent
  BY <1>0, <1>1, ReceiveSent
<1>5. ASSUME r.ret = "again", Chan(tq') = Chan(tq), tq'.recvd = tq.recvd
      PROVE  Channels!TellNothing \/ UNCHANGED Channels!vars
  <2>1. CASE UNCHANGED got
    BY <1>1, <1>4, <1>5, <2>1, ChannelsStand
  <2>2. CASE got' = Result(r)
    <3>1. got' = <<"again">>
      BY <1>5, <2>2 DEF Result
    <3> QED BY <1>0, <1>1, <1>4, <1>5, <3>1 DEF Channels!TellNothing
  <2> QED BY <1>2, <2>1, <2>2
<1>6. CASE tq.choked
  <2>1. r.ret = "again" /\ tq' = tq
    BY <1>1, <1>6 DEF Receive, Nothing
  <2> QED BY <1>5, <2>1
<1>7. CASE ~tq.choked /\ Wanted(tq) # {}
  <2> DEFINE l == Lowest(Wanted(tq))
             s == tq.index[l]
  <2>1. r = NextItem(tq)
    BY <1>7 DEF Receive
  <2>2. r.ret = "item" /\ r.stream = s /\ r.item = <<tq.items[l]>> /\ tq' = DropFirst(tq, l)
    BY <1>1, <2>1 DEF NextItem
  <2>3. /\ s \in Streams /\ s \notin tq.recvd
        /\ Chan(tq)[s] # <<>> /\ Head(Chan(tq)[s]) = tq.items[l]
        /\ Chan(DropFirst(tq, l)) = [Chan(tq) EXCEPT ![s] = Tail(@)]
    BY <1>0, <1>7, ChanOfNextItem
  <2>4. got' = <<"item", s, Head(Chan(tq)[s])>>
    BY <1>3, <2>2, <2>3 DEF Result
  <2>5. tq'.recvd = tq.recvd
    BY <1>0, <2>2 DEF DropFirst, QueueOK, Queues
  <2> HIDE DEF r, l, s
  <2>6. Channels!Take(s)
    BY <1>0, <1>1, <1>4, <2>2, <2>3, <2>4, <2>5 DEF Channels!Take
  <2> QED BY <2>3, <2>6
<1>8. CASE ~tq.choked /\ Wanted(tq) = {} /\ Untold(tq) # {}
  <2> DEFINE s == Lowest(Untold(tq))
             p == DropFirst(tq, Len(tq.items))
  <2>1. r = NextEnd(tq)
    BY <1>8 DEF Receive
  <2>2. r.ret = "eof" /\ r.stream = s /\ tq' = ReceiveFinished(p, s)
    BY <1>1, <2>1 DEF NextEnd
  <2>3. s \in tq.sent \ tq.recvd /\ s \in Streams /\ s # -1
    <3>1. tq.sent \subseteq Streams
      BY <1>0, FieldsOK
    <3>2. Untold(tq) \subseteq Nat
      BY <3>1, StreamsAreNat DEF Untold
    <3>3. s \in Untold(tq)
      BY <1>8, <3>2, LowestIsLeast
    <3> QED BY <3>1, <3>2, <3>3 DEF Untold
  <2>4. got' = <<"eof", s>>
    BY <1>3, <2>2, <2>3 DEF Result
  <2>5. QueueOK(p) /\ p.recvd = tq.recvd /\ Chan(p) = Chan(tq) /\ Chan(tq)[s] = <<>>
    <3>1. Len(tq.items) \in 0..Len(tq.items)
      BY <1>0, FieldsOK
    <3> QED BY <1>0, <1>8, <2>3, <3>1, DropFirstOK, ChanOfNothing
  <2> HIDE DEF s, p, r
  <2>6. tq'.recvd = tq.recvd \cup {s}
    BY <2>2, <2>5 DEF ReceiveFinished, QueueOK, Queues
  <2>7. Chan(tq') = Chan(tq)
    <3>0. TRUE \in BOOLEAN
      OBVIOUS
    <3>1. Chan(ReceiveFinished(p, s)) = [Chan(p) EXCEPT ![s] = <<>>]
      BY <2>3, <2>5, <3>0, ChanOfFlags
    <3>2. Chan(tq) \in [Streams -> Seq(Data)]
      BY <1>0, ChanIs
    <3> QED BY <2>2, <2>5, <3>1, <3>2
  <2>8. Channels!TellEnd(s)
    BY <1>0, <1>1, <1>4, <2>3, <2>4, <2>5, <2>6, <2>7 DEF Channels!TellEnd
  <2> QED BY <2>3, <2>8
<1>9. CASE ~tq.choked /\ Wanted(tq) = {} /\ Untold(tq) = {}
  <2>1. r = Nothing(tq, IF AllFinished(tq) THEN "eof" ELSE "again")
    BY <1>9 DEF Receive
  <2>2. /\ r.ret = IF AllFinished(tq) THEN "eof" ELSE "again"
        /\ r.stream = -1 /\ tq' = DropFirst(tq, Len(tq.items))
    BY <1>1, <2>1 DEF Nothing
  <2>3. Chan(tq') = Chan(tq) /\ tq'.recvd = tq.recvd /\ \A s \in Streams : Chan(tq)[s] = <<>>
    BY <1>0, <1>9, <2>2, ChanOfNothing DEF DropFirst, QueueOK, Queues
  <2>4. CASE ~AllFinished(tq)
    BY <1>5, <2>2, <2>3, <2>4
  <2>5. CASE AllFinished(tq)
    <3>1. got' = <<"eof">>
      BY <1>3, <2>2, <2>5 DEF Result
    <3>2. Streams \subseteq tq.sent \cup tq.recvd
      BY <1>0, <2>5 DEF AllFinished
    <3>3. Channels!TellAllEnded
      BY <1>0, <1>1, <1>4, <2>3, <3>1, <3>2 DEF Channels!TellAllEnded
    <3> QED BY <3>3
  <2> QED BY <2>4, <2>5
<1> QED BY <1>6, <1>7, <1>8, <1>9

\* An index without its item stays in front of those who would forget it.
LEMMA BrokenStays ==
    ASSUME IInv, [Next]_vars, Len(tq'.index) = Len(tq'.items)
    PROVE  Len(tq.index) = Len(tq.items)
<1>0. /\ QueueOK(tq) /\ TypeOK
      /\ tq.index \in Seq(Streams) /\ tq.items \in Seq(Data)
      /\ Len(tq.items) \in Nat /\ Len(tq.index) \in Nat /\ Len(tq.items) <= Len(tq.index)
  BY FieldsOK DEF IInv, TypeOK
<1>1. ASSUME tq'.index = tq.index, tq'.items = tq.items
      PROVE  Len(tq.index) = Len(tq.items)
  BY <1>1
<1>2. ASSUME NEW n \in 0..Len(tq.items), NEW p, p = DropFirst(tq, n),
             tq'.index = p.index, tq'.items = p.items
      PROVE  Len(tq.index) = Len(tq.items)
  <2>1. Len(p.items) = Len(tq.items) - n /\ Len(p.index) = Len(tq.index) - n
    BY <1>0, <1>2, DropFirstOK
  <2> QED BY <1>0, <1>2, <2>1
<1>3. ASSUME NEW s \in Streams, SendStep(s)
      PROVE  Len(tq.index) = Len(tq.items)
  <2>1. CASE SendWrites(s)
    <3>1. pc[s] # "idle"
      BY <2>1, InLoopOK DEF SendWrites, IInv
    <3>2. arg[s][1] \in Data
      BY <1>0, <3>1, ArgIsItem
    <3>3. tq'.index = Append(tq.index, s) /\ tq'.items = Append(tq.items, arg[s][1])
      BY <1>0, <2>1 DEF SendWrites, Write, QueueOK, Queues
    <3>4. Len(tq'.index) = Len(tq.index) + 1 /\ Len(tq'.items) = Len(tq.items) + 1
      BY <1>0, <3>2, <3>3, AppendProperties
    <3>5. Len(tq.index) + 1 = Len(tq.items) + 1
      BY <3>4
    <3>6. Len(tq.index) \in Nat /\ Len(tq.items) \in Nat
      BY <1>0
    <3> QED BY <3>5, <3>6
  <2>2. CASE SendFails(s)
    <3>1. tq'.index = Append(tq.index, s) /\ tq'.items = tq.items
      BY <1>0, <2>2 DEF SendFails, WriteFails, QueueOK, Queues
    <3>2. Len(tq'.index) = Len(tq.index) + 1
      BY <1>0, <3>1, AppendProperties
    <3> QED BY <1>0, <3>1, <3>2
  <2>3. CASE SendRefused(s) \/ SendWaits(s) \/ SendEnded(s)
    BY <1>0, <1>1, <2>3 DEF SendRefused, SendWaits, SendEnded, SendEnds, QueueOK, Queues
  <2> QED BY <1>3, <2>1, <2>2, <2>3 DEF SendStep
<1>4. ASSUME ReceiveStep
      PROVE  Len(tq.index) = Len(tq.items)
  <2>1. tq' = Receive(tq).q
    BY <1>4 DEF ReceiveStep, ReceiveWaits, ReceiveReturns
  <2>2. Len(tq.items) \in 0..Len(tq.items) /\ \A i \in 1..Len(tq.items) : i \in 0..Len(tq.items)
    BY <1>0
  <2>3. CASE tq' = tq
    BY <1>1, <2>3
  <2>4. CASE \E n \in 0..Len(tq.items) : tq' = DropFirst(tq, n)
    BY <1>2, <2>4
  <2>5. CASE \E s : tq' = ReceiveFinished(DropFirst(tq, Len(tq.items)), s)
    <3> DEFINE p == DropFirst(tq, Len(tq.items))
    <3>1. QueueOK(p)
      BY <1>0, <2>2, DropFirstOK
    <3> HIDE DEF p
    <3>2. tq'.index = p.index /\ tq'.items = p.items
      BY <2>5, <3>1 DEF ReceiveFinished, QueueOK, Queues, p
    <3> QED BY <1>2, <2>2, <3>2 DEF p
  <2>6. \/ Receive(tq).q = tq
        \/ \E n \in 1..Len(tq.items) : Receive(tq).q = DropFirst(tq, n)
        \/ \E s : Receive(tq).q = ReceiveFinished(DropFirst(tq, Len(tq.items)), s)
        \/ Receive(tq).q = DropFirst(tq, Len(tq.items))
    BY <1>0, ReceiveOutcomes
  <2>7. \/ tq' = tq
        \/ \E n \in 0..Len(tq.items) : tq' = DropFirst(tq, n)
        \/ \E s : tq' = ReceiveFinished(DropFirst(tq, Len(tq.items)), s)
    BY <2>1, <2>2, <2>6, Zenon
  <2> QED BY <2>3, <2>4, <2>5, <2>7
<1>5. ASSUME NEW s \in Streams, SendFinish(s) \/ ReceiveFinish(s)
      PROVE  Len(tq.index) = Len(tq.items)
  BY <1>0, <1>1, <1>5 DEF SendFinish, ReceiveFinish, SendFinished, ReceiveFinished, QueueOK, Queues
<1>6. ASSUME NEW b \in BOOLEAN, ReceiveBegin(b) \/ Choke(b)
      PROVE  Len(tq.index) = Len(tq.items)
  BY <1>0, <1>1, <1>6 DEF ReceiveBegin, Choke, Choked, QueueOK, Queues
<1>7. ASSUME NEW s \in Streams, NEW d \in Data, SendBegin(s, d)
      PROVE  Len(tq.index) = Len(tq.items)
  BY <1>1, <1>7 DEF SendBegin
<1>8. ASSUME NEW t \in Threads, WakesUp(t)
      PROVE  Len(tq.index) = Len(tq.items)
  BY <1>1, <1>8 DEF WakesUp
<1>9. CASE UNCHANGED vars
  BY <1>1, <1>9 DEF vars
<1> QED BY <1>3, <1>4, <1>5, <1>6, <1>7, <1>8, <1>9 DEF Next

\* Every step is one of the channels, or shows in none of them.
LEMMA StepIsAChannelStep ==
    ASSUME IInv, [Next]_vars
    PROVE  [Channels!Next]_(Channels!vars)
<1>0. /\ QueueOK(tq) /\ TypeOK
      /\ [s \in Streams |-> Pending(s)] = Chan(tq)
      /\ [s \in Streams |-> Pending(s)]' = Chan(tq')
      /\ tq.sent \subseteq Streams /\ tq.recvd \subseteq Streams
  BY FieldsOK DEF IInv, TypeOK, Pending, Chan
<1>1. CASE Len(tq'.index) # Len(tq'.items)
  BY <1>1 DEF Channels!Next
<1>2. CASE Len(tq'.index) = Len(tq'.items)
  <2>0. Len(tq.index) = Len(tq.items)
    BY <1>2, BrokenStays
  <2>1. SUFFICES Channels!Works \/ UNCHANGED Channels!vars
    BY <1>2 DEF Channels!Next
  <2>2. ASSUME NEW s \in Streams, NEW d \in Data, SendBegin(s, d)
        PROVE  Channels!Offer(s)
    <3>1. arg[s] = <<>> /\ tq' = tq
      BY <1>0, <2>2 DEF SendBegin, TypeOK
    <3> QED BY <2>2, <3>1 DEF SendBegin, Channels!Offer, Pending
  <2>3. ASSUME NEW s \in Streams, SendStep(s)
        PROVE  Channels!Accept(s) \/ Channels!Refuse(s) \/ UNCHANGED Channels!vars
    BY <1>2, <2>0, <2>3, SendChannels
  <2>4. ASSUME NEW s \in Streams, SendFinish(s)
        PROVE  Channels!Close(s)
    <3>1. tq' = SendFinished(tq, s) /\ UNCHANGED <<arg, said, got>>
      BY <2>4 DEF SendFinish
    <3>2. Chan(tq') = Chan(tq)
      BY <1>0, <3>1, ChanOfFlags
    <3>3. tq'.sent = tq.sent \cup {s} /\ tq'.recvd = tq.recvd
      BY <1>0, <3>1 DEF SendFinished, QueueOK, Queues
    <3> QED BY <1>0, <3>1, <3>2, <3>3 DEF Channels!Close
  <2>5. ASSUME NEW s \in Streams, ReceiveFinish(s)
        PROVE  Channels!GiveUp(s)
    <3>1. tq' = ReceiveFinished(tq, s) /\ UNCHANGED <<arg, said, got>>
      BY <2>5 DEF ReceiveFinish
    <3>2. Chan(tq') = [Chan(tq) EXCEPT ![s] = <<>>]
      BY <1>0, <3>1, ChanOfFlags
    <3>3. tq'.recvd = tq.recvd \cup {s} /\ tq'.sent = tq.sent
      BY <1>0, <3>1 DEF ReceiveFinished, QueueOK, Queues
    <3> QED BY <1>0, <3>1, <3>2, <3>3 DEF Channels!GiveUp
  <2>6. ASSUME NEW b \in BOOLEAN, ReceiveBegin(b)
        PROVE  Channels!Ask
    BY <2>6 DEF ReceiveBegin, Channels!Ask, Pending
  <2>7. ASSUME NEW b \in BOOLEAN, Choke(b)
        PROVE  UNCHANGED Channels!vars
    <3>1. tq' = Choked(tq, b) /\ UNCHANGED <<arg, said, got>>
      BY <2>7 DEF Choke
    <3>2. 0 \in Streams
      BY QueueAssumption DEF Streams
    <3>3. Chan(tq') = Chan(tq)
      BY <1>0, <3>1, <3>2, ChanOfFlags
    <3>4. tq'.sent = tq.sent /\ tq'.recvd = tq.recvd
      BY <1>0, <3>1 DEF Choked, QueueOK, Queues
    <3> QED BY <1>2, <2>0, <3>1, <3>3, <3>4, ChannelsStand
  <2>8. ASSUME ReceiveStep
        PROVE  \/ \E s \in Streams : Channels!Take(s) \/ Channels!TellEnd(s)
               \/ Channels!TellAllEnded \/ Channels!TellNothing
               \/ UNCHANGED Channels!vars
    BY <1>2, <2>0, <2>8, ReceiveChannels
  <2>9. ASSUME NEW t \in Threads, WakesUp(t)
        PROVE  UNCHANGED Channels!vars
    BY <1>2, <2>0, <2>9, ChannelsStand DEF WakesUp
  <2>10. CASE UNCHANGED vars
    BY <1>2, <2>0, <2>10, ChannelsStand DEF vars
  <2> QED BY <2>2, <2>3, <2>4, <2>5, <2>6, <2>7, <2>8, <2>9, <2>10 DEF Next, Channels!Works
<1> QED BY <1>1, <1>2

\* However many streams share it, a thread queue is one bounded, ordered channel
\* per stream with one end each: tq_receive returns every accepted item of a
\* stream still wanted once, in order, and the end after the last of them.
THEOREM QueueIsChannels == Spec => ImplementsChannels
<1>1. Init => Channels!Init
  <2> SUFFICES ASSUME Init PROVE Channels!Init
    OBVIOUS
  <2>1. PICK n \in Sizes : tq = NewQueue(NbStreams, n)
    BY DEF Init
  <2>2. /\ tq.sent = {} /\ tq.recvd = {} /\ tq.items = <<>> /\ tq.index = <<>>
    BY <2>1 DEF NewQueue
  <2>3. QueueOK(tq) /\ Wanted(tq) = {}
    BY <2>1, <2>2, NewQueueOK DEF Wanted
  <2>4. \A s \in Streams : Pending(s) = <<>>
    BY <2>3, NothingWanted DEF Pending
  <2> QED BY <2>2, <2>4 DEF Init, Channels!Init
<1>2. IInv /\ [Next]_vars => [Channels!Next]_(Channels!vars)
  BY StepIsAChannelStep
<1> QED BY <1>1, <1>2, Inductive, PTL DEF Spec, ImplementsChannels, Channels!Spec
=============================================================================
