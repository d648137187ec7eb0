-------------------------- MODULE SchedulerProofs --------------------------
(***************************************************************************)
(* Theorems about Scheduler for every pipeline: any number of demuxers,    *)
(* decoders, filtergraphs, encoders and muxers, any files, queue sizes and *)
(* tolerances.                                                             *)
(***************************************************************************)
EXTENDS Scheduler, WellFoundedInduction, TLAPS

LEMMA LowestIsLeast ==
    ASSUME NEW S, S \subseteq Nat, S # {}
    PROVE  Lowest(S) \in S /\ \A n \in S : Lowest(S) <= n
<1>1. PICK x \in S : \A y \in S : ~(<<y, x>> \in OpToRel(<, Nat))
  BY NatLessThanWellFounded, WFMin
<1>2. \A y \in S : x <= y
  <2> SUFFICES ASSUME NEW y \in S PROVE x <= y
    OBVIOUS
  <2>1. y < x => <<y, x>> \in OpToRel(<, Nat)
    BY DEF OpToRel
  <2>2. x \in Nat /\ y \in Nat
    OBVIOUS
  <2>3. ~(y < x)
    BY <1>1, <2>1
  <2> QED BY <2>2, <2>3
<1> QED BY <1>2 DEF Lowest

-----------------------------------------------------------------------------
(***************************************************************************)
(* Where threads are.  A thread at a destination has one, and a muxer has  *)
(* none.                                                                   *)
(***************************************************************************)
AtDst     == {"send", "mux_lock", "mux_schedule", "flush", "flushed"}
MuxPlaces == {"none", "receive", "finish", "done", "exit", "exited"}

PcInv ==
    /\ net \in Nets
    /\ DOMAIN pc = Tasks /\ DOMAIN dst = Tasks
    /\ \A t \in Tasks : t[1] = "mux" => pc[t] \in MuxPlaces
    /\ \A t \in Tasks : pc[t] \in AtDst => dst[t] \in DOMAIN Outs(t)

\* A step of thread t moves nobody else, starts nothing and begins no flush.
Moves(t) ==
    /\ net' = net
    /\ DOMAIN pc' = Tasks /\ DOMAIN dst' = Tasks
    /\ pc[t] \notin {"exited", "none"} /\ pc'[t] # "none"
    /\ \A u \in Tasks \ {t} : pc'[u] = pc[u] /\ dst'[u] = dst[u]
    /\ t[1] = "mux" => pc'[t] \in MuxPlaces
    /\ pc'[t] \in AtDst => dst'[t] \in DOMAIN Outs(t)

LEMMA NetFacts ==
    ASSUME net \in Nets, NEW t \in Tasks
    PROVE  /\ t[1] \in Kinds /\ t # Null
           /\ DOMAIN Outs(t) \subseteq Nat
           /\ \A k \in DOMAIN Outs(t) : Outs(t)[k].to \in Tasks /\ Outs(t)[k].to[1] \in Receivers[t[1]]
           /\ t[1] = "enc" => 1 \in DOMAIN Outs(t)
<1>1. t \in Kinds \X Nat /\ Outs(t) \in Seq([s : Nat, to : Tasks, i : Nat])
  BY NetsAssumption DEF Tasks, Outs
<1>2. \A k \in DOMAIN Outs(t) : Outs(t)[k].to[1] \in Receivers[t[1]]
  BY NetsAssumption DEF Tasks, Outs
<1>3. t[1] = "enc" => Outs(t) # <<>>
  BY NetsAssumption DEF Tasks, Outs
<1>4. DOMAIN Outs(t) = 1..Len(Outs(t)) /\ Len(Outs(t)) \in Nat
  BY <1>1
<1>5. Len(Outs(t)) = 0 => Outs(t) = <<>>
  BY <1>1
<1>6. \A k \in DOMAIN Outs(t) : Outs(t)[k].to \in Tasks
  <2> SUFFICES ASSUME NEW k \in DOMAIN Outs(t) PROVE Outs(t)[k].to \in Tasks
    OBVIOUS
  <2> DEFINE R == [s : Nat, to : Tasks, i : Nat]
  <2>1. Outs(t) \in Seq(R) /\ k \in 1..Len(Outs(t))
    BY <1>1, <1>4
  <2>2. \A r \in R : r.to \in Tasks
    OBVIOUS
  <2> HIDE DEF R
  <2>3. Outs(t)[k] \in R
    BY <2>1
  <2> QED BY <2>2, <2>3
<1>7. t # Null
  <2>1. PICK a \in Kinds, b \in Nat : t = <<a, b>>
    BY <1>1
  <2>2. Len(<<a, b>>) # Len(<<>>)
    OBVIOUS
  <2> QED BY <2>1, <2>2 DEF Null
<1> QED BY <1>1, <1>2, <1>3, <1>4, <1>5, <1>6, <1>7

LEMMA MovesKeepsPcInv ==
    ASSUME PcInv, NEW t \in Tasks, Moves(t)
    PROVE  PcInv'
<1>1. Tasks' = Tasks /\ \A u \in Tasks : Outs(u)' = Outs(u)
  BY DEF Moves, Tasks, Outs
<1> QED BY <1>1 DEF PcInv, Moves

LEMMA AdvanceMoves ==
    ASSUME PcInv, net' = net, NEW t \in Tasks, pc[t] \in AtDst, NEW from, NEW fin, Advance(t, from, fin)
    PROVE  Moves(t) /\ pc'[t] \notin {"mux_lock", "mux_schedule", "flush", "flushed"}
<1>1. t[1] # "mux" /\ pc[t] \notin {"exited", "none"}
  BY DEF PcInv, AtDst, MuxPlaces
<1>2. pc'[t] = IF Coming(t, from, fin) = {} THEN After(t, fin) ELSE "send"
  BY DEF Advance, PcInv
<1>3. After(t, fin) \in {"exit", "exited", "finish", "reap", "receive", "done", "read"}
  BY DEF After, Leaving
<1>4. Coming(t, from, fin) # {} => dst'[t] \in DOMAIN Outs(t)
  <2>1. Coming(t, from, fin) \subseteq DOMAIN Outs(t) /\ DOMAIN Outs(t) \subseteq Nat
    BY NetFacts DEF Coming, PcInv
  <2>2. Coming(t, from, fin) # {} => dst'[t] = Lowest(Coming(t, from, fin))
    BY DEF Advance, PcInv
  <2> QED BY <2>1, <2>2, LowestIsLeast
<1>5. DOMAIN pc' = Tasks /\ DOMAIN dst' = Tasks /\ \A u \in Tasks \ {t} : pc'[u] = pc[u] /\ dst'[u] = dst[u]
  BY DEF Advance, PcInv
<1> QED BY <1>1, <1>2, <1>3, <1>4, <1>5 DEF Moves, AtDst

LEMMA SendingMoves ==
    ASSUME PcInv, net' = net, NEW t \in Tasks, t[1] # "mux", pc[t] \notin {"exited", "none"},
           NEW x, StartSending(t, x)
    PROVE  Moves(t) /\ pc'[t] \notin {"mux_lock", "mux_schedule", "flush", "flushed"}
<1> DEFINE coming == {k \in DOMAIN Outs(t) : k \notin done[t]
                         /\ (x = Null \/ t[1] # "demux" \/ Outs(t)[k].s = net.file[t][pos'[t]].s)}
<1>1. /\ dst' = [dst EXCEPT ![t] = IF coming = {} THEN 0 ELSE Lowest(coming)]
      /\ pc'  = [pc EXCEPT ![t] = CASE coming # {} -> "send"
                                    [] coming = {} /\ x = Null -> Leaving(t)
                                    [] coming = {} /\ x = End -> "done"
                                    [] OTHER -> "receive"]
  BY DEF StartSending
<1>2. coming \subseteq DOMAIN Outs(t) /\ DOMAIN Outs(t) \subseteq Nat
  BY NetFacts DEF PcInv
<1> HIDE DEF coming
<1>3. coming # {} => dst'[t] \in DOMAIN Outs(t)
  BY <1>1, <1>2, LowestIsLeast DEF PcInv
<1>4. pc'[t] \in {"exit", "exited", "done", "receive"} \/ (pc'[t] = "send" /\ coming # {})
  BY <1>1 DEF PcInv, Leaving
<1>5. DOMAIN pc' = Tasks /\ DOMAIN dst' = Tasks /\ \A u \in Tasks \ {t} : pc'[u] = pc[u] /\ dst'[u] = dst[u]
  BY <1>1 DEF PcInv
<1> QED BY <1>3, <1>4, <1>5 DEF Moves, AtDst

\* A step that sets the place of t and no destination.
LEMMA SetMoves ==
    ASSUME PcInv, net' = net, NEW t \in Tasks, pc[t] \notin {"exited", "none"},
           NEW p, pc' = [pc EXCEPT ![t] = p], dst' = dst,
           p # "none", t[1] = "mux" => p \in MuxPlaces, p \in AtDst => pc[t] \in AtDst
    PROVE  Moves(t) /\ pc'[t] = p
BY DEF Moves, PcInv

\* What all steps of a thread have in common but those around a muxer's start.
Ordinary(t) ==
    /\ Moves(t) /\ pc'[t] \notin {"flush", "flushed"}
    /\ UNCHANGED <<mux, lock, main, terminate>>

LEMMA SendingOrdinary ==
    ASSUME PcInv, NEW t \in Threads,
           \/ SendItem(t) \/ SendEnded(t) \/ SendFinish(t) \/ MuxCheck(t) \/ MuxQueueFull(t)
           \/ MuxSend(t) \/ DummySent(t) \/ SendFilterFinish(t) \/ MuxSchedule(t)
    PROVE  Ordinary(t)
<1>t. t \in Tasks /\ pc[t] \notin {"none", "exited"}
  BY DEF Threads
<1>m. pc[t] \in AtDst => t[1] # "mux"
  BY <1>t DEF PcInv, AtDst, MuxPlaces
<1>1. CASE SendItem(t)
  BY <1>1, <1>t, AdvanceMoves DEF SendItem, TaskVars, AtDst, Ordinary
<1>2. CASE SendEnded(t)
  BY <1>2, <1>t, SetMoves DEF SendEnded, TaskVars, AtDst, Ordinary, Moves, PcInv
<1>3. CASE SendFinish(t)
  BY <1>3, <1>t, AdvanceMoves DEF SendFinish, TaskVars, AtDst, Ordinary
<1>4. CASE MuxCheck(t)
  BY <1>4, <1>t, <1>m, SetMoves DEF MuxCheck, TaskVars, SendState, AtDst, Ordinary
<1>5. CASE MuxQueueFull(t)
  <2>1. pc[t] = "mux_lock" /\ net' = net /\ UNCHANGED <<mux, lock, main, terminate>>
    BY <1>5 DEF MuxQueueFull
  <2>2. CASE Item(t) = Null
    BY <1>5, <1>t, <2>1, <2>2, AdvanceMoves DEF MuxQueueFull, AtDst, Ordinary
  <2>3. CASE Item(t) # Null
    BY <1>5, <1>t, <1>m, <2>1, <2>3, SetMoves DEF MuxQueueFull, Fails, AtDst, Ordinary
  <2> QED BY <2>2, <2>3
<1>6. CASE MuxSend(t)
  <2>1. pc[t] = "send" /\ net' = net /\ dst' = dst /\ UNCHANGED <<mux, lock, main, terminate>>
    BY <1>6 DEF MuxSend, TaskVars
  <2>2. pc' = [pc EXCEPT ![t] = "mux_schedule"] \/ pc' = pc
    BY <1>6 DEF MuxSend
  <2>3. CASE pc' = pc
    BY <1>t, <1>m, <2>1, <2>3 DEF Moves, PcInv, Ordinary, AtDst
  <2>4. CASE pc' = [pc EXCEPT ![t] = "mux_schedule"]
    BY <1>t, <1>m, <2>1, <2>4, SetMoves DEF Ordinary, AtDst
  <2> QED BY <2>2, <2>3, <2>4
<1>7. CASE DummySent(t)
  BY <1>7, <1>t, AdvanceMoves DEF DummySent, TaskVars, AtDst, Ordinary
<1>8. CASE SendFilterFinish(t)
  BY <1>8, <1>t, AdvanceMoves DEF SendFilterFinish, TaskVars, AtDst, Ordinary
<1>9. CASE MuxSchedule(t)
  BY <1>9, <1>t, AdvanceMoves DEF MuxSchedule, TaskVars, AtDst, Ordinary
<1> QED BY <1>1, <1>2, <1>3, <1>4, <1>5, <1>6, <1>7, <1>8, <1>9

LEMMA LoopOrdinary ==
    ASSUME PcInv, NEW t \in Threads,
           \/ t[1] = "demux" /\ (DemuxSend(t) \/ DemuxEnd(t))
           \/ Discard(t) \/ Decode(t) \/ Encode(t) \/ Mux(t) \/ TaskDone(t) \/ MuxExit(t)
           \/ MuxFinish(t) \/ TaskExit(t) \/ MuxDone(t) \/ Fail(t)
    PROVE  Ordinary(t)
<1>t. t \in Tasks /\ pc[t] \notin {"none", "exited"}
  BY DEF Threads
<1>1. CASE t[1] = "demux" /\ DemuxSend(t)
  BY <1>1, <1>t, SendingMoves DEF DemuxSend, MainVars, Unlocked, Ordinary
<1>2. CASE t[1] = "demux" /\ DemuxEnd(t)
  BY <1>2, <1>t, SendingMoves DEF DemuxEnd, TaskVars, Unlocked, Ordinary
<1>3. CASE Discard(t)
  <2>1. pc' = pc /\ dst' = dst /\ net' = net /\ pc[t] = "receive" /\ UNCHANGED <<mux, lock, main, terminate>>
    BY <1>3 DEF Discard, TaskVars, Unlocked, SendState
  <2> QED BY <1>t, <2>1 DEF Moves, PcInv, Ordinary, AtDst, MuxPlaces
<1>4. CASE Decode(t)
  BY <1>4, <1>t, SendingMoves DEF Decode, TaskVars, Unlocked, Ordinary
<1>5. CASE Encode(t)
  <2>1. /\ pc[t] = "receive" /\ t[1] = "enc" /\ net' = net /\ UNCHANGED <<mux, lock, main, terminate>>
        /\ \/ \E x : StartSending(t, x)
           \/ pc' = [pc EXCEPT ![t] = "done"] /\ dst' = dst
    BY <1>5 DEF Encode, MainVars, Unlocked
  <2>2. CASE \E x : StartSending(t, x)
    BY <1>t, <2>1, <2>2, SendingMoves DEF Ordinary
  <2>3. CASE pc' = [pc EXCEPT ![t] = "done"] /\ dst' = dst
    BY <1>t, <2>1, <2>3, SetMoves DEF Ordinary, AtDst
  <2> QED BY <2>1, <2>2, <2>3
<1>6. CASE Mux(t)
  <2>1. /\ \E p \in {"finish", "done", "receive"} : pc' = [pc EXCEPT ![t] = p]
        /\ \E d : dst' = [dst EXCEPT ![t] = d]
        /\ net' = net /\ UNCHANGED <<mux, lock, main, terminate>>
    BY <1>6 DEF Mux, MainVars, Unlocked
  <2> QED BY <1>t, <2>1 DEF Moves, PcInv, Ordinary, AtDst, MuxPlaces
<1>7. CASE TaskDone(t)
  BY <1>7, <1>t, SendingMoves DEF TaskDone, TaskVars, Unlocked, Ordinary
<1>8. CASE MuxExit(t)
  BY <1>8, <1>t, SetMoves DEF MuxExit, MainVars, Unlocked, SendState, Ordinary, AtDst, MuxPlaces
<1>9. CASE MuxFinish(t)
  <2>1. /\ pc' = [pc EXCEPT ![t] = "receive"] /\ dst' = [dst EXCEPT ![t] = 0]
        /\ net' = net /\ UNCHANGED <<mux, lock, main, terminate>>
    BY <1>9 DEF MuxFinish, TaskVars, Unlocked
  <2> QED BY <1>t, <2>1 DEF Moves, PcInv, Ordinary, AtDst, MuxPlaces
<1>10. CASE TaskExit(t)
  BY <1>10, <1>t, SetMoves DEF TaskExit, MainVars, Unlocked, SendState, Ordinary, AtDst
<1>11. CASE MuxDone(t)
  BY <1>11, <1>t, SetMoves DEF MuxDone, TaskVars, Unlocked, SendState, Ordinary, AtDst, MuxPlaces
<1>12. CASE Fail(t)
  <2>1. /\ pc' = [pc EXCEPT ![t] = "done"] /\ dst' = dst /\ net' = net
        /\ UNCHANGED <<mux, lock, main, terminate>>
    BY <1>12 DEF Fail, Fails, MainVars, Unlocked, SendState
  <2> QED BY <1>t, <2>1, SetMoves DEF Ordinary, AtDst, MuxPlaces
<1> QED BY <1>1, <1>2, <1>3, <1>4, <1>5, <1>6, <1>7, <1>8, <1>9, <1>10, <1>11, <1>12

LEMMA FilterOrdinary ==
    ASSUME PcInv, NEW f \in Threads, f[1] = "flt",
           Filter(f) \/ FilterChooses(f) \/ FilterTakes(f) \/ FilterCloses(f)
    PROVE  Ordinary(f)
<1>t. f \in Tasks /\ pc[f] \notin {"none", "exited"}
  BY DEF Threads
<1>u. ASSUME net' = net, dst' = dst, NEW p, pc' = [pc EXCEPT ![f] = p],
             p \in {"wait", "finish", "receive", "frames", "close", "done"},
             UNCHANGED <<mux, lock, main, terminate>>
      PROVE Ordinary(f)
  BY <1>t, <1>u, SetMoves DEF Ordinary, AtDst
<1>1. CASE FilterIdles(f)
  BY <1>1, <1>u DEF FilterIdles, FgVars, MainVars, Unlocked, SendState
<1>2. CASE FilterWakes(f)
  BY <1>2, <1>u DEF FilterWakes, FgVars, MainVars, Unlocked, SendState
<1>3. CASE FilterFrames(f)
  <2>1. net' = net /\ UNCHANGED <<mux, lock, main, terminate>>
    BY <1>3 DEF FilterFrames, FgVars, MainVars, Unlocked
  <2>2. \/ \E x : StartSending(f, x)
        \/ dst' = dst /\ \E g : Wants(f, g)
        \/ dst' = dst /\ pc' = [pc EXCEPT ![f] = "finish"]
    BY <1>3 DEF FilterFrames, SendState
  <2>3. CASE \E x : StartSending(f, x)
    BY <1>t, <2>1, <2>3, SendingMoves DEF Ordinary
  <2>4. CASE dst' = dst /\ \E g : Wants(f, g)
    <3>1. \E p \in {"receive", "close"} : pc' = [pc EXCEPT ![f] = p]
      BY <2>4 DEF Wants
    <3> QED BY <2>1, <2>4, <3>1, <1>u
  <2>5. CASE dst' = dst /\ pc' = [pc EXCEPT ![f] = "finish"]
    BY <2>1, <2>5, <1>u
  <2> QED BY <2>2, <2>3, <2>4, <2>5
<1>4. CASE FilterFinishes(f)
  <2>1. /\ net' = net /\ UNCHANGED <<mux, lock, main, terminate>>
        /\ \/ StartSending(f, Dummy)
           \/ pc' = [pc EXCEPT ![f] = "done"] /\ dst' = dst
    BY <1>4 DEF FilterFinishes, FgVars, MainVars, Unlocked, SendState
  <2>2. CASE StartSending(f, Dummy)
    BY <1>t, <2>1, <2>2, SendingMoves DEF Ordinary
  <2>3. CASE pc' = [pc EXCEPT ![f] = "done"] /\ dst' = dst
    BY <2>1, <2>3, <1>u
  <2> QED BY <2>1, <2>2, <2>3
<1>5. CASE FilterChooses(f)
  <2>1. pc' = pc /\ dst' = dst /\ net' = net /\ pc[f] = "receive" /\ UNCHANGED <<mux, lock, main, terminate>>
    BY <1>5 DEF FilterChooses, FgVars, MainVars, Unlocked, SendState
  <2> QED BY <1>t, <2>1 DEF Moves, PcInv, Ordinary, AtDst, MuxPlaces
<1>6. CASE FilterTakes(f)
  BY <1>6, <1>u DEF FilterTakes, FgVars, MainVars, Unlocked, SendState
<1>7. CASE FilterCloses(f)
  BY <1>7, <1>u DEF FilterCloses, FgVars, MainVars, Unlocked, SendState
<1> QED BY <1>1, <1>2, <1>3, <1>4, <1>5, <1>6, <1>7 DEF Filter

-----------------------------------------------------------------------------
(***************************************************************************)
(* The start of a muxer.  Who flushes pre-muxing queues holds              *)
(* mux_ready_lock until the muxer counts as started, and nobody queues a   *)
(* packet without that lock.                                               *)
(***************************************************************************)
Opened(t) == Outs(Target(t).to)[1].to

MuxInv ==
    /\ DOMAIN mux = Of("mux")
    /\ \A m \in DOMAIN mux : DOMAIN mux[m] = {"started", "ready", "pre", "initEof"} /\ mux[m].started \in BOOLEAN
    /\ \A t \in Tasks : pc[t] \in {"flush", "flushed"} => lock = t
    /\ \A t \in Tasks : pc[t] = "flushed" => (Opened(t) \in DOMAIN mux => ~Unflushed(Opened(t)))
    /\ PreMuxDrained

LEMMA OrdinaryKeepsMuxInv ==
    ASSUME PcInv, MuxInv, NEW t \in Tasks, Ordinary(t)
    PROVE  MuxInv'
<1>1. Tasks' = Tasks /\ Of("mux")' = Of("mux") /\ mux' = mux /\ lock' = lock
  BY DEF Ordinary, Moves, Tasks, Of
<1>2. \A u \in Tasks : pc'[u] \in {"flush", "flushed"} => u # t /\ pc'[u] = pc[u] /\ dst'[u] = dst[u]
  BY DEF Ordinary, Moves
<1>3. \A u \in Tasks : dst'[u] = dst[u] => Opened(u)' = Opened(u)
  BY DEF Ordinary, Moves, Opened, Target, Outs
<1>4. \A m : Unflushed(m)' = Unflushed(m)
  BY <1>1 DEF Unflushed
<1>5. PreMuxDrained'
  BY <1>1, <1>4 DEF PreMuxDrained, MuxInv
<1> QED BY <1>1, <1>2, <1>3, <1>4, <1>5 DEF MuxInv

\* The steps around a start.
StartsMux(t) == EncOpen(t) \/ MuxQueue(t) \/ MuxFlush(t) \/ MuxFlushed(t) \/ MuxStarted(t)

LEMMA FlushMoves ==
    ASSUME PcInv, NEW t \in Threads, MuxQueue(t) \/ MuxFlush(t) \/ MuxFlushed(t) \/ MuxStarted(t)
    PROVE  Moves(t)
<1>t. t \in Tasks /\ pc[t] \notin {"none", "exited"}
  BY DEF Threads
<1>m. pc[t] \in AtDst => t[1] # "mux"
  BY <1>t DEF PcInv, AtDst, MuxPlaces
<1>1. CASE MuxQueue(t)
  <2>1. /\ pc[t] = "mux_lock" /\ net' = net /\ dst' = dst
        /\ \E p \in {"send", "mux_schedule"} : pc' = [pc EXCEPT ![t] = p]
    BY <1>1 DEF MuxQueue, TaskVars, SendState
  <2> QED BY <1>t, <1>m, <2>1, SetMoves DEF AtDst
<1>2. CASE MuxFlush(t)
  <2>1. pc[t] = "flush" /\ pc' = pc /\ net' = net /\ dst' = dst
    BY <1>2 DEF MuxFlush, TaskVars, SendState
  <2> QED BY <1>t, <1>m, <2>1 DEF Moves, PcInv, AtDst
<1>3. CASE MuxFlushed(t)
  <2>1. pc[t] = "flush" /\ pc' = [pc EXCEPT ![t] = "flushed"] /\ net' = net /\ dst' = dst
    BY <1>3 DEF MuxFlushed, TaskVars, SendState
  <2> QED BY <1>t, <1>m, <2>1, SetMoves DEF AtDst
<1>4. CASE MuxStarted(t)
  <2>1. pc[t] = "flushed" /\ pc' = [pc EXCEPT ![t] = "send"] /\ net' = net /\ dst' = dst
    BY <1>4 DEF MuxStarted, SendState
  <2> QED BY <1>t, <1>m, <2>1, SetMoves DEF AtDst
<1> QED BY <1>1, <1>2, <1>3, <1>4

\* EncOpen moves the thread that opens the encoder and, the last time, starts the
\* muxer's.
LEMMA EncOpenMoves ==
    ASSUME PcInv, NEW t \in Threads, EncOpen(t)
    PROVE  /\ net' = net /\ dst' = dst /\ DOMAIN pc' = Tasks
           /\ t[1] \in {"dec", "flt"} /\ pc[t] = "send"
           /\ Opened(t) \in Of("mux") /\ Opened(t) # t
           /\ \/ pc' = pc /\ lock' = lock
              \/ lock' = t /\ pc' = [pc EXCEPT ![t] = "flush", ![Opened(t)] = "receive"]
<1>t. t \in Tasks /\ pc[t] = "send" /\ net' = net /\ dst' = dst
  BY DEF Threads, EncOpen, SendState
<1>1. dst[t] \in DOMAIN Outs(t) /\ t[1] # "mux"
  BY <1>t DEF PcInv, AtDst, MuxPlaces
<1>2. Target(t).to \in Tasks /\ Target(t).to[1] = "enc" /\ "enc" \in Receivers[t[1]] /\ t[1] \in Kinds
  BY <1>t, <1>1, NetFacts DEF PcInv, Target, EncOpen
<1>3. t[1] \in {"dec", "flt"}
  BY <1>2 DEF Receivers, Kinds
<1>4. Opened(t) \in Tasks /\ Opened(t)[1] \in Receivers["enc"]
  BY <1>2, NetFacts DEF PcInv, Opened
<1>5. Opened(t) \in Of("mux") /\ Opened(t) # t
  BY <1>3, <1>4 DEF Receivers, Of
<1>6. \/ pc' = pc /\ lock' = lock
      \/ lock' = t /\ pc' = [pc EXCEPT ![t] = "flush", ![Opened(t)] = "receive"]
  BY DEF EncOpen, Opened
<1> QED BY <1>t, <1>3, <1>5, <1>6 DEF PcInv

LEMMA EncOpenKeepsPcInv ==
    ASSUME PcInv, NEW t \in Threads, EncOpen(t)
    PROVE  PcInv'
<1>1. Tasks' = Tasks /\ \A u \in Tasks : Outs(u)' = Outs(u)
  BY EncOpenMoves DEF Tasks, Outs
<1>2. t \in Tasks /\ Opened(t)[1] = "mux"
  BY EncOpenMoves DEF Threads, Of
<1>3. CASE pc' = pc
  BY <1>1, <1>3, EncOpenMoves DEF PcInv
<1>4. CASE pc' = [pc EXCEPT ![t] = "flush", ![Opened(t)] = "receive"]
  <2>1. \A u \in Tasks : pc'[u] = IF u = Opened(t) THEN "receive" ELSE IF u = t THEN "flush" ELSE pc[u]
    BY <1>4, EncOpenMoves DEF PcInv
  <2>2. dst[t] \in DOMAIN Outs(t)
    BY <1>2, EncOpenMoves DEF PcInv, AtDst
  <2> QED BY <1>1, <1>2, <2>1, <2>2, EncOpenMoves DEF PcInv, AtDst, MuxPlaces
<1> QED BY <1>3, <1>4, EncOpenMoves

LEMMA NoFlushUnderLock ==
    ASSUME PcInv, MuxInv, lock = Null, NEW u \in Tasks
    PROVE  pc[u] \notin {"flush", "flushed"}
BY NetFacts DEF MuxInv, PcInv

LEMMA StartKeepsMuxInv ==
    ASSUME PcInv, MuxInv, NEW t \in Threads, StartsMux(t)
    PROVE  MuxInv'
<1>t. t \in Tasks /\ pc[t] \notin {"none", "exited"}
  BY DEF Threads
<1>n. net' = net /\ dst' = dst
  BY DEF StartsMux, EncOpen, MuxQueue, MuxFlush, MuxFlushed, MuxStarted, TaskVars, SendState
<1>s. Tasks' = Tasks /\ Of("mux")' = Of("mux") /\ \A u : Opened(u)' = Opened(u)
  BY <1>n DEF Tasks, Of, Opened, Target, Outs
<1>1. CASE EncOpen(t)
  <2>1. lock = Null /\ mux' = [mux EXCEPT ![Opened(t)].ready = @ \cup {Outs(Target(t).to)[1].i}]
    BY <1>1 DEF EncOpen, Opened
  <2>2. /\ DOMAIN mux' = DOMAIN mux
        /\ \A m \in DOMAIN mux : /\ DOMAIN mux'[m] = DOMAIN mux[m]
                                 /\ mux'[m].started = mux[m].started /\ mux'[m].pre = mux[m].pre
    BY <2>1 DEF MuxInv
  <2>3. \A m \in DOMAIN mux : Unflushed(m)' = Unflushed(m)
    BY <2>2 DEF Unflushed
  <2>4. \A u \in Tasks : pc[u] \notin {"flush", "flushed"}
    BY <2>1, NoFlushUnderLock
  <2>5. \A u \in Tasks : pc'[u] # "flushed" /\ (pc'[u] = "flush" => u = t /\ lock' = t)
    BY <1>1, <2>4, EncOpenMoves DEF PcInv
  <2> QED BY <1>s, <2>2, <2>3, <2>5 DEF MuxInv, PreMuxDrained
<1>2. CASE MuxQueue(t)
  <2> DEFINE m == Target(t).to
             i == Target(t).i
  <2>1. /\ lock = Null /\ lock' = lock /\ pc[t] = "mux_lock"
        /\ mux' = IF mux[m].started THEN mux ELSE [mux EXCEPT ![m].pre[i] = Append(@, Item(t))]
        /\ \E p \in {"send", "mux_schedule"} : pc' = [pc EXCEPT ![t] = p]
    BY <1>2 DEF MuxQueue
  <2> HIDE DEF m, i
  <2>2. /\ DOMAIN mux' = DOMAIN mux
        /\ \A x \in DOMAIN mux : /\ DOMAIN mux'[x] = DOMAIN mux[x]
                                 /\ mux'[x].started = mux[x].started
                                 /\ mux[x].started => mux'[x].pre = mux[x].pre
    BY <2>1 DEF MuxInv
  <2>3. \A x \in DOMAIN mux : mux[x].started => Unflushed(x)' = Unflushed(x)
    BY <2>2 DEF Unflushed
  <2>4. \A u \in Tasks : pc'[u] \notin {"flush", "flushed"}
    BY <1>t, <2>1, NoFlushUnderLock DEF PcInv
  <2> QED BY <1>s, <2>2, <2>3, <2>4 DEF MuxInv, PreMuxDrained
<1>3. CASE MuxFlush(t)
  <2> DEFINE m == Opened(t)
             i == Earliest(m)
  <2>1. /\ pc' = pc /\ lock' = lock /\ pc[t] = "flush" /\ Unflushed(m)
        /\ LET popped == [mux EXCEPT ![m].pre[i] = Tail(@)]
           IN  mux' = popped \/ mux' = [popped EXCEPT ![m].initEof = @ \cup {i}]
    BY <1>3 DEF MuxFlush, SendState, Opened
  <2> HIDE DEF m, i
  <2>2. /\ DOMAIN mux' = DOMAIN mux
        /\ \A x \in DOMAIN mux : /\ DOMAIN mux'[x] = DOMAIN mux[x]
                                 /\ mux'[x].started = mux[x].started
                                 /\ x # m => mux'[x].pre = mux[x].pre
    BY <2>1 DEF MuxInv
  <2>3. \A x \in DOMAIN mux : x # m => Unflushed(x)' = Unflushed(x)
    BY <2>2 DEF Unflushed
  <2>4. m \in DOMAIN mux => ~mux[m].started
    BY <2>1 DEF MuxInv, PreMuxDrained
  <2>5. \A u \in Tasks : pc'[u] # "flushed"
    BY <1>t, <2>1 DEF MuxInv
  <2> QED BY <1>s, <2>1, <2>2, <2>3, <2>4, <2>5 DEF MuxInv, PreMuxDrained
<1>4. CASE MuxFlushed(t)
  <2>1. /\ mux' = mux /\ lock' = lock /\ pc[t] = "flush" /\ ~Unflushed(Opened(t))
        /\ pc' = [pc EXCEPT ![t] = "flushed"]
    BY <1>4 DEF MuxFlushed, Opened
  <2>2. \A m : Unflushed(m)' = Unflushed(m)
    BY <2>1 DEF Unflushed
  <2>3. lock = t /\ \A u \in Tasks : pc'[u] \in {"flush", "flushed"} => u = t
    BY <1>t, <2>1 DEF MuxInv, PcInv
  <2> QED BY <1>s, <2>1, <2>2, <2>3 DEF MuxInv, PreMuxDrained
<1>5. CASE MuxStarted(t)
  <2> DEFINE m == Opened(t)
  <2>1. /\ pc[t] = "flushed" /\ pc' = [pc EXCEPT ![t] = "send"]
        /\ mux' = [mux EXCEPT ![m].started = TRUE]
    BY <1>5 DEF MuxStarted, Opened
  <2>2. m \in DOMAIN mux => ~Unflushed(m)
    BY <1>t, <2>1 DEF MuxInv
  <2> HIDE DEF m
  <2>3. /\ DOMAIN mux' = DOMAIN mux
        /\ \A x \in DOMAIN mux : /\ DOMAIN mux'[x] = DOMAIN mux[x]
                                 /\ mux'[x].started \in BOOLEAN
                                 /\ x # m => mux'[x].started = mux[x].started
                                 /\ mux'[x].pre = mux[x].pre
    BY <2>1 DEF MuxInv
  <2>4. \A x \in DOMAIN mux : Unflushed(x)' = Unflushed(x)
    BY <2>3 DEF Unflushed
  <2>5. \A u \in Tasks : pc'[u] \notin {"flush", "flushed"}
    BY <1>t, <2>1 DEF MuxInv, PcInv
  <2> QED BY <1>s, <2>2, <2>3, <2>4, <2>5 DEF MuxInv, PreMuxDrained
<1> QED BY <1>1, <1>2, <1>3, <1>4, <1>5 DEF StartsMux

-----------------------------------------------------------------------------
(***************************************************************************)
(* The schedule and the queues.  A step outside of the schedule neither    *)
(* chokes a source nor freezes a queue.                                    *)
(***************************************************************************)
QFields == {"nb", "size", "index", "items", "sent", "recvd", "choked"}
SFields == {"dts", "reported", "finished", "recvd", "sent", "best", "exited", "choked"}

Stopping == main \in DOMAIN NextKind \cup {"stopped"}

QueueInv ==
    /\ DOMAIN queue = Tasks \ Of("demux")
    /\ \A t \in DOMAIN queue : DOMAIN queue[t] = QFields /\ queue[t].choked \in BOOLEAN
    /\ DOMAIN sched = SFields
    /\ \A t \in DOMAIN queue : queue[t].choked => \E d \in Of("demux") : Freezes(d, t)
    /\ StopHolds

\* Only steps of main change these two.
StopInv ==
    /\ main \in {"starting", "waiting", "choke", "stopped"} \cup DOMAIN NextKind
    /\ terminate = (main \notin {"starting", "waiting"})

Spared(q, r) == DOMAIN r = QFields /\ r.choked \in BOOLEAN /\ (r.choked => q.choked)
Calm(q)      == DOMAIN q = DOMAIN queue /\ \A x \in DOMAIN queue : Spared(queue[x], q[x])
SameChoke(s) == DOMAIN s = SFields /\ s.choked = sched.choked

Undisturbed == Calm(queue') /\ SameChoke(sched')
Rescheduled == \E s, q : Calm(q) /\ SameChoke(s) /\ Schedule(s, q)

LEMMA OpsSpare ==
    ASSUME NEW q, DOMAIN q = QFields, q.choked \in BOOLEAN
    PROVE  /\ \A s, d : Spared(q, Write(q, s, d))
           /\ \A s : Spared(q, SendEnds(q, s)) /\ Spared(q, SendFinished(q, s)) /\ Spared(q, ReceiveFinished(q, s))
           /\ \A S : Spared(q, FinishQueue(q, S))
           /\ \A n : Spared(q, DropFirst(q, n))
BY DEF QFields, Spared, Write, SendEnds, SendFinished, ReceiveFinished, FinishQueue, DropFirst

LEMMA ReceiveSpares ==
    ASSUME NEW q, DOMAIN q = QFields, q.choked \in BOOLEAN
    PROVE  Spared(q, Receive(q).q)
<1>1. \A n : Spared(q, DropFirst(q, n))
  BY OpsSpare
<1>2. Spared(q, NextItem(q).q)
  BY <1>1 DEF NextItem
<1>3. Spared(q, NextEnd(q).q)
  <2>1. NextEnd(q).q = ReceiveFinished(DropFirst(q, Len(q.items)), Lowest(Untold(q)))
    BY DEF NextEnd
  <2>2. Spared(q, DropFirst(q, Len(q.items)))
    BY <1>1
  <2>3. \A s : Spared(DropFirst(q, Len(q.items)), ReceiveFinished(DropFirst(q, Len(q.items)), s))
    BY <2>2, OpsSpare DEF Spared
  <2> QED BY <2>1, <2>2, <2>3 DEF Spared
<1>4. \A r : Spared(q, Nothing(q, r).q) /\ [Nothing(q, r) EXCEPT !.q = q].q = q
  BY <1>1 DEF Nothing
<1>5. Spared(q, q)
  BY DEF Spared
<1> QED BY <1>2, <1>3, <1>4, <1>5 DEF Receive

LEMMA ExceptCalm ==
    ASSUME QueueInv, NEW x, NEW r, x \in DOMAIN queue => Spared(queue[x], r)
    PROVE  Calm([queue EXCEPT ![x] = r])
BY DEF QueueInv, Calm, Spared

LEMMA SameCalm ==
    ASSUME QueueInv
    PROVE  Calm(queue) /\ SameChoke(sched)
BY DEF QueueInv, Calm, Spared, SameChoke

\* Whatever was freed or choked before a schedule, only decoders are frozen after
\* it, and nothing changes once the library was asked to terminate.
LEMMA StepKeepsQueueInv ==
    ASSUME QueueInv, StopInv, net' = net, Stopping' => Stopping, Undisturbed \/ Rescheduled
    PROVE  QueueInv'
<1>1. /\ Tasks' = Tasks /\ \A k : Of(k)' = Of(k)
      /\ Sources' = Sources /\ \A d, t : Freezes(d, t)' = Freezes(d, t)
  <2>1. \A t : Outs(t)' = Outs(t)
    BY DEF Outs
  <2>2. \A t : FirstOuts(t)' = FirstOuts(t)
    BY <2>1 DEF FirstOuts
  <2> QED BY <2>1, <2>2 DEF Tasks, Of, Sources, Freezes
<1>2. ASSUME Calm(queue'), SameChoke(sched') PROVE QueueInv'
  <2>1. DOMAIN queue' = DOMAIN queue /\ DOMAIN sched' = SFields /\ sched'.choked = sched.choked
    BY <1>2 DEF Calm, SameChoke
  <2>2. \A t \in DOMAIN queue : /\ DOMAIN queue'[t] = QFields /\ queue'[t].choked \in BOOLEAN
                                /\ queue'[t].choked => queue[t].choked
    BY <1>2 DEF Calm, Spared
  <2>3. StopHolds'
    BY <1>1, <2>1, <2>2 DEF StopHolds, Stopping, QueueInv
  <2> QED BY <1>1, <2>1, <2>2, <2>3 DEF QueueInv
<1>3. CASE Undisturbed
  BY <1>2, <1>3 DEF Undisturbed
<1>4. CASE Rescheduled
  <2>1. PICK s, q : Calm(q) /\ SameChoke(s) /\ Schedule(s, q)
    BY <1>4 DEF Rescheduled
  <2>2. CASE terminate
    BY <1>2, <2>1, <2>2 DEF Schedule
  <2>3. CASE ~terminate
    <3>1. PICK next, D, C : /\ sched' = [s EXCEPT !.choked = next] /\ D \subseteq Of("demux")
                            /\ queue' = ChokeDemux(q, D, C)
      BY <2>1, <2>3 DEF Schedule
    <3>2. DOMAIN sched' = SFields
      BY <2>1, <3>1 DEF SameChoke
    <3>3. DOMAIN queue' = DOMAIN queue
      BY <2>1, <3>1 DEF Calm, ChokeDemux
    <3>4. ASSUME NEW t \in DOMAIN queue
          PROVE  /\ DOMAIN queue'[t] = QFields /\ queue'[t].choked \in BOOLEAN
                 /\ queue'[t].choked => \E d \in Of("demux") : Freezes(d, t)
      <4>1. DOMAIN q[t] = QFields /\ q[t].choked \in BOOLEAN /\ (q[t].choked => queue[t].choked)
        BY <2>1 DEF Calm, Spared
      <4>2. queue'[t] = IF \E d \in D : Freezes(d, t)
                        THEN Choked(q[t], \E d \in C : Freezes(d, t)) ELSE q[t]
        BY <2>1, <3>1 DEF Calm, ChokeDemux
      <4>3. CASE \E d \in D : Freezes(d, t)
        <5> DEFINE b == \E d \in C : Freezes(d, t)
        <5>1. b \in BOOLEAN
          OBVIOUS
        <5>2. queue'[t] = Choked(q[t], b)
          BY <4>2, <4>3
        <5> HIDE DEF b
        <5>3. DOMAIN queue'[t] = QFields /\ queue'[t].choked = b
          BY <4>1, <5>2 DEF Choked, QFields
        <5> QED BY <3>1, <4>3, <5>1, <5>3
      <4>4. CASE ~\E d \in D : Freezes(d, t)
        BY <4>1, <4>2, <4>4 DEF QueueInv
      <4> QED BY <4>3, <4>4
    <3>5. StopHolds'
      BY <2>3 DEF StopInv, StopHolds, Stopping, NextKind
    <3> QED BY <1>1, <3>2, <3>3, <3>4, <3>5 DEF QueueInv
  <2> QED BY <2>2, <2>3
<1> QED BY <1>3, <1>4

LEMMA SendingCalm ==
    ASSUME QueueInv, NEW t \in Threads, Sending(t) \/ SendFilterFinish(t) \/ MuxSchedule(t)
    PROVE  Undisturbed \/ Rescheduled
<1>s. Calm(queue) /\ SameChoke(sched)
  BY SameCalm
<1>q. \A x \in DOMAIN queue : DOMAIN queue[x] = QFields /\ queue[x].choked \in BOOLEAN
  BY DEF QueueInv
<1>e. ASSUME NEW x, NEW r, x \in DOMAIN queue => Spared(queue[x], r),
             queue' = [queue EXCEPT ![x] = r], sched' = sched
      PROVE Undisturbed
  BY <1>e, <1>s, ExceptCalm DEF Undisturbed, SameChoke
<1>0. ASSUME queue' = queue, sched' = sched PROVE Undisturbed
  BY <1>0, <1>s DEF Undisturbed, SameChoke
<1>1. CASE SendItem(t)
  BY <1>1, <1>q, <1>e, OpsSpare DEF SendItem
<1>2. CASE SendEnded(t)
  BY <1>2, <1>q, <1>e, OpsSpare DEF SendEnded
<1>3. CASE SendFinish(t)
  BY <1>3, <1>q, <1>e, OpsSpare DEF SendFinish
<1>4. CASE MuxCheck(t) \/ MuxQueue(t) \/ MuxQueueFull(t)
  BY <1>4, <1>0 DEF MuxCheck, MuxQueue, MuxQueueFull
<1>5. CASE MuxSend(t)
  <2> DEFINE m == Target(t).to
  <2>1. /\ sched' = sched
        /\ \/ queue' = [queue EXCEPT ![m] = SendFinished(queue[m], Target(t).i)]
           \/ queue' = [queue EXCEPT ![m] = SendEnds(queue[m], Target(t).i)]
           \/ queue' = [queue EXCEPT ![m] = Write(queue[m], Target(t).i, item[t])]
    BY <1>5 DEF MuxSend
  <2> HIDE DEF m
  <2> QED BY <2>1, <1>q, <1>e, OpsSpare
<1>6. CASE EncOpen(t) \/ DummySent(t) \/ MuxFlushed(t) \/ MuxStarted(t)
  BY <1>6, <1>0 DEF EncOpen, DummySent, MuxFlushed, MuxStarted
<1>7. CASE MuxFlush(t)
  <2> DEFINE m == Opened(t)
             i == Earliest(m)
  <2>1. /\ sched' = sched
        /\ \/ queue' = queue
           \/ queue' = [queue EXCEPT ![m] = SendFinished(queue[m], i)]
           \/ queue' = [queue EXCEPT ![m] = SendEnds(queue[m], i)]
           \/ \E p : queue' = [queue EXCEPT ![m] = Write(queue[m], i, p)]
    BY <1>7 DEF MuxFlush, Opened
  <2> HIDE DEF m, i
  <2> QED BY <2>1, <1>0, <1>q, <1>e, OpsSpare
<1>8. CASE SendFilterFinish(t)
  <2> DEFINE o == Target(t)
             f == o.to
             sc == [sched EXCEPT !.sent = @ \cup {<<f, o.i>>}]
             q == SendFinished(queue[f], o.i)
  <2>1. \/ UNCHANGED <<sched, queue>>
        \/ \E r \in {q, SendFinished(q, NoInput(f))} : Schedule(sc, [queue EXCEPT ![f] = r])
    BY <1>8 DEF SendFilterFinish
  <2>2. f \in DOMAIN queue => Spared(queue[f], q) /\ Spared(queue[f], SendFinished(q, NoInput(f)))
    BY <1>q, OpsSpare DEF Spared
  <2>3. SameChoke(sc)
    BY <1>s DEF SameChoke, SFields
  <2> HIDE DEF o, f, sc, q
  <2>4. \A r \in {q, SendFinished(q, NoInput(f))} : Calm([queue EXCEPT ![f] = r])
    BY <2>2, ExceptCalm
  <2> QED BY <2>1, <2>3, <2>4, <1>0 DEF Rescheduled
<1>9. CASE MuxSchedule(t)
  <2> DEFINE ms == <<Target(t).to, Target(t).i>>
             ended == [sched EXCEPT !.finished = @ \cup {ms}]
             later == WithTime(ms, item[t][1] + item[t][2])
  <2>1. \/ UNCHANGED <<sched, queue>>
        \/ Schedule(ended, queue)
        \/ Schedule(later, queue)
    BY <1>9 DEF MuxSchedule
  <2>2. SameChoke(ended) /\ SameChoke(later)
    BY <1>s DEF SameChoke, SFields, WithTime
  <2> HIDE DEF ended, later
  <2> QED BY <2>1, <2>2, <1>s, <1>0 DEF Rescheduled
<1> QED BY <1>1, <1>2, <1>3, <1>4, <1>5, <1>6, <1>7, <1>8, <1>9 DEF Sending

LEMMA LoopCalm ==
    ASSUME QueueInv, NEW t \in Threads,
           \/ t[1] = "demux" /\ (DemuxSend(t) \/ DemuxEnd(t))
           \/ Discard(t) \/ Decode(t) \/ Encode(t) \/ Mux(t) \/ TaskDone(t) \/ MuxExit(t)
           \/ MuxFinish(t) \/ TaskExit(t) \/ MuxDone(t) \/ Fail(t)
    PROVE  Undisturbed \/ Rescheduled
<1>s. Calm(queue) /\ SameChoke(sched)
  BY SameCalm
<1>q. \A x \in DOMAIN queue : DOMAIN queue[x] = QFields /\ queue[x].choked \in BOOLEAN
  BY DEF QueueInv
<1>e. ASSUME NEW x, NEW r, x \in DOMAIN queue => Spared(queue[x], r),
             queue' = [queue EXCEPT ![x] = r], sched' = sched
      PROVE Undisturbed
  BY <1>e, <1>s, ExceptCalm DEF Undisturbed, SameChoke
<1>r. t \in DOMAIN queue => Spared(queue[t], Receive(queue[t]).q)
  BY <1>q, ReceiveSpares
<1>0. ASSUME queue' = queue, sched' = sched PROVE Undisturbed
  BY <1>0, <1>s DEF Undisturbed, SameChoke
<1>1. CASE DemuxSend(t) \/ DemuxEnd(t) \/ MuxExit(t) \/ Fail(t)
  BY <1>1, <1>0 DEF DemuxSend, DemuxEnd, MuxExit, Fail
<1>2. CASE Discard(t) \/ Decode(t) \/ Encode(t)
  <2>1. queue' = [queue EXCEPT ![t] = Receive(queue[t]).q] /\ sched' = sched
    BY <1>2 DEF Discard, Decode, Encode
  <2> QED BY <2>1, <1>r, <1>e
<1>3. CASE Mux(t)
  <2> DEFINE r == Receive(queue[t])
  <2>1. /\ sched' = sched
        /\ queue' = [queue EXCEPT ![t] = ReceiveFinished(r.q, r.stream)] \/ queue' = [queue EXCEPT ![t] = r.q]
    BY <1>3 DEF Mux
  <2>2. t \in DOMAIN queue => Spared(queue[t], ReceiveFinished(r.q, r.stream))
    BY <1>q, <1>r, OpsSpare DEF Spared
  <2> HIDE DEF r
  <2>3. t \in DOMAIN queue => Spared(queue[t], r.q)
    BY <1>r DEF r
  <2> QED BY <2>1, <2>2, <2>3, <1>e
<1>4. CASE TaskDone(t)
  <2>1. sched' = sched /\ (queue' = queue \/ \E S : queue' = [queue EXCEPT ![t] = FinishQueue(queue[t], S)])
    BY <1>4 DEF TaskDone
  <2> QED BY <2>1, <1>0, <1>q, <1>e, OpsSpare
<1>5. CASE MuxFinish(t)
  <2>1. PICK S : Schedule([sched EXCEPT !.finished = S], queue)
    BY <1>5 DEF MuxFinish
  <2>2. SameChoke([sched EXCEPT !.finished = S])
    BY <1>s DEF SameChoke, SFields
  <2> QED BY <2>1, <2>2, <1>s DEF Rescheduled
<1>6. CASE TaskExit(t)
  <2>1. UNCHANGED <<sched, queue>> \/ \E S : Schedule([sched EXCEPT !.exited = S], queue)
    BY <1>6 DEF TaskExit
  <2>2. \A S : SameChoke([sched EXCEPT !.exited = S])
    BY <1>s DEF SameChoke, SFields
  <2> QED BY <2>1, <2>2, <1>0, <1>s DEF Rescheduled
<1>7. CASE MuxDone(t)
  <2>1. PICK S, R : Schedule([sched EXCEPT !.finished = S], [queue EXCEPT ![t] = FinishQueue(queue[t], R)])
    BY <1>7 DEF MuxDone
  <2>2. SameChoke([sched EXCEPT !.finished = S])
    BY <1>s DEF SameChoke, SFields
  <2>3. Calm([queue EXCEPT ![t] = FinishQueue(queue[t], R)])
    BY <1>q, ExceptCalm, OpsSpare
  <2> QED BY <2>1, <2>2, <2>3 DEF Rescheduled
<1> QED BY <1>1, <1>2, <1>3, <1>4, <1>5, <1>6, <1>7

LEMMA FilterCalm ==
    ASSUME QueueInv, NEW f \in Threads,
           Filter(f) \/ FilterChooses(f) \/ FilterTakes(f) \/ FilterCloses(f)
    PROVE  Undisturbed \/ Rescheduled
<1>s. Calm(queue) /\ SameChoke(sched)
  BY SameCalm
<1>q. \A x \in DOMAIN queue : DOMAIN queue[x] = QFields /\ queue[x].choked \in BOOLEAN
  BY DEF QueueInv
<1>e. ASSUME NEW x, NEW r, x \in DOMAIN queue => Spared(queue[x], r),
             queue' = [queue EXCEPT ![x] = r], sched' = sched
      PROVE Undisturbed
  BY <1>e, <1>s, ExceptCalm DEF Undisturbed, SameChoke
<1>r. f \in DOMAIN queue => Spared(queue[f], Receive(queue[f]).q)
  BY <1>q, ReceiveSpares
<1>0. ASSUME queue' = queue, sched' = sched PROVE Undisturbed
  BY <1>0, <1>s DEF Undisturbed, SameChoke
<1>b. \A b : SameChoke([sched EXCEPT !.best[f] = b]) /\ SameChoke([sched EXCEPT !.recvd = b])
  BY <1>s DEF SameChoke, SFields
<1>1. CASE FilterIdles(f)
  <2>1. queue' = [queue EXCEPT ![f] = Receive(queue[f]).q] /\ sched' = sched
    BY <1>1 DEF FilterIdles
  <2> QED BY <2>1, <1>r, <1>e
<1>2. CASE FilterWakes(f) \/ FilterFrames(f)
  BY <1>2, <1>0 DEF FilterWakes, FilterFrames
<1>3. CASE FilterFinishes(f)
  <2>1. sched' = sched /\ (queue' = queue \/ \E e : queue' = [queue EXCEPT ![e] = SendFinished(queue[e], 0)])
    BY <1>3 DEF FilterFinishes
  <2> QED BY <2>1, <1>0, <1>q, <1>e, OpsSpare
<1>4. CASE FilterChooses(f)
  <2>1. \E b : Schedule([sched EXCEPT !.best[f] = b], queue)
    BY <1>4 DEF FilterChooses
  <2> QED BY <2>1, <1>b, <1>s DEF Rescheduled
<1>5. CASE FilterTakes(f)
  <2> DEFINE q == [queue EXCEPT ![f] = Receive(queue[f]).q]
  <2>1. (queue' = q /\ sched' = sched) \/ \E b : Schedule([sched EXCEPT !.best[f] = b], q)
    BY <1>5 DEF FilterTakes
  <2>2. Calm(q)
    BY <1>r, ExceptCalm
  <2> HIDE DEF q
  <2> QED BY <2>1, <2>2, <1>b, <1>s DEF Rescheduled, Undisturbed, SameChoke
<1>6. CASE FilterCloses(f)
  <2>1. \/ UNCHANGED <<sched, queue>>
        \/ \E S, R : Schedule([sched EXCEPT !.recvd = S], [queue EXCEPT ![f] = FinishQueue(queue[f], R)])
    BY <1>6 DEF FilterCloses
  <2>2. \A R : Calm([queue EXCEPT ![f] = FinishQueue(queue[f], R)])
    BY <1>q, ExceptCalm, OpsSpare
  <2> QED BY <2>1, <2>2, <1>0, <1>b DEF Rescheduled
<1> QED BY <1>1, <1>2, <1>3, <1>4, <1>5, <1>6 DEF Filter

-----------------------------------------------------------------------------
(***************************************************************************)
(* What sch_stop has joined does not run again.  Only a muxer is started   *)
(* late, by a filtergraph or a decoder, which are joined before it.        *)
(***************************************************************************)
Joined ==
    CASE main = "dec"     -> {"demux"}
      [] main = "flt"     -> {"demux", "dec"}
      [] main = "enc"     -> {"demux", "dec", "flt"}
      [] main = "mux"     -> {"demux", "dec", "flt", "enc"}
      [] main = "stopped" -> Kinds
      [] OTHER            -> {}

JoinInv == \A t \in Tasks : t[1] \in Joined => pc[t] \in {"none", "exited"}

LEMMA MovesKeepsJoinInv ==
    ASSUME PcInv, JoinInv, NEW t \in Tasks, Moves(t), main' = main
    PROVE  JoinInv'
<1>1. Tasks' = Tasks /\ Joined' = Joined
  BY DEF Moves, Tasks, Joined
<1>2. t[1] \notin Joined
  BY DEF Moves, JoinInv
<1> QED BY <1>1, <1>2 DEF Moves, JoinInv

LEMMA EncOpenKeepsJoinInv ==
    ASSUME PcInv, JoinInv, NEW t \in Threads, EncOpen(t)
    PROVE  JoinInv'
<1>t. t \in Tasks /\ pc[t] \notin {"none", "exited"}
  BY DEF Threads
<1>1. Tasks' = Tasks /\ Joined' = Joined
  BY DEF EncOpen, Tasks, Joined
<1>2. t[1] \in {"dec", "flt"} /\ t[1] \notin Joined
  BY <1>t, EncOpenMoves DEF JoinInv
<1>3. "mux" \notin Joined
  BY <1>2 DEF Joined, Kinds
<1>4. \A u \in Tasks : u # t /\ u # Opened(t) => pc'[u] = pc[u]
  BY EncOpenMoves DEF PcInv
<1>5. Opened(t)[1] = "mux"
  BY EncOpenMoves DEF Of
<1> QED BY <1>1, <1>2, <1>3, <1>4, <1>5 DEF JoinInv

-----------------------------------------------------------------------------
(***************************************************************************)
(* The whole invariant.                                                    *)
(***************************************************************************)
IInv == PcInv /\ MuxInv /\ QueueInv /\ StopInv /\ JoinInv

LEMMA InitEstablishes == Init => IInv
<1> SUFFICES ASSUME Init PROVE IInv
  OBVIOUS
<1>1. PcInv
  BY DEF Init, PcInv, MuxPlaces, AtDst
<1>2. MuxInv
  <2>1. DOMAIN mux = Of("mux")
    BY DEF Init
  <2>2. \A m \in DOMAIN mux : /\ DOMAIN mux[m] = {"started", "ready", "pre", "initEof"}
                             /\ mux[m].started \in BOOLEAN
                             /\ \A i \in DOMAIN mux[m].pre : mux[m].pre[i] = <<>>
    BY DEF Init
  <2>3. \A m \in DOMAIN mux : ~Unflushed(m)
    BY <2>2 DEF Unflushed
  <2>4. \A t \in Tasks : pc[t] \notin {"flush", "flushed"}
    BY DEF Init
  <2> QED BY <2>1, <2>2, <2>3, <2>4 DEF MuxInv, PreMuxDrained
<1>3. QueueInv
  <2>1. \A n, k : DOMAIN NewQueue(n, k) = QFields /\ NewQueue(n, k).choked = FALSE
    BY DEF NewQueue, QFields
  <2>2. DOMAIN queue = Tasks \ Of("demux") /\ \A t \in DOMAIN queue : \E n : queue[t] = NewQueue(n, QueueSize)
    BY DEF Init
  <2>3. DOMAIN sched = SFields
    BY DEF Init, InitialSchedule, SFields
  <2>4. StopHolds
    BY DEF Init, StopHolds, NextKind
  <2> QED BY <2>1, <2>2, <2>3, <2>4 DEF QueueInv
<1>4. StopInv
  BY DEF Init, StopInv
<1>5. JoinInv
  BY DEF Init, JoinInv, Joined
<1> QED BY <1>1, <1>2, <1>3, <1>4, <1>5 DEF IInv

LEMMA ThreadKeeps ==
    ASSUME IInv, NEW t \in Threads, Working(t) \/ Scheduling(t) \/ Fail(t)
    PROVE  IInv'
<1>t. t \in Tasks
  BY DEF Threads
<1>i. PcInv /\ MuxInv /\ QueueInv /\ StopInv /\ JoinInv
  BY DEF IInv
<1>1. Ordinary(t) \/ StartsMux(t)
  BY <1>i, SendingOrdinary, LoopOrdinary, FilterOrdinary DEF Working, Scheduling, Sending, StartsMux
<1>2. Undisturbed \/ Rescheduled
  BY <1>i, SendingCalm, LoopCalm, FilterCalm DEF Working, Scheduling
<1>3. net' = net /\ UNCHANGED <<main, terminate>>
  <2>1. CASE Ordinary(t)
    BY <2>1 DEF Ordinary, Moves
  <2>2. CASE StartsMux(t)
    BY <2>2 DEF StartsMux, EncOpen, MuxQueue, MuxFlush, MuxFlushed, MuxStarted, TaskVars
  <2> QED BY <1>1, <2>1, <2>2
<1>4. StopInv' /\ (Stopping' => Stopping)
  BY <1>i, <1>3 DEF StopInv, Stopping
<1>5. QueueInv'
  BY <1>i, <1>2, <1>3, <1>4, StepKeepsQueueInv
<1>6. PcInv' /\ MuxInv' /\ JoinInv'
  <2>1. CASE Ordinary(t)
    BY <1>t, <1>i, <1>3, <2>1, MovesKeepsPcInv, OrdinaryKeepsMuxInv, MovesKeepsJoinInv DEF Ordinary
  <2>2. CASE EncOpen(t)
    BY <1>i, <2>2, EncOpenKeepsPcInv, StartKeepsMuxInv, EncOpenKeepsJoinInv DEF StartsMux
  <2>3. CASE MuxQueue(t) \/ MuxFlush(t) \/ MuxFlushed(t) \/ MuxStarted(t)
    <3>1. Moves(t) /\ StartsMux(t)
      BY <1>i, <2>3, FlushMoves DEF StartsMux
    <3> QED BY <1>t, <1>i, <1>3, <3>1, MovesKeepsPcInv, StartKeepsMuxInv, MovesKeepsJoinInv
  <2> QED BY <1>1, <2>1, <2>2, <2>3 DEF StartsMux
<1> QED BY <1>4, <1>5, <1>6 DEF IInv

\* The main thread, and what does nothing, move no task.
LEMMA StillKeeps ==
    ASSUME PcInv, MuxInv, UNCHANGED <<net, pc, dst, mux, lock>>
    PROVE  /\ PcInv' /\ MuxInv' /\ Tasks' = Tasks
           /\ \A t \in Tasks : pc'[t] = pc[t]
<1>1. /\ Tasks' = Tasks /\ Of("mux")' = Of("mux") /\ \A t : Outs(t)' = Outs(t)
      /\ \A t : Opened(t)' = Opened(t)
  BY DEF Tasks, Of, Outs, Opened, Target
<1>2. \A m : Unflushed(m)' = Unflushed(m)
  BY DEF Unflushed
<1>3. PcInv'
  BY <1>1 DEF PcInv
<1>4. MuxInv'
  BY <1>1, <1>2 DEF MuxInv, PreMuxDrained
<1> QED BY <1>1, <1>3, <1>4

LEMMA MainKeeps ==
    ASSUME IInv, MainWorks \/ Cancel \/ UNCHANGED vars
    PROVE  IInv'
<1>i. PcInv /\ MuxInv /\ QueueInv /\ StopInv /\ JoinInv
  BY DEF IInv
<1>n. UNCHANGED <<net, pc, dst, mux, lock>>
  BY DEF MainWorks, Start, Wait, Cancel, StopWith, ChokeAll, Join, NotMain, SendState, Unlocked, vars
<1>s. PcInv' /\ MuxInv' /\ Tasks' = Tasks /\ \A t \in Tasks : pc'[t] = pc[t]
  BY <1>i, <1>n, StillKeeps
<1>c. Calm(queue) /\ SameChoke(sched)
  BY <1>i, SameCalm
<1>1. CASE Start
  <2>1. main' = "waiting" /\ Rescheduled /\ main = "starting" /\ terminate' = terminate
    BY <1>1, <1>c DEF Start, Rescheduled
  <2>2. StopInv' /\ JoinInv'
    BY <1>i, <2>1 DEF StopInv, JoinInv, Joined
  <2>3. QueueInv'
    BY <1>i, <1>n, <2>1, StepKeepsQueueInv DEF Stopping, NextKind
  <2> QED BY <1>s, <2>2, <2>3 DEF IInv
<1>2. CASE Wait \/ Cancel
  <2>1. main' = "choke" /\ terminate' = TRUE /\ UNCHANGED <<queue, sched>>
    BY <1>2 DEF Wait, Cancel, StopWith
  <2>2. StopInv' /\ JoinInv'
    BY <1>i, <2>1 DEF StopInv, JoinInv, Joined
  <2>3. QueueInv'
    BY <1>i, <1>n, <1>c, <2>1, StepKeepsQueueInv DEF Stopping, NextKind, Undisturbed, SameChoke
  <2> QED BY <1>s, <2>2, <2>3 DEF IInv
<1>3. CASE ChokeAll
  <2>1. /\ main = "choke" /\ main' = "demux" /\ terminate' = terminate
        /\ sched' = [sched EXCEPT !.choked = Sources] /\ queue' = ChokeDemux(queue, Of("demux"), {})
    BY <1>3 DEF ChokeAll
  <2>2. StopInv' /\ JoinInv'
    BY <1>i, <2>1 DEF StopInv, JoinInv, Joined, NextKind
  <2>3. QueueInv'
    <3>1. /\ \A k : Of(k)' = Of(k)
          /\ Sources' = Sources
      BY <1>s DEF Of, Sources
    <3>2. DOMAIN sched' = SFields /\ sched'.choked = Sources
      BY <1>i, <2>1 DEF QueueInv, SFields
    <3>3. DOMAIN queue' = DOMAIN queue
      BY <2>1 DEF ChokeDemux
    <3>4. ASSUME NEW t \in DOMAIN queue
          PROVE  DOMAIN queue'[t] = QFields /\ queue'[t].choked = FALSE
      <4>1. queue'[t] = IF \E d \in Of("demux") : Freezes(d, t)
                        THEN Choked(queue[t], FALSE) ELSE queue[t]
        BY <2>1 DEF ChokeDemux
      <4>2. DOMAIN queue[t] = QFields /\ queue[t].choked \in BOOLEAN
            /\ (queue[t].choked => \E d \in Of("demux") : Freezes(d, t))
        BY <1>i DEF QueueInv
      <4>3. DOMAIN Choked(queue[t], FALSE) = QFields /\ Choked(queue[t], FALSE).choked = FALSE
        BY <4>2 DEF Choked, QFields
      <4> QED BY <4>1, <4>2, <4>3
    <3>5. StopHolds'
      BY <3>1, <3>2, <3>3, <3>4 DEF StopHolds
    <3> QED BY <1>i, <1>s, <3>1, <3>2, <3>3, <3>4, <3>5 DEF QueueInv
  <2> QED BY <1>s, <2>2, <2>3 DEF IInv
<1>4. CASE Join
  <2>1. /\ main \in DOMAIN NextKind /\ main' = NextKind[main] /\ terminate' = terminate
        /\ \A t \in Of(main) : pc[t] \in {"exited", "none"}
    BY <1>4 DEF Join
  <2>2. /\ main \in {"demux", "dec", "flt", "enc", "mux"}
        /\ main = "demux" => main' = "dec"
        /\ main = "dec" => main' = "flt"
        /\ main = "flt" => main' = "enc"
        /\ main = "enc" => main' = "mux"
        /\ main = "mux" => main' = "stopped"
    BY <2>1 DEF NextKind
  <2>3. StopInv' /\ Stopping
    BY <1>i, <2>1, <2>2 DEF StopInv, NextKind, Stopping
  <2>4. JoinInv'
    <3>1. Joined' \subseteq Joined \cup {main}
      BY <2>2 DEF Joined, Kinds
    <3> QED BY <1>i, <1>s, <2>1, <3>1 DEF JoinInv, Of
  <2>5. Undisturbed
    <3>1. CASE UNCHANGED <<sched, queue>>
      BY <1>c, <3>1 DEF Undisturbed, SameChoke
    <3>2. CASE main = "mux"
      <4>1. /\ sched' = [sched EXCEPT !.finished = @ \cup {ms \in MuxStreams : ms[1] \in Unstarted}]
            /\ queue' = [t \in DOMAIN queue |->
                           IF t \in Unstarted THEN FinishQueue(queue[t], StreamsOf(queue[t])) ELSE queue[t]]
        BY <1>4, <3>2 DEF Join
      <4>2. SameChoke(sched')
        BY <1>c, <4>1 DEF SameChoke, SFields
      <4>3. \A t \in DOMAIN queue : Spared(queue[t], queue'[t])
        <5>1. \A t \in DOMAIN queue : DOMAIN queue[t] = QFields /\ queue[t].choked \in BOOLEAN
          BY <1>i DEF QueueInv
        <5>2. \A t \in DOMAIN queue : \A S : Spared(queue[t], FinishQueue(queue[t], S)) /\ Spared(queue[t], queue[t])
          BY <5>1, OpsSpare DEF Spared
        <5> QED BY <4>1, <5>2
      <4> QED BY <4>1, <4>2, <4>3 DEF Undisturbed, Calm
    <3> QED BY <1>4, <3>1, <3>2 DEF Join
  <2>6. QueueInv'
    BY <1>i, <1>n, <2>3, <2>5, StepKeepsQueueInv
  <2> QED BY <1>s, <2>3, <2>4, <2>6 DEF IInv
<1>5. CASE UNCHANGED vars
  <2>1. UNCHANGED <<main, terminate, queue, sched>>
    BY <1>5 DEF vars
  <2>2. StopInv' /\ JoinInv' /\ (Stopping' => Stopping)
    BY <1>i, <1>s, <2>1 DEF StopInv, JoinInv, Joined, Stopping
  <2>3. QueueInv'
    BY <1>i, <1>n, <1>c, <2>1, <2>2, StepKeepsQueueInv DEF Undisturbed, SameChoke
  <2> QED BY <1>s, <2>2, <2>3 DEF IInv
<1> QED BY <1>1, <1>2, <1>3, <1>4, <1>5 DEF MainWorks

LEMMA Inductive == Spec => []IInv
<1>1. Init => IInv
  BY InitEstablishes
<1>2. IInv /\ [Next]_vars => IInv'
  BY ThreadKeeps, MainKeeps DEF Next, Stopped
<1> QED BY <1>1, <1>2, PTL DEF Spec

-----------------------------------------------------------------------------
(***************************************************************************)
(* How a net is connected, and what is above a task.                       *)
(***************************************************************************)
LEMMA ConnectedFacts ==
    ASSUME net \in Nets, NEW t \in Tasks
    PROVE  /\ \A k \in DOMAIN Outs(t) : \A u \in Tasks : \A j \in DOMAIN Outs(u) :
                  Outs(u)[j].to = Outs(t)[k].to /\ Outs(u)[j].i = Outs(t)[k].i => u = t /\ j = k
           /\ \A k \in DOMAIN Outs(t) : Outs(t)[k].to[1] = "enc" => Outs(t)[k].i = 0
           /\ t[1] = "flt" => net.ends[t] \in Nat \ {0}
           /\ t[1] \in {"dec", "flt", "enc"} => \A i \in Inputs(t) :
                  \E u \in Tasks : \E k \in DOMAIN Outs(u) : Outs(u)[k].to = t /\ Outs(u)[k].i = i
<1>1. t[1] \in {"dec", "flt", "enc"} =>
        Inputs(t) = CASE t[1] = "flt" -> 0..net.ends[t] - 1
                      [] t[1] \in {"dec", "enc"} -> {0}
                      [] OTHER -> {}
  BY DEF Inputs
<1>2. \A k \in DOMAIN Outs(t) : \A u \in Tasks : \A j \in DOMAIN Outs(u) :
          Outs(u)[j].to = Outs(t)[k].to /\ Outs(u)[j].i = Outs(t)[k].i => u = t /\ j = k
  BY ConnectedAssumption DEF Tasks, Outs
<1>3. \A k \in DOMAIN Outs(t) : Outs(t)[k].to[1] = "enc" => Outs(t)[k].i = 0
  BY ConnectedAssumption DEF Tasks, Outs
<1>4. t[1] = "flt" => net.ends[t] \in Nat \ {0}
  BY ConnectedAssumption DEF Tasks
<1>5. \A i \in CASE t[1] = "flt" -> 0..net.ends[t] - 1
                  [] t[1] \in {"dec", "enc"} -> {0}
                  [] OTHER -> {} :
          \E u \in Tasks : \E k \in DOMAIN Outs(u) : Outs(u)[k].to = t /\ Outs(u)[k].i = i
  BY ConnectedAssumption DEF Tasks, Outs
<1> QED BY <1>1, <1>2, <1>3, <1>4, <1>5

LEMMA SourceIs ==
    ASSUME net \in Nets, NEW u \in Tasks, NEW k \in DOMAIN Outs(u)
    PROVE  Source(Outs(u)[k].to, Outs(u)[k].i) = u
<1> DEFINE Feeds(v) == \E o \in Range(Outs(v)) : o.to = Outs(u)[k].to /\ o.i = Outs(u)[k].i
<1>1. Feeds(u)
  BY DEF Range
<1>2. \A v \in Tasks : Feeds(v) => v = u
  BY ConnectedFacts DEF Range
<1> QED BY <1>1, <1>2 DEF Source

LEMMA SourceKind ==
    ASSUME net \in Nets, NEW t \in Tasks, NEW i,
           NEW u \in Tasks, NEW k \in DOMAIN Outs(u), Outs(u)[k].to = t, Outs(u)[k].i = i
    PROVE  /\ Source(t, i) = u
           /\ t[1] = "dec" => u[1] = "demux"
           /\ t[1] = "flt" => u[1] = "dec"
           /\ t[1] = "enc" => u[1] = "flt"
           /\ t[1] = "mux" => u[1] \in {"demux", "enc"}
<1>1. u[1] \in Kinds /\ t[1] \in Receivers[u[1]]
  BY NetFacts
<1> QED BY <1>1, SourceIs DEF Receivers, Kinds

LEMMA InputFacts ==
    ASSUME net \in Nets, NEW t \in Tasks, t[1] \in {"dec", "flt", "enc"}, NEW i \in Inputs(t)
    PROVE  /\ Source(t, i) \in Tasks
           /\ t[1] = "dec" => Source(t, i)[1] = "demux"
           /\ t[1] = "flt" => Source(t, i)[1] = "dec"
           /\ t[1] = "enc" => Source(t, i)[1] = "flt"
           /\ \E k \in DOMAIN Outs(Source(t, i)) : Outs(Source(t, i))[k].to = t /\ Outs(Source(t, i))[k].i = i
<1>1. PICK u \in Tasks : \E k \in DOMAIN Outs(u) : Outs(u)[k].to = t /\ Outs(u)[k].i = i
  BY ConnectedFacts
<1> QED BY <1>1, SourceKind

\* A demuxer that is copied to one output stream feeds nothing else.
LEMMA CopyFeeds ==
    ASSUME net \in Nets, NEW d \in Of("demux"), Copies(d)
    PROVE  /\ DOMAIN Outs(d) = {1} /\ Source(CopiedTo(d)[1], CopiedTo(d)[2]) = d
           /\ CopiedTo(d) \in MuxStreams
<1>1. d \in Tasks /\ Outs(d) \in Seq([s : Nat, to : Tasks, i : Nat])
  BY NetsAssumption DEF Of, Tasks, Outs
<1>2. DOMAIN Outs(d) = {1}
  BY <1>1 DEF Copies
<1>3. Outs(d)[1].to \in Tasks /\ Outs(d)[1].to[1] = "mux"
  BY <1>1, <1>2, NetFacts DEF Copies
<1>4. CopiedTo(d)[1] = Outs(d)[1].to /\ CopiedTo(d)[2] = Outs(d)[1].i
  BY DEF CopiedTo
<1>5. Outs(d)[1].i \in Inputs(Outs(d)[1].to)
  <2>1. Outs(d)[1] \in UNION {Range(Outs(u)) : u \in Tasks}
    BY <1>1, <1>2 DEF Range
  <2> QED BY <1>3, <2>1 DEF Inputs
<1> QED BY <1>1, <1>2, <1>3, <1>4, <1>5, SourceIs DEF MuxStreams, Of, CopiedTo

BestOK(sc) == \A f \in Of("flt") : sc.best[f] \in Inputs(f) \cup {NoInput(f)}

\* The recursion of unchoke_for_stream has a solution: what is above a task is at
\* most three steps away.
LEMMA UpIs ==
    ASSUME net \in Nets, NEW sc, BestOK(sc)
    PROVE  LET up == SourceOf(sc) IN
           \A t \in Tasks \ Of("mux") :
               up[t] = CASE t[1] = "demux" -> t
                         [] t[1] = "flt"   -> IF sc.best[t] = NoInput(t) THEN t ELSE up[Source(t, sc.best[t])]
                         [] OTHER -> up[Source(t, 0)]
<1> DEFINE Body(g) ==
             [t \in Tasks \ Of("mux") |->
                CASE t[1] = "demux" -> t
                  [] t[1] = "flt"   -> IF sc.best[t] = NoInput(t) THEN t ELSE g[Source(t, sc.best[t])]
                  [] OTHER -> g[Source(t, 0)]]
           Dec(t) == Source(t, 0)
           Flt(t) == IF sc.best[t] = NoInput(t) THEN t ELSE Dec(Source(t, sc.best[t]))
           g0 == [t \in Tasks \ Of("mux") |->
                    CASE t[1] = "demux" -> t
                      [] t[1] = "flt"   -> Flt(t)
                      [] t[1] = "dec"   -> Dec(t)
                      [] OTHER -> Flt(Source(t, 0))]
<1>0. SourceOf(sc) = CHOOSE g : g = Body(g)
  BY DEF SourceOf
<1>k. \A t \in Tasks \ Of("mux") : t[1] \in {"demux", "dec", "flt", "enc"}
  BY NetFacts DEF Of, Kinds
<1>d. \A t \in Tasks : t[1] = "dec" => Source(t, 0) \in Tasks /\ Source(t, 0)[1] = "demux"
  BY InputFacts DEF Inputs
<1>f. \A t \in Tasks : t[1] = "flt" /\ sc.best[t] # NoInput(t) =>
          Source(t, sc.best[t]) \in Tasks /\ Source(t, sc.best[t])[1] = "dec"
  BY InputFacts DEF BestOK, Of
<1>e. \A t \in Tasks : t[1] = "enc" => Source(t, 0) \in Tasks /\ Source(t, 0)[1] = "flt"
  BY InputFacts DEF Inputs
<1>1. g0 = Body(g0)
  <2> SUFFICES ASSUME NEW t \in Tasks \ Of("mux") PROVE g0[t] = Body(g0)[t]
    OBVIOUS
  <2> HIDE DEF Dec, Flt
  <2>1. CASE t[1] = "demux"
    BY <2>1
  <2>2. CASE t[1] = "dec"
    <3>1. g0[Source(t, 0)] = Source(t, 0)
      BY <1>d, <2>2 DEF Of
    <3> QED BY <2>2, <3>1 DEF Dec
  <2>3. CASE t[1] = "flt"
    <3>1. sc.best[t] # NoInput(t) => g0[Source(t, sc.best[t])] = Dec(Source(t, sc.best[t]))
      BY <1>f, <2>3 DEF Of
    <3> QED BY <2>3, <3>1 DEF Flt
  <2>4. CASE t[1] = "enc"
    <3>1. g0[Source(t, 0)] = Flt(Source(t, 0))
      BY <1>e, <2>4 DEF Of
    <3> QED BY <2>4, <3>1
  <2> QED BY <1>k, <2>1, <2>2, <2>3, <2>4
<1> HIDE DEF Body, g0
<1>2. SourceOf(sc) = Body(SourceOf(sc))
  BY <1>0, <1>1
<1> QED BY <1>2 DEF Body

\* What is above a task is a source, and a copied demuxer is above nothing else.
LEMMA UpFacts ==
    ASSUME net \in Nets, NEW sc, BestOK(sc), NEW t \in Tasks \ Of("mux")
    PROVE  /\ SourceOf(sc)[t] \in Sources
           /\ \A d \in Of("demux") : Copies(d) /\ SourceOf(sc)[t] = d => t = d
<1> DEFINE up == SourceOf(sc)
           P(x) == up[x] \in Sources /\ \A d \in Of("demux") : Copies(d) /\ up[x] = d => x = d
<1>u. \A x \in Tasks \ Of("mux") :
        up[x] = CASE x[1] = "demux" -> x
                  [] x[1] = "flt"   -> IF sc.best[x] = NoInput(x) THEN x ELSE up[Source(x, sc.best[x])]
                  [] OTHER -> up[Source(x, 0)]
  BY UpIs
<1> HIDE DEF up
<1>1. \A x \in Tasks : x[1] = "demux" => P(x)
  BY <1>u DEF Of, Sources
<1>2. \A x \in Tasks : x[1] = "dec" => P(x)
  <2> SUFFICES ASSUME NEW x \in Tasks, x[1] = "dec" PROVE P(x)
    OBVIOUS
  <2>1. /\ Source(x, 0) \in Tasks /\ Source(x, 0)[1] = "demux"
        /\ \E k \in DOMAIN Outs(Source(x, 0)) : Outs(Source(x, 0))[k].to = x
    BY InputFacts DEF Inputs
  <2>2. up[x] = up[Source(x, 0)] /\ up[Source(x, 0)] = Source(x, 0)
    BY <1>u, <2>1 DEF Of
  <2>3. \A d \in Of("demux") : Copies(d) => Source(x, 0) # d
    BY <2>1, CopyFeeds DEF Copies
  <2> QED BY <2>1, <2>2, <2>3 DEF Sources
<1>3. \A x \in Tasks : x[1] = "flt" => P(x)
  <2> SUFFICES ASSUME NEW x \in Tasks, x[1] = "flt" PROVE P(x)
    OBVIOUS
  <2>1. CASE sc.best[x] = NoInput(x)
    BY <1>u, <2>1 DEF Of, Sources
  <2>2. CASE sc.best[x] # NoInput(x)
    <3>1. Source(x, sc.best[x]) \in Tasks /\ Source(x, sc.best[x])[1] = "dec"
      BY <2>2, InputFacts DEF BestOK, Of
    <3>2. up[x] = up[Source(x, sc.best[x])]
      BY <1>u, <2>2 DEF Of
    <3> QED BY <1>2, <3>1, <3>2 DEF Of
  <2> QED BY <2>1, <2>2
<1>4. \A x \in Tasks : x[1] = "enc" => P(x)
  <2> SUFFICES ASSUME NEW x \in Tasks, x[1] = "enc" PROVE P(x)
    OBVIOUS
  <2>1. Source(x, 0) \in Tasks /\ Source(x, 0)[1] = "flt"
    BY InputFacts DEF Inputs
  <2>2. up[x] = up[Source(x, 0)]
    BY <1>u DEF Of
  <2> QED BY <1>3, <2>1, <2>2 DEF Of
<1>5. t[1] \in {"demux", "dec", "flt", "enc"}
  BY NetFacts DEF Of, Kinds
<1> QED BY <1>1, <1>2, <1>3, <1>4, <1>5 DEF up

\* unchoke_downstream ends at filtergraphs.
LEMMA DownFacts ==
    ASSUME net \in Nets, NEW t \in Tasks
    PROVE  GraphsBelow[t] \subseteq Of("flt")
<1> DEFINE Below(g, x) == UNION {g[o.to] : o \in FirstOuts(x)}
           Body(g) == [x \in Tasks |-> IF x[1] = "flt" THEN {x} ELSE Below(g, x)]
           Dec(x) == {o.to : o \in FirstOuts(x)}
           g0 == [x \in Tasks |->
                    CASE x[1] = "flt" -> {x}
                      [] x[1] = "dec" -> Dec(x)
                      [] x[1] = "demux" -> UNION {Dec(o.to) : o \in {o \in FirstOuts(x) : o.to[1] = "dec"}}
                      [] OTHER -> {}]
<1>0. GraphsBelow = CHOOSE g : g = Body(g)
  BY DEF GraphsBelow
<1>o. \A x \in Tasks : \A o \in FirstOuts(x) : o.to \in Tasks /\ o.to[1] \in Receivers[x[1]]
  BY NetFacts DEF FirstOuts
<1>k. \A x \in Tasks : x[1] \in Kinds
  BY NetFacts
<1>1. g0 = Body(g0)
  <2> SUFFICES ASSUME NEW x \in Tasks PROVE g0[x] = Body(g0)[x]
    OBVIOUS
  <2>1. CASE x[1] = "flt"
    BY <2>1
  <2>2. CASE x[1] = "dec"
    <3>1. \A o \in FirstOuts(x) : g0[o.to] = {o.to}
      BY <1>o, <2>2 DEF Receivers
    <3> HIDE DEF g0
    <3>2. UNION {g0[o.to] : o \in FirstOuts(x)} = Dec(x)
      BY <3>1
    <3> QED BY <2>2, <3>2 DEF g0
  <2>3. CASE x[1] = "demux"
    <3>1. \A o \in FirstOuts(x) : g0[o.to] = IF o.to[1] = "dec" THEN Dec(o.to) ELSE {}
      BY <1>o, <2>3 DEF Receivers
    <3> HIDE DEF Dec, g0
    <3>2. UNION {g0[o.to] : o \in FirstOuts(x)} = UNION {Dec(o.to) : o \in {o \in FirstOuts(x) : o.to[1] = "dec"}}
      BY <3>1
    <3> QED BY <2>3, <3>2 DEF g0
  <2>4. CASE x[1] \in {"enc", "mux"}
    <3>1. \A o \in FirstOuts(x) : g0[o.to] = {}
      BY <1>o, <2>4 DEF Receivers
    <3> HIDE DEF g0
    <3>2. UNION {g0[o.to] : o \in FirstOuts(x)} = {}
      BY <3>1
    <3> QED BY <2>4, <3>2 DEF g0
  <2> QED BY <1>k, <2>1, <2>2, <2>3, <2>4 DEF Kinds
<1> HIDE DEF Body, g0
<1>2. GraphsBelow = Body(GraphsBelow)
  BY <1>0, <1>1
<1>3. \A x \in Tasks : GraphsBelow[x] = IF x[1] = "flt" THEN {x} ELSE Below(GraphsBelow, x)
  BY <1>2 DEF Body
<1>4. ASSUME NEW x \in Tasks, x[1] # "flt", \A o \in FirstOuts(x) : GraphsBelow[o.to] \subseteq Of("flt")
      PROVE  GraphsBelow[x] \subseteq Of("flt")
  <2>1. GraphsBelow[x] = UNION {GraphsBelow[o.to] : o \in FirstOuts(x)}
    BY <1>3, <1>4
  <2> QED BY <1>4, <2>1
<1>5. \A x \in Tasks : x[1] = "mux" => GraphsBelow[x] \subseteq Of("flt")
  BY <1>o, <1>4 DEF Receivers
<1>6. \A x \in Tasks : x[1] = "enc" => GraphsBelow[x] \subseteq Of("flt")
  BY <1>o, <1>4, <1>5 DEF Receivers
<1>7. \A x \in Tasks : x[1] = "flt" => GraphsBelow[x] \subseteq Of("flt")
  BY <1>3 DEF Of
<1>8. \A x \in Tasks : x[1] = "dec" => GraphsBelow[x] \subseteq Of("flt")
  BY <1>o, <1>4, <1>7 DEF Receivers
<1>9. \A x \in Tasks : x[1] = "demux" => GraphsBelow[x] \subseteq Of("flt")
  BY <1>o, <1>4, <1>5, <1>8 DEF Receivers
<1> QED BY <1>k, <1>5, <1>6, <1>7, <1>8, <1>9 DEF Kinds

-----------------------------------------------------------------------------
(***************************************************************************)
(* The trailing stream, and who is unchoked for it.                        *)
(***************************************************************************)
\* What a stream counts as having reached is what it reported last.
DtsOK(sc) ==
    /\ DOMAIN sc.dts = MuxStreams /\ DOMAIN sc.reported = MuxStreams
    /\ \A ms \in MuxStreams :
           /\ sc.reported[ms] \in Seq(Nat)
           /\ sc.dts[ms] = IF sc.reported[ms] = <<>> THEN NoPts ELSE sc.reported[ms][Len(sc.reported[ms])]

LEMMA LastReport ==
    ASSUME NEW sc, DtsOK(sc), NEW ms \in MuxStreams
    PROVE  \/ sc.reported[ms] = <<>> /\ sc.dts[ms] = NoPts
           \/ /\ Len(sc.reported[ms]) \in DOMAIN sc.reported[ms] /\ sc.dts[ms] \in Nat
              /\ sc.dts[ms] = sc.reported[ms][Len(sc.reported[ms])]
<1> DEFINE r == sc.reported[ms]
<1>1. r \in Seq(Nat) /\ sc.dts[ms] = IF r = <<>> THEN NoPts ELSE r[Len(r)]
  BY DEF DtsOK
<1> HIDE DEF r
<1>2. r # <<>> => Len(r) \in DOMAIN r /\ r[Len(r)] \in Nat
  BY <1>1
<1> QED BY <1>1, <1>2 DEF r

LEMMA TrailingFacts ==
    ASSUME NEW sc, DtsOK(sc), Unfinished(sc) # {}
    PROVE  \/ Trailing(sc) = NoPts /\ \E ms \in Unfinished(sc) : sc.dts[ms] = NoPts
           \/ /\ Trailing(sc) \in Nat
              /\ \A ms \in Unfinished(sc) : sc.dts[ms] \in Nat /\ Trailing(sc) <= sc.dts[ms]
              /\ \E ms \in Unfinished(sc) : sc.dts[ms] = Trailing(sc)
<1> DEFINE d == {sc.dts[ms] : ms \in Unfinished(sc)}
<1>1. Trailing(sc) = IF d = {} \/ NoPts \in d THEN NoPts ELSE Lowest(d)
  BY DEF Trailing
<1>2. d # {} /\ d \subseteq Nat \cup {NoPts}
  BY LastReport DEF DtsOK, Unfinished
<1>3. CASE NoPts \in d
  BY <1>1, <1>3
<1>4. CASE NoPts \notin d
  <2>1. d \subseteq Nat /\ Trailing(sc) = Lowest(d)
    BY <1>1, <1>2, <1>4
  <2>2. Trailing(sc) \in d /\ \A x \in d : Trailing(sc) <= x
    BY <1>2, <2>1, LowestIsLeast
  <2> QED BY <2>1, <2>2
<1> QED BY <1>3, <1>4

LEMMA SomeoneWants ==
    ASSUME NEW sc, DtsOK(sc), Unfinished(sc) # {}
    PROVE  Wanting(sc) # {}
<1>1. CASE Trailing(sc) = NoPts /\ \E ms \in Unfinished(sc) : sc.dts[ms] = NoPts
  BY <1>1 DEF Wanting
<1>2. CASE Trailing(sc) \in Nat /\ \E ms \in Unfinished(sc) : sc.dts[ms] = Trailing(sc)
  <2>1. PICK ms \in Unfinished(sc) : sc.dts[ms] = Trailing(sc)
    BY <1>2
  <2>2. Trailing(sc) # NoPts /\ sc.dts[ms] - Trailing(sc) < Tolerance
    BY <1>2, <2>1, ToleranceAssumption DEF NoPts
  <2> QED BY <2>2 DEF Wanting
<1> QED BY <1>1, <1>2, TrailingFacts

\* A demuxer that is copied to one output stream goes on only if that stream wants
\* it to: it feeds no filtergraph, and some stream wants something.
LEMMA OnlyIfWanted ==
    ASSUME net \in Nets, NEW sc, BestOK(sc), DtsOK(sc), NEW d \in Of("demux"), Copies(d),
           CopiedTo(d) \in Unfinished(sc), d \in Unchoked(sc)
    PROVE  CopiedTo(d) \in Wanting(sc)
<1> SUFFICES ASSUME CopiedTo(d) \notin Wanting(sc) PROVE FALSE
  OBVIOUS
<1> DEFINE up     == SourceOf(sc)
           wanted == {up[Source(x[1], x[2])] : x \in Wanting(sc) \cup Closing(sc)}
           down   == GraphsBelow
           Closed(T) == \A e \in T \cap Of("demux") : \A f \in down[e] : up[f] \in T
           T0 == Sources \ {d}
<1>1. Unchoked(sc) = {t \in Sources : \A T \in SUBSET Sources : wanted \subseteq T /\ Closed(T) => t \in T}
  <2>1. Wanting(sc) # {}
    BY SomeoneWants
  <2> QED BY <2>1 DEF Unchoked, WithDownstream
<1>u. \A x \in Tasks \ Of("mux") : up[x] \in Sources /\ (up[x] = d => x = d)
  BY UpFacts
<1>2. wanted \subseteq T0
  <2> SUFFICES ASSUME NEW x \in Wanting(sc) \cup Closing(sc) PROVE up[Source(x[1], x[2])] \in T0
    OBVIOUS
  <2>1. CASE x \in Wanting(sc)
    <3>1. x \in MuxStreams
      BY <2>1 DEF Wanting, Unfinished, DtsOK
    <3>2. PICK m \in Of("mux") : \E i \in Inputs(m) : x = <<m, i>>
      BY <3>1 DEF MuxStreams
    <3>i. PICK i \in Inputs(m) : x = <<m, i>>
      BY <3>2
    <3>3. PICK u \in Tasks : \E k \in DOMAIN Outs(u) : Outs(u)[k].to = m /\ Outs(u)[k].i = i
      BY <3>i DEF Inputs, Of, Range
    <3>k. PICK k \in DOMAIN Outs(u) : Outs(u)[k].to = m /\ Outs(u)[k].i = i
      BY <3>3
    <3>4. Source(x[1], x[2]) = u /\ u \in Tasks \ Of("mux")
      BY <3>i, <3>k, SourceKind DEF Of
    <3>5. u # d
      <4> SUFFICES ASSUME u = d PROVE FALSE
        OBVIOUS
      <4>1. k = 1
        BY <3>k, CopyFeeds
      <4>2. x = CopiedTo(d)
        BY <3>i, <3>k, <4>1 DEF CopiedTo
      <4> QED BY <2>1, <4>2
    <3> QED BY <1>u, <3>4, <3>5
  <2>2. CASE x \in Closing(sc)
    <3>f. PICK f \in Of("flt") : \E i \in Inputs(f) : x = <<f, i>>
      BY <2>2 DEF Closing
    <3>1. PICK i \in Inputs(f) : x = <<f, i>>
      BY <3>f
    <3>2. Source(f, i) \in Tasks /\ Source(f, i)[1] = "dec"
      BY <3>1, InputFacts DEF Of
    <3>3. Source(f, i) \in Tasks \ Of("mux") /\ Source(f, i) # d
      BY <3>2 DEF Of
    <3> QED BY <1>u, <3>1, <3>3
  <2> QED BY <2>1, <2>2
<1>3. Closed(T0)
  <2> SUFFICES ASSUME NEW e \in T0 \cap Of("demux"), NEW f \in down[e] PROVE up[f] \in T0
    OBVIOUS
  <2>1. f \in Of("flt")
    BY DownFacts DEF Of
  <2>2. f \in Tasks \ Of("mux") /\ f # d
    BY <2>1 DEF Of
  <2> QED BY <1>u, <2>2
<1> HIDE DEF wanted, Closed
<1> QED BY <1>1, <1>2, <1>3

\* A new schedule chokes a copied demuxer whose stream is too far ahead.
LEMMA ScheduleInTime ==
    ASSUME net \in Nets, ~terminate, NEW sc, NEW q, Schedule(sc, q),
           DOMAIN sc = SFields, BestOK(sc), DtsOK(sc),
           NEW d \in Of("demux"), Copies(d), CopiedTo(d) \in Unfinished(sc), d \notin sched'.choked
    PROVE  CopiedTo(d) \in Wanting(sched')
<1>1. sched' = [sc EXCEPT !.choked = Sources \ Unchoked(sc)]
  BY DEF Schedule
<1>2. sched'.choked = Sources \ Unchoked(sc) /\ sched'.dts = sc.dts /\ sched'.finished = sc.finished
  BY <1>1 DEF SFields
<1>3. d \in Unchoked(sc)
  BY <1>2 DEF Sources, Of
<1>4. Wanting(sched') = Wanting(sc)
  BY <1>2 DEF Wanting, Trailing, Unfinished
<1> QED BY <1>3, <1>4, OnlyIfWanted

-----------------------------------------------------------------------------
(***************************************************************************)
(* What a filtergraph's thread knows: an input to ask for exists, also     *)
(* before the graph is configured.                                         *)
(***************************************************************************)
GraphFields == {"next", "seen", "configured", "got", "eofOut", "eofIn", "close", "buf", "taken",
                "sink", "inside", "out"}

GraphOK(f, g) ==
    /\ DOMAIN g = GraphFields
    /\ g.out \in Nat /\ g.configured \in BOOLEAN
    /\ g.configured \/ ~(Inputs(f) \subseteq g.seen)
    /\ g.eofIn \subseteq g.seen
    /\ g.next \in Inputs(f) \cup {NoInput(f)}

GraphInv ==
    /\ DOMAIN fg = Of("flt") /\ DOMAIN sched.best = Of("flt") /\ BestOK(sched)
    /\ \A f \in Of("flt") : GraphOK(f, fg[f])

\* What the external part leaves alone.
Like(g, h) ==
    /\ DOMAIN h = DOMAIN g /\ h.out = g.out /\ h.seen = g.seen /\ h.eofIn = g.eofIn /\ h.next = g.next
    /\ h.configured = g.configured

LEMMA RoundLike ==
    ASSUME NEW f, NEW g, DOMAIN g = GraphFields
    PROVE  Like(g, Round(f, g)) /\ Like(g, Request(f, g))
BY DEF Like, Round, Request, GraphFields

LEMMA PushLike ==
    ASSUME NEW f, NEW g, NEW i, DOMAIN g = GraphFields
    PROVE  Like(g, Push(f, g, i))
<1> DEFINE p == [g EXCEPT !.buf[i] = @ + 1, !.taken[i] = @ + 1]
<1>1. Like(g, p) /\ DOMAIN p = GraphFields
  BY DEF Like, GraphFields
<1>2. Push(f, g, i) = IF g.configured /\ RoundReady(f, p) THEN Round(f, p) ELSE p
  BY DEF Push
<1> HIDE DEF p
<1>3. Like(p, Round(f, p))
  BY <1>1, RoundLike
<1> QED BY <1>1, <1>2, <1>3 DEF Like

LEMMA ConfigureLike ==
    ASSUME NEW f, NEW g, DOMAIN g = GraphFields
    PROVE  Like([g EXCEPT !.configured = TRUE], Configure(f, g))
<1> DEFINE kept(i) == IF g.buf[i] > net.accept[f][i] THEN net.accept[f][i] ELSE g.buf[i]
           c == [g EXCEPT !.configured = TRUE, !.buf = [i \in Inputs(f) |-> kept(i)]]
<1>1. Like([g EXCEPT !.configured = TRUE], c) /\ DOMAIN c = GraphFields
  BY DEF Like, GraphFields
<1>2. Configure(f, g) = IF RoundReady(f, c) THEN Round(f, c) ELSE c
  BY DEF Configure
<1> HIDE DEF c
<1>3. Like(c, Round(f, c))
  BY <1>1, RoundLike
<1> QED BY <1>1, <1>2, <1>3 DEF Like

LEMMA FrameOrEndOK ==
    ASSUME NEW f \in Of("flt"), GraphOK(f, fg[f]), NEW i
    PROVE  /\ GraphOK(f, WithFrame(f, i)) /\ WithFrame(f, i).out = fg[f].out
           /\ GraphOK(f, WithEnd(f, i)) /\ WithEnd(f, i).out = fg[f].out
<1> DEFINE g == [fg[f] EXCEPT !.seen = @ \cup {i}]
           h == [fg[f] EXCEPT !.seen = @ \cup {i}, !.eofIn = @ \cup {i}]
           On(x) == IF ~x.configured /\ AllSeen(f, x) THEN Configure(f, x) ELSE x
<1>1. /\ DOMAIN g = GraphFields /\ g.out = fg[f].out /\ g.eofIn \subseteq g.seen
      /\ g.next = fg[f].next /\ g.configured = fg[f].configured
  BY DEF GraphOK, GraphFields
<1>2. /\ DOMAIN h = GraphFields /\ h.out = fg[f].out /\ h.eofIn \subseteq h.seen
      /\ h.next = fg[f].next /\ h.configured = fg[f].configured
  BY DEF GraphOK, GraphFields
<1>3. WithFrame(f, i) = Push(f, On(g), i) /\ WithEnd(f, i) = On(h)
  BY DEF WithFrame, WithEnd
<1>4. ASSUME NEW x, DOMAIN x = GraphFields, x.out = fg[f].out, x.eofIn \subseteq x.seen,
             x.next = fg[f].next, x.configured = fg[f].configured
      PROVE  GraphOK(f, On(x)) /\ On(x).out = fg[f].out
  <2>1. CASE ~x.configured /\ AllSeen(f, x)
    <3>1. Like([x EXCEPT !.configured = TRUE], Configure(f, x))
      BY <1>4, ConfigureLike
    <3>2. /\ DOMAIN Configure(f, x) = GraphFields /\ Configure(f, x).out = x.out
          /\ Configure(f, x).seen = x.seen /\ Configure(f, x).eofIn = x.eofIn
          /\ Configure(f, x).next = x.next /\ Configure(f, x).configured = TRUE
      BY <1>4, <3>1 DEF Like, GraphFields
    <3> QED BY <1>4, <2>1, <3>2 DEF GraphOK
  <2>2. CASE ~(~x.configured /\ AllSeen(f, x))
    BY <1>4, <2>2 DEF GraphOK, AllSeen
  <2> QED BY <2>1, <2>2
<1> HIDE DEF g, h, On
<1>5. GraphOK(f, On(g)) /\ On(g).out = fg[f].out /\ GraphOK(f, On(h)) /\ On(h).out = fg[f].out
  BY <1>1, <1>2, <1>4
<1>6. Like(On(g), Push(f, On(g), i))
  BY <1>5, PushLike DEF GraphOK
<1> QED BY <1>3, <1>5, <1>6 DEF GraphOK, Like

\* A step of thread t: other threads' items and graphs stay, and a filtergraph that
\* has made a frame sends it.
GraphStep(t) ==
    /\ DOMAIN item' = Tasks /\ \A u \in Tasks \ {t} : item'[u] = item[u]
    /\ DOMAIN fg' = Of("flt") /\ \A f \in Of("flt") \ {t} : fg'[f] = fg[f]
    /\ t \in Of("flt") =>
           /\ GraphOK(t, fg'[t])
           /\ \/ fg'[t].out = fg[t].out /\ item'[t] \in {item[t], Null, Dummy}
              \/ fg'[t].out = fg[t].out + 1 /\ item'[t] = <<fg'[t].out>>

LEMMA WantsOK ==
    ASSUME GraphInv, NEW f \in Of("flt"), NEW g, DOMAIN g = GraphFields, GraphOK(f, g), Wants(f, g)
    PROVE  \E h : fg' = [fg EXCEPT ![f] = h] /\ GraphOK(f, h) /\ h.out = g.out
<1> DEFINE shut == IF g.configured THEN {i \in Ended(f, g) : <<f, i>> \notin sched.recvd} ELSE {}
           h == [g EXCEPT !.close = shut]
<1>1. fg' = [fg EXCEPT ![f] = h]
  BY DEF Wants
<1>2. GraphOK(f, h) /\ h.out = g.out
  BY DEF GraphOK, GraphFields
<1> HIDE DEF h
<1> QED BY <1>1, <1>2

LEMMA GraphSteps ==
    ASSUME PcInv, GraphInv, DOMAIN item = Tasks, NEW t \in Threads, Working(t) \/ Scheduling(t) \/ Fail(t)
    PROVE  GraphStep(t)
<1>t. t \in Tasks
  BY DEF Threads
<1>g. DOMAIN fg = Of("flt") /\ \A f \in Of("flt") : GraphOK(f, fg[f])
  BY DEF GraphInv
<1>1. ASSUME fg' = fg, item' = item PROVE GraphStep(t)
  BY <1>1, <1>g DEF GraphStep
<1>2. ASSUME fg' = fg, NEW x, item' = [item EXCEPT ![t] = x], t \in Of("flt") => x \in {Null, Dummy}
      PROVE  GraphStep(t)
  BY <1>2, <1>g, <1>t DEF GraphStep
<1>3. ASSUME t \in Of("flt"), NEW h, fg' = [fg EXCEPT ![t] = h], GraphOK(t, h),
             \/ h.out = fg[t].out /\ (item' = item \/ item' = [item EXCEPT ![t] = Dummy])
             \/ h.out = fg[t].out + 1 /\ item' = [item EXCEPT ![t] = <<h.out>>]
      PROVE  GraphStep(t)
  BY <1>3, <1>g, <1>t DEF GraphStep
<1>4. CASE Sending(t)
  <2>1. CASE SendEnded(t)
    <3>1. item' = item /\ fg' = IF t[1] = "flt" THEN [fg EXCEPT ![t].eofOut = TRUE] ELSE fg
      BY <2>1 DEF SendEnded
    <3>2. CASE t[1] = "flt"
      <4> DEFINE h == [fg[t] EXCEPT !.eofOut = TRUE]
      <4>1. t \in Of("flt") /\ fg' = [fg EXCEPT ![t] = h]
        BY <1>t, <3>1, <3>2 DEF Of
      <4>2. GraphOK(t, h) /\ h.out = fg[t].out
        BY <1>g, <4>1 DEF GraphOK, GraphFields
      <4> HIDE DEF h
      <4> QED BY <1>3, <3>1, <4>1, <4>2
    <3>3. CASE t[1] # "flt"
      BY <1>1, <3>1, <3>3
    <3> QED BY <3>2, <3>3
  <2>2. CASE ~SendEnded(t)
    <3>1. fg' = fg /\ item' = item
      BY <1>4, <2>2 DEF Sending, SendItem, SendFinish, MuxCheck, MuxQueue, MuxQueueFull, MuxSend, EncOpen,
         DummySent, MuxFlush, MuxFlushed, MuxStarted, SendState
    <3> QED BY <1>1, <3>1
  <2> QED BY <2>1, <2>2
<1>5. CASE \/ Discard(t) \/ Mux(t) \/ MuxExit(t) \/ Fail(t) \/ SendFilterFinish(t) \/ MuxSchedule(t)
           \/ MuxFinish(t) \/ TaskExit(t) \/ MuxDone(t)
  <2>1. fg' = fg /\ item' = item
    BY <1>5 DEF Discard, Mux, MuxExit, Fail, SendFilterFinish, MuxSchedule, MuxFinish, TaskExit, MuxDone, SendState
  <2> QED BY <1>1, <2>1
<1>6. CASE \/ t[1] = "demux" /\ (DemuxSend(t) \/ DemuxEnd(t))
           \/ Decode(t) \/ Encode(t) \/ TaskDone(t)
  <2>1. fg' = fg /\ (item' = item \/ \E x : item' = [item EXCEPT ![t] = x] /\ (t[1] = "flt" => x = Null))
    <3>1. CASE t[1] = "demux" /\ (DemuxSend(t) \/ DemuxEnd(t))
      BY <3>1 DEF DemuxSend, DemuxEnd, StartSending
    <3>2. CASE Decode(t) \/ Encode(t)
      BY <3>2 DEF Decode, Encode, StartSending
    <3>3. CASE TaskDone(t)
      BY <3>3 DEF TaskDone, StartSending
    <3> QED BY <1>6, <3>1, <3>2, <3>3
  <2> QED BY <1>1, <1>2, <2>1 DEF Of
<1>7. CASE t[1] = "flt" /\ (Filter(t) \/ FilterChooses(t) \/ FilterTakes(t) \/ FilterCloses(t))
  <2>t. t \in Of("flt") /\ GraphOK(t, fg[t])
    BY <1>7, <1>t, <1>g DEF Of
  <2>1. CASE FilterIdles(t) \/ FilterWakes(t) \/ FilterChooses(t)
    BY <1>1, <2>1 DEF FilterIdles, FilterWakes, FilterChooses, SendState
  <2>2. CASE FilterFrames(t)
    <3> DEFINE g == fg[t]
               h == IF g.eofOut THEN [g EXCEPT !.sink = 0] ELSE g
    <3>h. GraphOK(t, h) /\ h.out = g.out
      BY <2>t DEF GraphOK, GraphFields
    <3>i. \A x : GraphOK(t, x) => \A i \in Inputs(t) \cup {NoInput(t)} :
             GraphOK(t, [x EXCEPT !.next = i]) /\ [x EXCEPT !.next = i].out = x.out
      BY DEF GraphOK, GraphFields
    <3>w. ASSUME NEW x, GraphOK(t, x), x.out = g.out, Wants(t, x), item' = item
          PROVE  GraphStep(t)
      <4>1. \E y : fg' = [fg EXCEPT ![t] = y] /\ GraphOK(t, y) /\ y.out = g.out
        BY <2>t, <3>w, WantsOK DEF GraphOK
      <4> QED BY <1>3, <2>t, <3>w, <4>1
    <3>1. CASE ~g.configured /\ UNCHANGED SendState
               /\ Wants(t, [g EXCEPT !.next = Lowest(Inputs(t) \ (g.seen \cup g.eofIn))])
      <4> DEFINE S == Inputs(t) \ (g.seen \cup g.eofIn)
      <4>1. S # {}
        BY <2>t, <3>1 DEF GraphOK
      <4>2. S \subseteq Nat
        BY <2>t, ConnectedFacts DEF Inputs, PcInv, Of
      <4>3. Lowest(S) \in Inputs(t)
        BY <4>1, <4>2, LowestIsLeast
      <4> HIDE DEF S
      <4> QED BY <2>t, <3>1, <3>i, <3>w, <4>3 DEF S, SendState
    <3>2. CASE /\ fg' = [fg EXCEPT ![t] = [g EXCEPT !.sink = @ - 1, !.out = @ + 1, !.got = TRUE]]
               /\ StartSending(t, <<g.out + 1>>)
      <4> DEFINE x == [g EXCEPT !.sink = @ - 1, !.out = @ + 1, !.got = TRUE]
      <4>1. GraphOK(t, x) /\ x.out = g.out + 1
        BY <2>t DEF GraphOK, GraphFields
      <4>2. item' = [item EXCEPT ![t] = <<g.out + 1>>] /\ fg' = [fg EXCEPT ![t] = x]
        BY <3>2 DEF StartSending
      <4> HIDE DEF x
      <4> QED BY <1>3, <2>t, <4>1, <4>2
    <3>3. CASE UNCHANGED SendState /\ Wants(t, [Request(t, h) EXCEPT !.next = NoInput(t)])
      <4> DEFINE r == Request(t, h)
      <4> HIDE DEF h
      <4>1. Like(h, r)
        BY <3>h, RoundLike DEF GraphOK
      <4> HIDE DEF r
      <4>2. GraphOK(t, [r EXCEPT !.next = NoInput(t)]) /\ [r EXCEPT !.next = NoInput(t)].out = g.out
        BY <3>h, <4>1 DEF GraphOK, GraphFields, Like
      <4> QED BY <3>3, <3>w, <4>2 DEF r, SendState
    <3>4. CASE UNCHANGED SendState /\ \E i \in Starved(t, h) : Wants(t, [h EXCEPT !.next = i])
      <4> HIDE DEF h
      <4>1. PICK i \in Starved(t, h) : Wants(t, [h EXCEPT !.next = i])
        BY <3>4
      <4>2. i \in Inputs(t)
        BY DEF Starved
      <4> QED BY <3>4, <3>h, <3>i, <3>w, <4>1, <4>2 DEF SendState
    <3>5. CASE UNCHANGED <<SendState, fg>>
      BY <1>1, <3>5 DEF SendState
    <3>6. \/ /\ ~g.configured /\ UNCHANGED SendState
             /\ Wants(t, [g EXCEPT !.next = Lowest(Inputs(t) \ (g.seen \cup g.eofIn))])
          \/ /\ fg' = [fg EXCEPT ![t] = [g EXCEPT !.sink = @ - 1, !.out = @ + 1, !.got = TRUE]]
             /\ StartSending(t, <<g.out + 1>>)
          \/ UNCHANGED SendState /\ Wants(t, [Request(t, h) EXCEPT !.next = NoInput(t)])
          \/ UNCHANGED SendState /\ \E i \in Starved(t, h) : Wants(t, [h EXCEPT !.next = i])
          \/ UNCHANGED <<SendState, fg>>
      BY <2>2 DEF FilterFrames
    <3> QED BY <3>1, <3>2, <3>3, <3>4, <3>5, <3>6
  <2>3. CASE FilterFinishes(t)
    <3>1. CASE UNCHANGED <<SendState, fg>>
      BY <1>1, <3>1 DEF SendState
    <3>2. CASE StartSending(t, Dummy) /\ fg' = [fg EXCEPT ![t].got = TRUE]
      <4> DEFINE h == [fg[t] EXCEPT !.got = TRUE]
      <4>1. item' = [item EXCEPT ![t] = Dummy] /\ fg' = [fg EXCEPT ![t] = h]
        BY <3>2 DEF StartSending
      <4>2. GraphOK(t, h) /\ h.out = fg[t].out
        BY <2>t DEF GraphOK, GraphFields
      <4> HIDE DEF h
      <4> QED BY <1>3, <2>t, <4>1, <4>2
    <3> QED BY <2>3, <3>1, <3>2 DEF FilterFinishes
  <2>4. CASE FilterTakes(t)
    <3>1. /\ item' = item
          /\ \/ \E i : fg' = [fg EXCEPT ![t].close = {i}]
             \/ \E i : fg' = [fg EXCEPT ![t] = WithEnd(t, i)]
             \/ \E i : fg' = [fg EXCEPT ![t] = WithFrame(t, i)]
      BY <2>4 DEF FilterTakes, SendState
    <3>2. ASSUME NEW i, fg' = [fg EXCEPT ![t].close = {i}] PROVE GraphStep(t)
      <4> DEFINE h == [fg[t] EXCEPT !.close = {i}]
      <4>1. GraphOK(t, h) /\ h.out = fg[t].out /\ fg' = [fg EXCEPT ![t] = h]
        BY <2>t, <3>2 DEF GraphOK, GraphFields
      <4> HIDE DEF h
      <4> QED BY <1>3, <2>t, <3>1, <4>1
    <3> QED BY <1>3, <2>t, <3>1, <3>2, FrameOrEndOK
  <2>5. CASE FilterCloses(t)
    <3> DEFINE h == [fg[t] EXCEPT !.close = @ \ {Lowest(fg[t].close)}]
    <3>1. item' = item /\ fg' = [fg EXCEPT ![t] = h]
      BY <2>5 DEF FilterCloses, SendState
    <3>2. GraphOK(t, h) /\ h.out = fg[t].out
      BY <2>t DEF GraphOK, GraphFields
    <3> HIDE DEF h
    <3> QED BY <1>3, <2>t, <3>1, <3>2
  <2> QED BY <1>7, <2>1, <2>2, <2>3, <2>4, <2>5 DEF Filter
<1> QED BY <1>4, <1>5, <1>6, <1>7 DEF Working, Scheduling

-----------------------------------------------------------------------------
(***************************************************************************)
(* What a step reports to the schedule: the end of a packet that has been  *)
(* sent, or nothing of the kind.                                           *)
(***************************************************************************)
Reschedules(sc) == DOMAIN sc = SFields /\ \E q : Schedule(sc, q)

Quiet ==
    \/ sched' = sched
    \/ \E sc : /\ Reschedules(sc) /\ sc.dts = sched.dts /\ sc.reported = sched.reported
               /\ sched.finished \subseteq sc.finished
               /\ DOMAIN sc.best = Of("flt") /\ BestOK(sc)

OutputOf(t) == <<Target(t).to, Target(t).i>>

Reports(t) ==
    /\ MuxSchedule(t) /\ Item(t) # Null /\ item[t][1] # NoPts
    /\ Reschedules(WithTime(OutputOf(t), item[t][1] + item[t][2]))

LEMMA ThreadReports ==
    ASSUME DOMAIN sched = SFields, GraphInv, NEW t \in Threads, Working(t) \/ Scheduling(t) \/ Fail(t)
    PROVE  Quiet \/ Reports(t)
<1>b. DOMAIN sched.best = Of("flt") /\ BestOK(sched)
  BY DEF GraphInv
<1>f. ASSUME NEW S, Reschedules([sched EXCEPT !.finished = @ \cup S]) PROVE Quiet
  <2> DEFINE sc == [sched EXCEPT !.finished = @ \cup S]
  <2>1. /\ sc.dts = sched.dts /\ sc.reported = sched.reported
        /\ sched.finished \subseteq sc.finished /\ sc.best = sched.best
    BY DEF SFields
  <2>2. DOMAIN sc.best = Of("flt") /\ BestOK(sc)
    BY <1>b, <2>1 DEF BestOK
  <2> HIDE DEF sc
  <2> QED BY <1>f, <2>1, <2>2 DEF Quiet, sc
<1>o. ASSUME NEW S, \/ Reschedules([sched EXCEPT !.recvd = S]) \/ Reschedules([sched EXCEPT !.sent = S])
                    \/ Reschedules([sched EXCEPT !.exited = S])
      PROVE  Quiet
  <2>1. \A sc : /\ sc.dts = sched.dts /\ sc.reported = sched.reported /\ sc.finished = sched.finished
                /\ sc.best = sched.best /\ Reschedules(sc)
                => Quiet
    BY <1>b DEF BestOK, Quiet
  <2> QED BY <1>o, <2>1 DEF SFields
<1>s. ASSUME NEW f \in Of("flt"), NEW b \in Inputs(f) \cup {NoInput(f)}, Reschedules([sched EXCEPT !.best[f] = b])
      PROVE  Quiet
  <2> DEFINE sc == [sched EXCEPT !.best[f] = b]
  <2>1. sc.dts = sched.dts /\ sc.reported = sched.reported /\ sched.finished \subseteq sc.finished
    BY DEF SFields
  <2>2. sc.best = [sched.best EXCEPT ![f] = b]
    BY DEF SFields
  <2>3. DOMAIN sc.best = Of("flt") /\ BestOK(sc)
    BY <1>b, <2>2 DEF BestOK
  <2> HIDE DEF sc
  <2> QED BY <1>s, <2>1, <2>3 DEF Quiet, sc
<1>d. \A S : /\ DOMAIN [sched EXCEPT !.finished = S] = SFields /\ DOMAIN [sched EXCEPT !.recvd = S] = SFields
             /\ DOMAIN [sched EXCEPT !.sent = S] = SFields /\ DOMAIN [sched EXCEPT !.exited = S] = SFields
             /\ DOMAIN [sched EXCEPT !.best = S] = SFields
  BY DEF SFields
<1>w. \A ms, x : DOMAIN WithTime(ms, x) = SFields
  BY DEF SFields, WithTime
<1>1. CASE Sending(t)
  BY <1>1 DEF Sending, SendItem, SendEnded, SendFinish, MuxCheck, MuxQueue, MuxQueueFull, MuxSend, EncOpen,
     DummySent, MuxFlush, MuxFlushed, MuxStarted, Quiet
<1>2. CASE \/ DemuxSend(t) \/ DemuxEnd(t) \/ Discard(t) \/ Decode(t) \/ Encode(t) \/ Mux(t) \/ TaskDone(t)
           \/ MuxExit(t) \/ Fail(t) \/ Filter(t)
  BY <1>2 DEF DemuxSend, DemuxEnd, Discard, Decode, Encode, Mux, TaskDone, MuxExit, Fail, Filter,
     FilterIdles, FilterWakes, FilterFrames, FilterFinishes, Quiet
<1>3. CASE SendFilterFinish(t)
  <2>1. sched' = sched \/ \E S, q : Schedule([sched EXCEPT !.sent = @ \cup S], q)
    BY <1>3 DEF SendFilterFinish
  <2>2. \A S : \E R : [sched EXCEPT !.sent = @ \cup S] = [sched EXCEPT !.sent = R]
    OBVIOUS
  <2> QED BY <1>d, <1>o, <2>1, <2>2 DEF Reschedules, Quiet
<1>4. CASE MuxSchedule(t)
  <2>1. CASE Item(t) = Null
    <3>1. \E S, q : Schedule([sched EXCEPT !.finished = @ \cup S], q)
      BY <1>4, <2>1 DEF MuxSchedule
    <3> QED BY <1>d, <1>f, <3>1 DEF Reschedules
  <2>2. CASE Item(t) # Null /\ item[t][1] = NoPts
    BY <1>4, <2>2 DEF MuxSchedule, Quiet
  <2>3. CASE Item(t) # Null /\ item[t][1] # NoPts
    <3>1. Schedule(WithTime(OutputOf(t), item[t][1] + item[t][2]), queue)
      BY <1>4, <2>3 DEF MuxSchedule, OutputOf
    <3> QED BY <1>4, <1>w, <2>3, <3>1 DEF Reschedules, Reports
  <2> QED BY <2>1, <2>2, <2>3
<1>5. CASE MuxFinish(t) \/ MuxDone(t)
  <2>1. \E S, q : Schedule([sched EXCEPT !.finished = @ \cup S], q)
    BY <1>5 DEF MuxFinish, MuxDone
  <2> QED BY <1>d, <1>f, <2>1 DEF Reschedules
<1>6. CASE TaskExit(t)
  <2>1. sched' = sched \/ \E S, q : Schedule([sched EXCEPT !.exited = S], q)
    BY <1>6 DEF TaskExit
  <2> QED BY <1>d, <1>o, <2>1 DEF Reschedules, Quiet
<1>7. CASE t[1] = "flt" /\ (FilterChooses(t) \/ FilterTakes(t) \/ FilterCloses(t))
  <2>t. t \in Of("flt")
    BY <1>7 DEF Threads, Of
  <2>1. CASE FilterChooses(t)
    <3>1. fg[t].next \in Inputs(t) \cup {NoInput(t)}
      BY <2>t DEF GraphInv, GraphOK
    <3>2. \E q : Schedule([sched EXCEPT !.best[t] = fg[t].next], q)
      BY <2>1 DEF FilterChooses
    <3> QED BY <1>d, <1>s, <2>t, <3>1, <3>2 DEF Reschedules
  <2>2. CASE FilterTakes(t)
    <3>1. sched' = sched \/ \E q : Schedule([sched EXCEPT !.best[t] = NoInput(t)], q)
      BY <2>2 DEF FilterTakes
    <3> QED BY <1>d, <1>s, <2>t, <3>1 DEF Reschedules, Quiet
  <2>3. CASE FilterCloses(t)
    <3>1. sched' = sched \/ \E S, q : Schedule([sched EXCEPT !.recvd = S], q)
      BY <2>3 DEF FilterCloses
    <3> QED BY <1>d, <1>o, <3>1 DEF Reschedules, Quiet
  <2> QED BY <1>7, <2>1, <2>2, <2>3
<1> QED BY <1>1, <1>2, <1>3, <1>4, <1>5, <1>6, <1>7 DEF Working, Scheduling

-----------------------------------------------------------------------------
(***************************************************************************)
(* Where a sender is, step by step.                                        *)
(***************************************************************************)
Muxing(p)   == p \in {"mux_lock", "mux_schedule"}
Flushing(p) == p \in {"flush", "flushed"}

PlaceInv ==
    \A t \in Tasks : /\ Muxing(pc[t]) => Target(t).to[1] = "mux"
                     /\ Flushing(pc[t]) => Target(t).to[1] = "enc"

LEMMA OthersStay ==
    ASSUME PcInv, NEW t \in Threads, Working(t) \/ Scheduling(t) \/ Fail(t)
    PROVE  /\ net' = net /\ Tasks' = Tasks
           /\ \A u \in Tasks \ {t} : dst'[u] = dst[u] /\ (u[1] # "mux" => pc'[u] = pc[u])
<1>1. CASE EncOpen(t)
  <2>1. net' = net /\ dst' = dst /\ \A u \in Tasks \ {t} : u # Opened(t) => pc'[u] = pc[u]
    BY <1>1, EncOpenMoves DEF PcInv
  <2>2. Opened(t)[1] = "mux"
    BY <1>1, EncOpenMoves DEF Of
  <2> QED BY <2>1, <2>2 DEF Tasks
<1>2. CASE ~EncOpen(t)
  <2>1. Ordinary(t) \/ MuxQueue(t) \/ MuxFlush(t) \/ MuxFlushed(t) \/ MuxStarted(t)
    BY <1>2, SendingOrdinary, LoopOrdinary, FilterOrdinary DEF Working, Scheduling, Sending
  <2>2. Moves(t)
    BY <2>1, FlushMoves DEF Ordinary
  <2> QED BY <2>2 DEF Moves, Tasks
<1> QED BY <1>1, <1>2

LEMMA PlaceKept ==
    ASSUME PcInv, PlaceInv, NEW t \in Threads, Working(t) \/ Scheduling(t) \/ Fail(t)
    PROVE  PlaceInv'
<1> USE DEF Muxing, Flushing
<1> DEFINE P(p) == Muxing(p) \/ Flushing(p)
           Kept == /\ dst'[t] = dst[t]
                   /\ Muxing(pc'[t]) => Muxing(pc[t]) \/ Target(t).to[1] = "mux"
                   /\ Flushing(pc'[t]) => Flushing(pc[t]) \/ Target(t).to[1] = "enc"
<1>t. t \in Tasks
  BY DEF Threads
<1>o. /\ net' = net /\ Tasks' = Tasks
      /\ \A u \in Tasks \ {t} : dst'[u] = dst[u] /\ (u[1] # "mux" => pc'[u] = pc[u])
  BY OthersStay
<1>p. PcInv'
  <2>1. CASE EncOpen(t)
    BY <2>1, EncOpenKeepsPcInv
  <2>2. CASE ~EncOpen(t)
    <3>1. Ordinary(t) \/ MuxQueue(t) \/ MuxFlush(t) \/ MuxFlushed(t) \/ MuxStarted(t)
      BY <2>2, SendingOrdinary, LoopOrdinary, FilterOrdinary DEF Working, Scheduling, Sending
    <3>2. Moves(t)
      BY <3>1, FlushMoves DEF Ordinary
    <3> QED BY <1>t, <3>2, MovesKeepsPcInv
  <2> QED BY <2>1, <2>2
<1>m. \A u \in Tasks : u[1] = "mux" => ~P(pc'[u])
  BY <1>o, <1>p DEF PcInv, MuxPlaces
<1>1. P(pc'[t]) => Kept
  <2> SUFFICES ASSUME P(pc'[t]) PROVE Kept
    OBVIOUS
  <2>1. CASE MuxCheck(t) \/ MuxQueue(t) \/ MuxSend(t)
    <3>1. dst' = dst /\ (MuxQueue(t) => pc[t] = "mux_lock")
      BY <2>1 DEF MuxCheck, MuxQueue, MuxSend, SendState
    <3>2. pc' = pc \/ \E p \in {"mux_lock", "send", "mux_schedule"} : pc' = [pc EXCEPT ![t] = p]
      BY <2>1 DEF MuxCheck, MuxQueue, MuxSend
    <3>3. MuxCheck(t) \/ MuxSend(t) => Target(t).to[1] = "mux"
      BY DEF MuxCheck, MuxSend
    <3>4. pc'[t] \in {pc[t], "mux_lock", "send", "mux_schedule"}
      BY <1>t, <3>2 DEF PcInv
    <3> QED BY <2>1, <3>1, <3>3, <3>4
  <2>a. ASSUME pc[t] \in AtDst, NEW from, NEW fin, Advance(t, from, fin) PROVE FALSE
    BY <1>t, <1>o, <2>a, AdvanceMoves
  <2>s. ASSUME pc[t] \notin {"exited", "none"}, t[1] # "mux", NEW x, StartSending(t, x) PROVE FALSE
    BY <1>t, <1>o, <2>s, SendingMoves
  <2>e. ASSUME NEW p, pc' = [pc EXCEPT ![t] = p], ~P(p) PROVE FALSE
    BY <1>t, <2>e DEF PcInv
  <2>2. CASE SendItem(t) \/ SendFinish(t) \/ SendFilterFinish(t) \/ MuxSchedule(t) \/ DummySent(t)
    BY <2>2, <2>a DEF SendItem, SendFinish, SendFilterFinish, MuxSchedule, DummySent, AtDst
  <2>3. CASE SendEnded(t) \/ Discard(t) \/ MuxFlush(t) \/ FilterChooses(t)
    <3>1. pc' = pc /\ dst' = dst
      BY <2>3 DEF SendEnded, Discard, MuxFlush, FilterChooses, SendState
    <3> QED BY <3>1
  <2>4. CASE MuxQueueFull(t)
    <3>1. /\ pc[t] \in AtDst
          /\ Advance(t, dst[t], done[t] \cup {dst[t]}) \/ pc' = [pc EXCEPT ![t] = "done"]
      BY <2>4 DEF MuxQueueFull, Fails, AtDst
    <3>2. ~P("done")
      OBVIOUS
    <3> QED BY <2>a, <2>e, <3>1, <3>2
  <2>5. CASE EncOpen(t)
    <3>1. pc' = pc \/ pc' = [pc EXCEPT ![t] = "flush", ![Opened(t)] = "receive"]
      BY <2>5, EncOpenMoves
    <3>2. dst' = dst
      BY <2>5, EncOpenMoves
    <3>3. pc'[t] \in {pc[t], "flush", "receive"} /\ Target(t).to[1] = "enc"
      BY <1>t, <2>5, <3>1 DEF PcInv, EncOpen
    <3> QED BY <3>2, <3>3
  <2>6. CASE MuxFlushed(t) \/ MuxStarted(t)
    <3>1. Flushing(pc[t]) /\ ~Muxing(pc'[t]) /\ dst' = dst
      BY <1>t, <2>6 DEF MuxFlushed, MuxStarted, SendState, PcInv
    <3> QED BY <3>1
  <2>12. CASE MuxExit(t) \/ MuxFinish(t) \/ TaskExit(t) \/ MuxDone(t) \/ Fail(t)
    <3>1. \E p : pc' = [pc EXCEPT ![t] = p] /\ ~P(p)
      BY <2>12 DEF MuxExit, MuxFinish, TaskExit, MuxDone, Fail, Fails
    <3> QED BY <2>e, <3>1
  <2>7. CASE t[1] = "demux" /\ (DemuxSend(t) \/ DemuxEnd(t))
    BY <2>7, <2>s DEF DemuxSend, DemuxEnd
  <2>8. CASE Decode(t) \/ Encode(t) \/ TaskDone(t)
    BY <2>8, <2>s, <2>e DEF Decode, Encode, TaskDone
  <2>9. CASE Mux(t)
    <3>1. \E p : pc' = [pc EXCEPT ![t] = p] /\ ~P(p)
      BY <2>9 DEF Mux
    <3> QED BY <2>e, <3>1
  <2>10. CASE t[1] = "flt" /\ (FilterIdles(t) \/ FilterWakes(t) \/ FilterTakes(t) \/ FilterCloses(t))
    <3>1. \E p : pc' = [pc EXCEPT ![t] = p] /\ ~P(p)
      BY <2>10 DEF FilterIdles, FilterWakes, FilterTakes, FilterCloses
    <3> QED BY <2>e, <3>1
  <2>11. CASE t[1] = "flt" /\ (FilterFrames(t) \/ FilterFinishes(t))
    <3>1. (\E x : StartSending(t, x)) \/ \E p : pc' = [pc EXCEPT ![t] = p] /\ ~P(p)
      BY <2>11 DEF FilterFrames, FilterFinishes, Wants
    <3> QED BY <2>11, <2>s, <2>e, <3>1 DEF Threads
  <2> QED BY <2>1, <2>2, <2>3, <2>4, <2>5, <2>6, <2>7, <2>8, <2>9, <2>10, <2>11, <2>12
          DEF Working, Scheduling, Sending, Filter
<1> QED BY <1>t, <1>o, <1>m, <1>1 DEF PlaceInv, Target, Outs

-----------------------------------------------------------------------------
(***************************************************************************)
(* What an encoder's queue and its packet become.                          *)
(***************************************************************************)
Frames == {<<n>> : n \in Nat}

LEMMA OpsKeepItems ==
    ASSUME NEW q, DOMAIN q = QFields
    PROVE  /\ \A s : /\ SendEnds(q, s).items = q.items /\ SendFinished(q, s).items = q.items
                     /\ ReceiveFinished(q, s).items = q.items
                     /\ DOMAIN SendFinished(q, s) = QFields
           /\ \A S : FinishQueue(q, S).items = q.items /\ DOMAIN FinishQueue(q, S) = QFields
           /\ \A s, d : Write(q, s, d).items = Append(q.items, d)
           /\ \A b : Choked(q, b).items = q.items
           /\ \A n : /\ DropFirst(q, n).items = SubSeq(q.items, n + 1, Len(q.items))
                     /\ DOMAIN DropFirst(q, n) = QFields
BY DEF QFields, SendEnds, SendFinished, ReceiveFinished, FinishQueue, Write, Choked, DropFirst

\* A receiver takes or drops the oldest items, and what it gets is the last of them.
Takes(s, r, n, x) == n \in 0..Len(s) /\ r = SubSeq(s, n + 1, Len(s)) /\ (x # <<>> => n > 0 /\ x = <<s[n]>>)

LEMMA ReceiveTakes ==
    ASSUME NEW q, DOMAIN q = QFields, NEW S, q.items \in Seq(S)
    PROVE  /\ \E n : Takes(q.items, Receive(q).q.items, n, Receive(q).item)
           /\ Receive(q).ret = "item" => Receive(q).item # <<>>
<1> DEFINE L == Len(q.items)
<1>l. L \in Nat
  OBVIOUS
<1>d. \A n : /\ DropFirst(q, n).items = SubSeq(q.items, n + 1, L)
             /\ DOMAIN DropFirst(q, n) = QFields
  BY OpsKeepItems
<1>1. CASE q.choked
  <2>1. Receive(q) = [Nothing(q, "again") EXCEPT !.q = q]
    BY <1>1 DEF Receive
  <2>2. Receive(q).q = q /\ Receive(q).item = <<>> /\ Receive(q).ret = "again"
    BY <2>1 DEF Nothing
  <2>3. q.items = SubSeq(q.items, 0 + 1, L) /\ 0 \in 0..L
    BY <1>l
  <2> QED BY <2>2, <2>3 DEF Takes
<1>2. CASE ~q.choked /\ Wanted(q) # {}
  <2> DEFINE i == Lowest(Wanted(q))
  <2>1. Receive(q) = NextItem(q)
    BY <1>2 DEF Receive
  <2>2. i \in 1..L
    <3>1. Wanted(q) \subseteq Nat /\ Wanted(q) \subseteq 1..L
      BY <1>l DEF Wanted
    <3> QED BY <1>2, <3>1, LowestIsLeast
  <2>3. Receive(q).item = <<q.items[i]>> /\ Receive(q).q = DropFirst(q, i)
    BY <2>1 DEF NextItem
  <2> HIDE DEF i
  <2>4. <<q.items[i]>> # <<>>
    OBVIOUS
  <2>5. Receive(q).q.items = SubSeq(q.items, i + 1, L)
    BY <1>d, <2>3
  <2>6. i \in 0..L /\ i > 0
    BY <1>l, <2>2
  <2> QED BY <2>3, <2>4, <2>5, <2>6 DEF Takes
<1>3. CASE ~q.choked /\ Wanted(q) = {} /\ Untold(q) # {}
  <2> DEFINE s == Lowest(Untold(q))
  <2>1. Receive(q) = NextEnd(q)
    BY <1>3 DEF Receive
  <2>2. Receive(q).q = ReceiveFinished(DropFirst(q, L), s) /\ Receive(q).item = <<>> /\ Receive(q).ret = "eof"
    BY <2>1 DEF NextEnd
  <2> HIDE DEF s
  <2>p. PICK p : p = DropFirst(q, L)
    OBVIOUS
  <2>3. ReceiveFinished(p, s).items = p.items
    BY <1>d, <2>p, OpsKeepItems
  <2>4. Receive(q).q.items = SubSeq(q.items, L + 1, L)
    BY <1>d, <2>2, <2>p, <2>3
  <2> QED BY <1>l, <2>2, <2>4 DEF Takes
<1>4. CASE ~q.choked /\ Wanted(q) = {} /\ Untold(q) = {}
  <2>1. PICK r \in {"eof", "again"} : Receive(q) = Nothing(q, r)
    BY <1>4 DEF Receive
  <2>2. Receive(q).q = DropFirst(q, L) /\ Receive(q).item = <<>> /\ Receive(q).ret = r
    BY <2>1 DEF Nothing
  <2>3. Receive(q).q.items = SubSeq(q.items, L + 1, L)
    BY <1>d, <2>2
  <2> QED BY <1>l, <2>2, <2>3 DEF Takes
<1> QED BY <1>1, <1>2, <1>3, <1>4

LEMMA ScheduledItems ==
    ASSUME NEW sc, NEW q, Schedule(sc, q), NEW e \in DOMAIN q, DOMAIN q[e] = QFields
    PROVE  queue'[e].items = q[e].items
<1>1. CASE terminate
  BY <1>1 DEF Schedule
<1>2. CASE ~terminate
  <2>1. PICK D, C : queue' = ChokeDemux(q, D, C)
    BY <1>2 DEF Schedule
  <2>2. queue'[e] = q[e] \/ \E b : queue'[e] = Choked(q[e], b)
    BY <2>1 DEF ChokeDemux
  <2> QED BY <2>2, OpsKeepItems
<1> QED BY <1>1, <1>2

\* Of all steps, a frame that is sent to an encoder adds to its queue, and the
\* encoder itself takes from it and makes its packets of what it takes.
Gets(t, e) ==
    /\ SendItem(t) /\ Target(t).to = e /\ item' = item
    /\ queue'[e].items = Append(queue[e].items, item[t])
Loses(e) ==
    \E n, x : /\ Takes(queue[e].items, queue'[e].items, n, x)
              /\ item'[e] \in {item[e], Null} \/ (x # <<>> /\ item'[e] = <<x[1][1], 1>>)

LEMMA EncQueues ==
    ASSUME PcInv, PlaceInv, QueueInv, DOMAIN item = Tasks, NEW e \in Of("enc"), queue[e].items \in Seq(Frames),
           NEW t \in Threads, Working(t) \/ Scheduling(t) \/ Fail(t)
    PROVE  \/ queue'[e].items = queue[e].items /\ (t = e => item'[e] \in {item[e], Null})
           \/ Gets(t, e)
           \/ t = e /\ Loses(e)
<1> DEFINE Same == queue'[e].items = queue[e].items
           G == \/ queue'[e].items = queue[e].items /\ (t = e => item'[e] \in {item[e], Null})
                \/ Gets(t, e)
                \/ t = e /\ Loses(e)
<1>t. t \in Tasks
  BY DEF Threads
<1>e. e \in Tasks /\ e[1] = "enc" /\ e \in DOMAIN queue /\ DOMAIN queue[e] = QFields
  BY DEF Of, QueueInv
<1>q. \A x \in DOMAIN queue : DOMAIN queue[x] = QFields
  BY DEF QueueInv
<1>0. ASSUME queue' = queue, item' = item PROVE G
  BY <1>0
<1>u. ASSUME NEW x, NEW r, queue' = [queue EXCEPT ![x] = r],
             x \in DOMAIN queue => r.items = queue[x].items
      PROVE  Same
  BY <1>u, <1>e
<1>o. ASSUME NEW x, NEW r, queue' = [queue EXCEPT ![x] = r], x # e PROVE Same
  BY <1>o, <1>e
<1>r. ASSUME NEW sc, NEW q, Schedule(sc, q), e \in DOMAIN q, DOMAIN q[e] = QFields, q[e].items = queue[e].items
      PROVE  Same
  BY <1>r, ScheduledItems
<1>s. ASSUME Same, item' = item PROVE G
  BY <1>s
<1>n. ASSUME Same, NEW x, item' = [item EXCEPT ![t] = x], t = e => x = Null PROVE G
  BY <1>n, <1>e
<1>1. CASE SendItem(t)
  <2> DEFINE o == Target(t)
             r == Write(queue[o.to], o.i, item[t])
  <2>1. queue' = [queue EXCEPT ![o.to] = r] /\ item' = item
    BY <1>1 DEF SendItem
  <2>2. CASE o.to = e
    <3>1. r.items = Append(queue[e].items, item[t])
      BY <1>e, <2>2, OpsKeepItems
    <3> HIDE DEF r
    <3> QED BY <1>1, <1>e, <2>1, <2>2, <3>1 DEF Gets
  <2>3. CASE o.to # e
    <3> HIDE DEF o, r
    <3> QED BY <1>o, <1>s, <2>1, <2>3
  <2> QED BY <2>2, <2>3
<1>2. CASE SendEnded(t) \/ SendFinish(t)
  <2>1. /\ item' = item
        /\ \E x, i : queue' = [queue EXCEPT ![x] = SendEnds(queue[x], i)] \/ queue' = [queue EXCEPT ![x] = SendFinished(queue[x], i)]
    BY <1>2 DEF SendEnded, SendFinish
  <2> QED BY <1>q, <1>u, <1>s, <2>1, OpsKeepItems
<1>3. CASE MuxCheck(t) \/ MuxQueue(t) \/ MuxQueueFull(t) \/ EncOpen(t) \/ DummySent(t) \/ MuxFlushed(t) \/ MuxStarted(t)
  <2>1. queue' = queue /\ item' = item
    BY <1>3 DEF MuxCheck, MuxQueue, MuxQueueFull, EncOpen, DummySent, MuxFlushed, MuxStarted, SendState
  <2> QED BY <1>0, <2>1
<1>4. CASE MuxSend(t)
  <2>1. item' = item /\ Target(t).to[1] = "mux" /\ \E r : queue' = [queue EXCEPT ![Target(t).to] = r]
    BY <1>4 DEF MuxSend
  <2> QED BY <1>e, <1>o, <1>s, <2>1
<1>5. CASE MuxFlush(t)
  <2>1. item' = item /\ (queue' = queue \/ \E r : queue' = [queue EXCEPT ![Opened(t)] = r])
    BY <1>5 DEF MuxFlush, SendState, Opened
  <2>2. dst[t] \in DOMAIN Outs(t) /\ Target(t).to[1] = "enc"
    BY <1>t, <1>5 DEF MuxFlush, PcInv, AtDst, PlaceInv, Flushing
  <2>3. Target(t).to \in Tasks
    BY <1>t, <2>2, NetFacts DEF PcInv, Target
  <2>4. Opened(t)[1] = "mux"
    BY <2>2, <2>3, NetFacts DEF PcInv, Opened, Receivers
  <2> QED BY <1>e, <1>o, <1>s, <2>1, <2>4
<1>6. CASE SendFilterFinish(t)
  <2>1. item' = item /\ Target(t).to[1] = "flt"
    BY <1>6 DEF SendFilterFinish
  <2>2. queue' = queue \/ \E sc, r : Schedule(sc, [queue EXCEPT ![Target(t).to] = r])
    BY <1>6 DEF SendFilterFinish
  <2> QED BY <1>e, <1>r, <1>s, <2>1, <2>2
<1>7. CASE MuxSchedule(t) \/ MuxFinish(t)
  <2>1. item' = item /\ (queue' = queue \/ \E sc : Schedule(sc, queue))
    BY <1>7 DEF MuxSchedule, MuxFinish
  <2> QED BY <1>e, <1>r, <1>s, <2>1
<1>8. CASE TaskExit(t) \/ (t[1] = "flt" /\ (FilterChooses(t) \/ FilterWakes(t)))
  <2>1. item' = item /\ (queue' = queue \/ \E sc : Schedule(sc, queue))
    BY <1>8 DEF TaskExit, FilterChooses, FilterWakes, SendState
  <2> QED BY <1>e, <1>r, <1>s, <2>1
<1>9. CASE MuxDone(t)
  <2>1. item' = item /\ t # e /\ \E sc, r : Schedule(sc, [queue EXCEPT ![t] = r])
    BY <1>9, <1>e DEF MuxDone, SendState
  <2> QED BY <1>e, <1>r, <1>s, <2>1
<1>10. CASE t[1] = "demux" /\ (DemuxSend(t) \/ DemuxEnd(t))
  <2>1. queue' = queue /\ t # e /\ \E x : item' = [item EXCEPT ![t] = x]
    BY <1>10, <1>e DEF DemuxSend, DemuxEnd, StartSending
  <2> QED BY <1>e, <2>1
<1>11. CASE Fail(t) \/ MuxExit(t)
  <2>1. queue' = queue /\ item' = item
    BY <1>11 DEF Fail, MuxExit, SendState
  <2> QED BY <1>0, <2>1
<1>12. CASE Discard(t)
  <2>1. item' = item /\ queue' = [queue EXCEPT ![t] = Receive(queue[t]).q]
    BY <1>12 DEF Discard, SendState
  <2>2. CASE t = e
    <3>1. \E n, x : Takes(queue[e].items, Receive(queue[e]).q.items, n, x)
      BY <1>e, ReceiveTakes
    <3> QED BY <1>e, <2>1, <2>2, <3>1 DEF Loses
  <2> QED BY <1>o, <1>s, <2>1, <2>2
<1>13. CASE Decode(t) \/ Mux(t)
  <2>1. t # e /\ \E r : queue' = [queue EXCEPT ![t] = r]
    BY <1>13, <1>e DEF Decode, Mux
  <2> QED BY <1>o, <2>1
<1>14. CASE Encode(t)
  <2>1. /\ queue' = [queue EXCEPT ![t] = Receive(queue[t]).q]
        /\ \/ item' = item
           \/ /\ Receive(queue[t]).ret = "item"
              /\ item' = [item EXCEPT ![t] = <<Receive(queue[t]).item[1][1], 1>>]
    BY <1>14 DEF Encode, StartSending
  <2>2. CASE t = e
    <3>1. PICK n : Takes(queue[e].items, Receive(queue[e]).q.items, n, Receive(queue[e]).item)
      BY <1>e, ReceiveTakes
    <3>2. Receive(queue[e]).ret = "item" => Receive(queue[e]).item # <<>>
      BY <1>e, ReceiveTakes
    <3> QED BY <1>e, <2>1, <2>2, <3>1, <3>2 DEF Loses
  <2> QED BY <1>o, <2>1, <2>2
<1>15. CASE TaskDone(t)
  <2>1. /\ queue' = queue \/ queue' = [queue EXCEPT ![t] = FinishQueue(queue[t], StreamsOf(queue[t]))]
        /\ item' = [item EXCEPT ![t] = Null]
    BY <1>15 DEF TaskDone, StartSending
  <2>2. Same
    <3> DEFINE r == FinishQueue(queue[t], StreamsOf(queue[t]))
    <3>1. t \in DOMAIN queue => r.items = queue[t].items
      BY <1>q, OpsKeepItems
    <3>2. queue' = queue \/ queue' = [queue EXCEPT ![t] = r]
      BY <2>1
    <3> HIDE DEF r
    <3> QED BY <1>u, <3>1, <3>2
  <2> QED BY <1>n, <2>1, <2>2
<1>16. CASE t[1] = "flt" /\ (FilterIdles(t) \/ FilterFrames(t))
  <2>1. t # e /\ (queue' = queue \/ \E r : queue' = [queue EXCEPT ![t] = r])
    BY <1>16, <1>e DEF FilterIdles, FilterFrames
  <2> QED BY <1>o, <2>1
<1>17. CASE t[1] = "flt" /\ FilterFinishes(t)
  <2>1. t # e /\ (queue' = queue \/ \E x : queue' = [queue EXCEPT ![x] = SendFinished(queue[x], 0)])
    BY <1>17, <1>e DEF FilterFinishes
  <2>2. CASE queue' = queue
    BY <1>o, <2>1, <2>2
  <2>3. ASSUME NEW x, queue' = [queue EXCEPT ![x] = SendFinished(queue[x], 0)] PROVE Same
    <3> DEFINE r == SendFinished(queue[x], 0)
    <3>1. x \in DOMAIN queue => r.items = queue[x].items
      BY <1>q, OpsKeepItems
    <3>2. queue' = [queue EXCEPT ![x] = r]
      BY <2>3
    <3> HIDE DEF r
    <3> QED BY <1>u, <3>1, <3>2
  <2> QED BY <2>1, <2>2, <2>3
<1>18. CASE t[1] = "flt" /\ FilterTakes(t)
  <2>1. t # e /\ \E r : queue' = [queue EXCEPT ![t] = r] \/ \E sc : Schedule(sc, [queue EXCEPT ![t] = r])
    BY <1>18, <1>e DEF FilterTakes
  <2> QED BY <1>e, <1>o, <1>r, <2>1
<1>19. CASE t[1] = "flt" /\ FilterCloses(t)
  <2>1. t # e /\ (queue' = queue \/ \E sc, r : Schedule(sc, [queue EXCEPT ![t] = r]))
    BY <1>19, <1>e DEF FilterCloses
  <2> QED BY <1>e, <1>r, <2>1
<1> QED BY <1>1, <1>2, <1>3, <1>4, <1>5, <1>6, <1>7, <1>8, <1>9, <1>10, <1>11, <1>12, <1>13, <1>14, <1>15, <1>16,
           <1>17, <1>18, <1>19 DEF Working, Scheduling, Sending, Filter

-----------------------------------------------------------------------------
(***************************************************************************)
(* What is under way.  Demuxers and encoders send packets with a time      *)
(* stamp or none and a duration, and encoders are sent numbered frames.    *)
(***************************************************************************)
Stamped == {<<x, n>> : x \in Nat \cup {NoPts}, n \in Nat}

ItemInv ==
    /\ DOMAIN item = Tasks /\ DOMAIN pos = Of("demux")
    /\ \A d \in Of("demux") : item[d] \in {Null} \cup Stamped
    /\ \A f \in Of("flt") : item[f] \in {Null, Dummy, <<fg[f].out>>}
    /\ \A e \in Of("enc") : item[e] \in {Null} \cup Stamped /\ queue[e].items \in Seq(Frames)

\* A schedule changes nothing but who is choked.
LEMMA RescheduledSched ==
    ASSUME NEW sc, Reschedules(sc)
    PROVE  /\ DOMAIN sched' = SFields
           /\ sched'.dts = sc.dts /\ sched'.reported = sc.reported
           /\ sched'.finished = sc.finished /\ sched'.best = sc.best
<1>1. PICK next : sched' = sc \/ sched' = [sc EXCEPT !.choked = next]
  BY DEF Reschedules, Schedule
<1> QED BY <1>1 DEF Reschedules, SFields

LEMMA NetStays ==
    ASSUME net' = net
    PROVE  /\ Tasks' = Tasks /\ MuxStreams' = MuxStreams /\ Sources' = Sources
           /\ \A k : Of(k)' = Of(k)
           /\ \A t : /\ Outs(t)' = Outs(t) /\ Inputs(t)' = Inputs(t) /\ NoInput(t)' = NoInput(t)
                     /\ Copies(t)' = Copies(t) /\ CopiedTo(t)' = CopiedTo(t)
<1>1. /\ Tasks' = Tasks /\ (\A k : Of(k)' = Of(k)) /\ (\A t : Outs(t)' = Outs(t))
      /\ Sources' = Sources
  BY DEF Tasks, Of, Outs, Sources
<1>2. \A t : Inputs(t)' = Inputs(t) /\ NoInput(t)' = NoInput(t)
  BY <1>1 DEF Inputs, NoInput
<1>3. \A t : Copies(t)' = Copies(t) /\ CopiedTo(t)' = CopiedTo(t)
  BY <1>1 DEF Copies, CopiedTo
<1> QED BY <1>1, <1>2, <1>3 DEF MuxStreams

\* Who sends to a muxer.
LEMMA OutputFacts ==
    ASSUME PcInv, NEW t \in Tasks, NEW k \in DOMAIN Outs(t), Outs(t)[k].to[1] = "mux"
    PROVE  t[1] \in {"demux", "enc"} /\ <<Outs(t)[k].to, Outs(t)[k].i>> \in MuxStreams
<1>1. Outs(t)[k].to \in Of("mux") /\ t[1] \in {"demux", "enc"}
  BY NetFacts DEF PcInv, Of, Receivers, Kinds
<1>2. Outs(t)[k] \in UNION {Range(Outs(u)) : u \in Tasks}
  BY DEF Range
<1>3. Outs(t)[k].i \in Inputs(Outs(t)[k].to)
  BY <1>1, <1>2 DEF Inputs, Of
<1> QED BY <1>1, <1>3 DEF MuxStreams

\* Who reports, and that it is a time.
LEMMA ReportFacts ==
    ASSUME PcInv, PlaceInv, ItemInv, NEW t \in Tasks, Reports(t)
    PROVE  /\ OutputOf(t) \in MuxStreams /\ t[1] \in {"demux", "enc"}
           /\ pc[t] = "mux_schedule" /\ item[t] # Null /\ dst[t] \in DOMAIN Outs(t)
           /\ item[t][1] + item[t][2] \in Nat
<1>1. pc[t] = "mux_schedule" /\ item[t] # Null /\ item[t][1] # NoPts
  BY DEF Reports, MuxSchedule, Item
<1>2. dst[t] \in DOMAIN Outs(t) /\ Target(t).to[1] = "mux"
  BY <1>1 DEF PcInv, PlaceInv, Muxing, AtDst
<1>3. t[1] \in {"demux", "enc"} /\ OutputOf(t) \in MuxStreams
  BY <1>2, OutputFacts DEF Target, OutputOf
<1>4. item[t] \in Stamped
  BY <1>1, <1>3 DEF ItemInv, Of
<1>5. PICK x \in Nat \cup {NoPts}, n \in Nat : item[t] = <<x, n>>
  BY <1>4 DEF Stamped
<1> QED BY <1>1, <1>2, <1>3, <1>5

\* One stream has reported one time more, or none has.
LEMMA NewReport ==
    ASSUME PcInv, PlaceInv, ItemInv, DOMAIN sched = SFields, DtsOK(sched),
           NEW t \in Tasks, Quiet \/ Reports(t)
    PROVE  /\ DtsOK(sched') /\ sched.finished \subseteq sched'.finished
           /\ \A ms \in MuxStreams :
                  \/ sched'.reported[ms] = sched.reported[ms]
                  \/ /\ Reports(t) /\ OutputOf(t) = ms
                     /\ \E x \in Nat : sched'.reported[ms] = Append(sched.reported[ms], x)
<1>1. CASE Reports(t)
  <2> DEFINE o == OutputOf(t)
             x == item[t][1] + item[t][2]
  <2>1. o \in MuxStreams /\ x \in Nat
    BY <1>1, ReportFacts
  <2>2. PICK sc : sc = WithTime(o, x) /\ Reschedules(sc)
    BY <1>1 DEF Reports
  <2> HIDE DEF o, x
  <2>3. /\ sc.dts = [sched.dts EXCEPT ![o] = x] /\ sc.finished = sched.finished
        /\ sc.reported = [sched.reported EXCEPT ![o] = Append(@, x)]
    BY <2>2 DEF WithTime, SFields
  <2>4. /\ sched'.dts = [sched.dts EXCEPT ![o] = x] /\ sched'.finished = sched.finished
        /\ sched'.reported = [sched.reported EXCEPT ![o] = Append(@, x)]
    BY <2>2, <2>3, RescheduledSched
  <2>5. /\ sched'.dts[o] = x /\ sched'.reported[o] = Append(sched.reported[o], x)
        /\ DOMAIN sched'.dts = MuxStreams /\ DOMAIN sched'.reported = MuxStreams
        /\ \A ms \in MuxStreams \ {o} : /\ sched'.dts[ms] = sched.dts[ms]
                                        /\ sched'.reported[ms] = sched.reported[ms]
    BY <2>1, <2>4 DEF DtsOK
  <2>6. PICK r \in Seq(Nat) : r = sched.reported[o]
    BY <2>1 DEF DtsOK
  <2>7. Append(r, x) \in Seq(Nat) /\ Append(r, x) # <<>> /\ Append(r, x)[Len(Append(r, x))] = x
    <3>1. x \in Nat /\ r \in Seq(Nat)
      BY <2>1, <2>6
    <3>2. Append(r, x) \in Seq(Nat) /\ Len(Append(r, x)) = Len(r) + 1 /\ Append(r, x)[Len(r) + 1] = x
      BY <3>1
    <3>3. Len(r) \in Nat
      BY <3>1
    <3>4. Append(r, x) # <<>>
      BY <3>2, <3>3
    <3> QED BY <3>2, <3>4
  <2>8. ASSUME NEW ms \in MuxStreams
        PROVE  /\ sched'.reported[ms] \in Seq(Nat)
               /\ sched'.dts[ms] = IF sched'.reported[ms] = <<>> THEN NoPts
                                   ELSE sched'.reported[ms][Len(sched'.reported[ms])]
    <3>1. CASE ms = o
      BY <2>5, <2>6, <2>7, <3>1
    <3>2. CASE ms # o
      BY <2>5, <3>2 DEF DtsOK
    <3> QED BY <3>1, <3>2
  <2>9. DtsOK(sched')
    BY <2>5, <2>8 DEF DtsOK
  <2> QED BY <1>1, <2>1, <2>4, <2>5, <2>9 DEF o
<1>2. CASE Quiet
  <2>1. sched'.dts = sched.dts /\ sched'.reported = sched.reported /\ sched.finished \subseteq sched'.finished
    BY <1>2, RescheduledSched DEF Quiet
  <2> QED BY <2>1 DEF DtsOK
<1> QED BY <1>1, <1>2

LEMMA GraphInvKept ==
    ASSUME GraphInv, net' = net, NEW t \in Tasks, GraphStep(t), DOMAIN sched = SFields, Quiet \/ Reports(t)
    PROVE  GraphInv'
<1>1. DOMAIN sched'.best = Of("flt") /\ BestOK(sched')
  <2>1. CASE sched' = sched
    BY <2>1 DEF GraphInv
  <2>2. CASE Quiet /\ sched' # sched
    <3>1. PICK sc : Reschedules(sc) /\ DOMAIN sc.best = Of("flt") /\ BestOK(sc)
      BY <2>2 DEF Quiet
    <3>2. sched'.best = sc.best
      BY <3>1, RescheduledSched
    <3> QED BY <3>1, <3>2 DEF BestOK
  <2>3. CASE Reports(t)
    <3>1. PICK sc : sc = WithTime(OutputOf(t), item[t][1] + item[t][2])
      OBVIOUS
    <3>2. sc.best = sched.best /\ Reschedules(sc)
      BY <2>3, <3>1 DEF SFields, Reports, WithTime
    <3>3. sched'.best = sched.best
      BY <3>2, RescheduledSched
    <3> QED BY <3>3 DEF GraphInv, BestOK
  <2> QED BY <2>1, <2>2, <2>3
<1>2. DOMAIN fg' = Of("flt") /\ \A f \in Of("flt") : GraphOK(f, fg'[f])
  BY DEF GraphInv, GraphStep
<1> QED BY <1>1, <1>2, NetStays DEF GraphInv, GraphOK, BestOK

-----------------------------------------------------------------------------
(***************************************************************************)
(* The demuxers' steps: one that reads, and the others, which send on what *)
(* has been read.                                                          *)
(***************************************************************************)
LEMMA PosStays ==
    ASSUME NEW t \in Threads, Working(t) \/ Scheduling(t) \/ Fail(t)
    PROVE  DOMAIN pos' = DOMAIN pos
<1>1. CASE Sending(t) \/ SendFilterFinish(t) \/ MuxSchedule(t)
  BY <1>1 DEF Sending, SendItem, SendEnded, SendFinish, SendFilterFinish, MuxSchedule, DummySent, MuxCheck,
     MuxQueue, MuxQueueFull, MuxSend, EncOpen, MuxFlush, MuxFlushed, MuxStarted, TaskVars
<1>2. CASE DemuxSend(t)
  BY <1>2 DEF DemuxSend
<1>3. CASE \/ DemuxEnd(t) \/ Discard(t) \/ Decode(t) \/ Encode(t) \/ Mux(t) \/ TaskDone(t) \/ MuxExit(t)
           \/ MuxFinish(t) \/ TaskExit(t) \/ MuxDone(t) \/ Fail(t)
  BY <1>3 DEF DemuxEnd, Discard, Decode, Encode, Mux, TaskDone, MuxExit, MuxFinish, TaskExit, MuxDone,
     Fail, TaskVars
<1>4. CASE Filter(t) \/ FilterChooses(t) \/ FilterTakes(t) \/ FilterCloses(t)
  BY <1>4 DEF Filter, FilterIdles, FilterWakes, FilterFrames, FilterFinishes, FilterChooses, FilterTakes,
     FilterCloses, FgVars
<1> QED BY <1>1, <1>2, <1>3, <1>4 DEF Working, Scheduling

\* A demuxer reads a packet of its file.
LEMMA ReadsPacket ==
    ASSUME PcInv, ItemInv, NEW d \in Of("demux"), DemuxSend(d)
    PROVE  item'[d] \in Stamped
<1> DEFINE F == net.file[d]
           n == NextPacket(d)
           left == {k \in DOMAIN F : k > pos[d] /\ \E j \in DOMAIN Outs(d) \ done[d] : Outs(d)[j].s = F[k].s}
<1>f. F \in Seq(Packets)
  BY FilesAssumption DEF PcInv, Of, Tasks
<1>1. n = IF left = {} THEN Len(F) + 1 ELSE Lowest(left)
  BY DEF NextPacket
<1>2. ~(n > Len(F))
  BY DEF DemuxSend, AtEnd
<1> HIDE DEF n
<1>3. DOMAIN F \subseteq Nat /\ Len(F) \in Nat /\ \A k \in DOMAIN F : F[k] \in Packets
  <2> HIDE DEF F
  <2> QED BY <1>f
<1>4. left # {} /\ left \subseteq Nat
  BY <1>1, <1>2, <1>3
<1>5. n \in left
  BY <1>1, <1>4, LowestIsLeast
<1>6. pos'[d] = n
  BY DEF DemuxSend, ItemInv, n
<1>7. item' = [item EXCEPT ![d] = <<F[n].dts, F[n].dur>>]
  BY <1>6 DEF DemuxSend, StartSending
<1>8. F[n] \in Packets
  BY <1>3, <1>5
<1> HIDE DEF F
<1>9. F[n].dts \in Nat \cup {NoPts} /\ F[n].dur \in Nat
  BY <1>8 DEF Packets
<1>10. <<F[n].dts, F[n].dur>> \in Stamped
  <2>1. ASSUME NEW x \in Nat \cup {NoPts}, NEW y \in Nat PROVE <<x, y>> \in Stamped
    BY DEF Stamped
  <2> QED BY <1>9, <2>1
<1>11. d \in DOMAIN item
  BY DEF ItemInv, Of
<1> QED BY <1>7, <1>10, <1>11

\* The other steps of a demuxer: what it sends stays what it has read, and a copy has
\* nowhere else to send what it has reported.
SendsOn(d) ==
    /\ item'[d] \in {item[d], Null}
    /\ pc'[d] \in AtDst /\ item'[d] # Null => pc[d] \in AtDst /\ item[d] # Null
    /\ Copies(d) /\ MuxSchedule(d) => pc'[d] \notin AtDst

LEMMA DemuxSteps ==
    ASSUME PcInv, PlaceInv, ItemInv, NEW t \in Threads, t \in Of("demux"),
           Working(t) \/ Scheduling(t) \/ Fail(t), ~DemuxSend(t)
    PROVE  SendsOn(t)
<1>t. t \in Tasks /\ t[1] = "demux"
  BY DEF Of
<1>d. pc[t] \in AtDst /\ Copies(t) => dst[t] = 1 /\ DOMAIN Outs(t) = {1}
  BY <1>t, CopyFeeds DEF PcInv, Copies
\* A step that sends, and one that ends the demuxer's loop.
<1>a. ASSUME pc[t] \in AtDst, item' = item, ~MuxSchedule(t) PROVE SendsOn(t)
  BY <1>a DEF SendsOn
<1>e. ASSUME ~MuxSchedule(t), pc'[t] \notin AtDst \/ item'[t] = Null, item'[t] \in {item[t], Null} PROVE SendsOn(t)
  BY <1>e DEF SendsOn
<1>m. MuxSchedule(t) => pc[t] = "mux_schedule"
  BY DEF MuxSchedule
<1>1. CASE SendItem(t) \/ SendFinish(t) \/ SendFilterFinish(t) \/ DummySent(t)
  <2>1. pc[t] = "send" /\ item' = item
    BY <1>1 DEF SendItem, SendFinish, SendFilterFinish, DummySent
  <2> QED BY <1>a, <1>m, <2>1 DEF AtDst
<1>2. CASE SendEnded(t) \/ MuxCheck(t) \/ MuxQueue(t) \/ MuxQueueFull(t) \/ MuxSend(t)
  <2>1. pc[t] \in {"send", "mux_lock"} /\ item' = item
    BY <1>2 DEF SendEnded, MuxCheck, MuxQueue, MuxQueueFull, MuxSend, SendState
  <2> QED BY <1>a, <1>m, <2>1 DEF AtDst
<1>3. CASE EncOpen(t) \/ MuxFlush(t) \/ MuxFlushed(t) \/ MuxStarted(t)
  <2>1. pc[t] \in {"send", "flush", "flushed"} /\ item' = item
    BY <1>3 DEF EncOpen, MuxFlush, MuxFlushed, MuxStarted, SendState
  <2> QED BY <1>a, <1>m, <2>1 DEF AtDst
<1>4. CASE MuxSchedule(t)
  <2>1. pc[t] = "mux_schedule" /\ item' = item
    BY <1>4 DEF MuxSchedule
  <2>2. PICK fin : Advance(t, dst[t], fin)
    BY <1>4 DEF MuxSchedule
  <2>3. Copies(t) => Coming(t, dst[t], fin) = {}
    BY <1>d, <2>1 DEF Coming, AtDst
  <2>4. After(t, fin) \notin AtDst
    BY <1>t DEF After, Leaving, AtDst
  <2>5. Copies(t) => pc'[t] = After(t, fin)
    BY <1>t, <2>2, <2>3 DEF Advance, PcInv
  <2> QED BY <2>1, <2>4, <2>5 DEF SendsOn, AtDst
<1>5. CASE DemuxEnd(t) \/ TaskDone(t)
  <2>1. StartSending(t, Null) /\ pc[t] \in {"read", "done"}
    BY <1>5 DEF DemuxEnd, TaskDone
  <2>2. item'[t] = Null
    BY <1>t, <2>1 DEF StartSending, ItemInv
  <2> QED BY <1>e, <1>m, <2>1, <2>2
<1>6. CASE TaskExit(t) \/ Fail(t)
  <2>1. item' = item /\ pc[t] # "mux_schedule" /\ \E p \in {"exited", "done"} : pc' = [pc EXCEPT ![t] = p]
    BY <1>6 DEF TaskExit, Fail, Fails, SendState
  <2>2. pc'[t] \notin AtDst
    BY <1>t, <2>1 DEF PcInv, AtDst
  <2> QED BY <1>e, <1>m, <2>1, <2>2
<1>7. ~(Discard(t) \/ Decode(t) \/ Encode(t) \/ Mux(t) \/ MuxExit(t) \/ MuxFinish(t) \/ MuxDone(t))
  BY <1>t DEF Discard, Decode, Encode, Mux, MuxExit, MuxFinish, MuxDone
<1> QED BY <1>t, <1>1, <1>2, <1>3, <1>4, <1>5, <1>6, <1>7 DEF Working, Scheduling, Sending

LEMMA SuffixFacts ==
    ASSUME NEW S, NEW Q \in Seq(S), NEW n \in 0..Len(Q), NEW R, R = SubSeq(Q, n + 1, Len(Q))
    PROVE  R \in Seq(S)
OBVIOUS

LEMMA ItemInvKept ==
    ASSUME PcInv, PlaceInv, QueueInv, GraphInv, ItemInv,
           NEW t \in Threads, Working(t) \/ Scheduling(t) \/ Fail(t), net' = net
    PROVE  ItemInv'
<1>t. t \in Tasks
  BY DEF Threads
<1>n. Tasks' = Tasks /\ \A k : Of(k)' = Of(k)
  BY NetStays
<1>g. GraphStep(t)
  BY GraphSteps DEF ItemInv
<1>1. DOMAIN item' = Tasks' /\ DOMAIN pos' = Of("demux")'
  BY <1>g, <1>n, PosStays DEF GraphStep, ItemInv
<1>2. ASSUME NEW d \in Of("demux") PROVE item'[d] \in {Null} \cup Stamped
  <2>1. CASE t # d
    <3>1. item'[d] = item[d]
      BY <1>g, <2>1 DEF GraphStep, Of
    <3> QED BY <3>1 DEF ItemInv
  <2>2. CASE t = d /\ DemuxSend(d)
    BY <2>2, ReadsPacket
  <2>3. CASE t = d /\ ~DemuxSend(d)
    <3>1. item'[d] \in {item[d], Null}
      BY <2>3, DemuxSteps DEF SendsOn
    <3> QED BY <3>1 DEF ItemInv
  <2> QED BY <2>1, <2>2, <2>3
<1>3. ASSUME NEW f \in Of("flt") PROVE item'[f] \in {Null, Dummy, <<fg'[f].out>>}
  <2>1. item[f] \in {Null, Dummy, <<fg[f].out>>}
    BY DEF ItemInv
  <2>2. CASE t # f
    BY <1>g, <2>1, <2>2 DEF GraphStep, Of
  <2>3. CASE t = f
    <3>1. \/ fg'[t].out = fg[t].out /\ item'[t] \in {item[t], Null, Dummy}
          \/ item'[t] = <<fg'[t].out>>
      BY <1>g, <2>3 DEF GraphStep
    <3> QED BY <2>1, <2>3, <3>1
  <2> QED BY <2>2, <2>3
<1>4. ASSUME NEW e \in Of("enc") PROVE item'[e] \in {Null} \cup Stamped /\ queue'[e].items \in Seq(Frames)
  <2> DEFINE Q == queue[e].items
             R == queue'[e].items
  <2>i. item[e] \in {Null} \cup Stamped /\ Q \in Seq(Frames) /\ e \in Tasks /\ e[1] = "enc"
    BY DEF ItemInv, Of
  <2>o. t # e => item'[e] = item[e]
    BY <1>g, <2>i DEF GraphStep
  <2>1. CASE R = Q /\ (t = e => item'[e] \in {item[e], Null})
    BY <2>i, <2>o, <2>1
  <2>2. CASE Gets(t, e)
    <3>1. pc[t] = "send" /\ item[t] # Null /\ item[t] # Dummy /\ Target(t).to = e /\ item' = item
      BY <2>2, <2>i DEF Gets, SendItem, Item
    <3>2. dst[t] \in DOMAIN Outs(t)
      BY <1>t, <3>1 DEF PcInv, AtDst
    <3>3. t \in Of("flt")
      BY <1>t, <2>i, <3>1, <3>2, NetFacts DEF PcInv, Of, Receivers, Kinds, Target
    <3>4. item[t] = <<fg[t].out>> /\ fg[t].out \in Nat
      BY <3>1, <3>3 DEF ItemInv, GraphInv, GraphOK
    <3>5. item[t] \in Frames
      BY <3>4 DEF Frames
    <3>6. R = Append(Q, item[t])
      BY <2>2 DEF Gets
    <3> HIDE DEF Q, R
    <3>7. R \in Seq(Frames)
      BY <2>i, <3>5, <3>6
    <3> QED BY <2>i, <3>1, <3>7 DEF R
  <2>3. CASE t = e /\ Loses(e)
    <3>1. PICK n, x : /\ Takes(Q, R, n, x)
                      /\ item'[e] \in {item[e], Null} \/ (x # <<>> /\ item'[e] = <<x[1][1], 1>>)
      BY <2>3 DEF Loses
    <3>2. n \in 0..Len(Q) /\ R = SubSeq(Q, n + 1, Len(Q)) /\ (x # <<>> => n > 0 /\ x = <<Q[n]>>)
      BY <3>1 DEF Takes
    <3> HIDE DEF Q, R
    <3>3. R \in Seq(Frames)
      BY <2>i, <3>2, SuffixFacts
    <3>4. ASSUME x # <<>> PROVE <<x[1][1], 1>> \in Stamped
      <4>1. n \in 1..Len(Q) /\ x[1] = Q[n]
        BY <2>i, <3>2, <3>4
      <4>2. x[1] \in Frames
        BY <2>i, <4>1
      <4>3. PICK v \in Nat : x[1] = <<v>>
        BY <4>2 DEF Frames
      <4> QED BY <4>3 DEF Stamped
    <3> QED BY <2>i, <3>1, <3>3, <3>4 DEF R
  <2> QED BY <2>i, <2>1, <2>2, <2>3, EncQueues DEF ItemInv
<1> QED BY <1>1, <1>2, <1>3, <1>4, <1>n DEF ItemInv

\* A step of thread t and what it means for the schedule.
Stepped(t) ==
    /\ net' = net /\ DOMAIN item' = Tasks
    /\ \A u \in Tasks \ {t} : item'[u] = item[u] /\ dst'[u] = dst[u] /\ (u[1] # "mux" => pc'[u] = pc[u])
    /\ DtsOK(sched') /\ sched.finished \subseteq sched'.finished
    /\ \A ms \in MuxStreams :
           \/ sched'.reported[ms] = sched.reported[ms]
           \/ /\ Reports(t) /\ OutputOf(t) = ms
              /\ \E x \in Nat : sched'.reported[ms] = Append(sched.reported[ms], x)

LEMMA AllStepped ==
    ASSUME PcInv, PlaceInv, QueueInv, GraphInv, ItemInv, DtsOK(sched),
           NEW t \in Threads, Working(t) \/ Scheduling(t) \/ Fail(t)
    PROVE  Stepped(t)
<1>1. t \in Tasks /\ (Quiet \/ Reports(t))
  BY ThreadReports DEF QueueInv, Threads
<1>2. /\ DtsOK(sched') /\ sched.finished \subseteq sched'.finished
      /\ \A ms \in MuxStreams :
             \/ sched'.reported[ms] = sched.reported[ms]
             \/ /\ Reports(t) /\ OutputOf(t) = ms
                /\ \E x \in Nat : sched'.reported[ms] = Append(sched.reported[ms], x)
  BY <1>1, NewReport DEF QueueInv
<1>3. GraphStep(t)
  BY GraphSteps DEF ItemInv
<1> QED BY <1>2, <1>3, OthersStay DEF Stepped, GraphStep

-----------------------------------------------------------------------------
(***************************************************************************)
(* A demuxer that is copied to one output stream goes on only while that   *)
(* stream wants it to.  While it has a packet to send, all that it has     *)
(* reported is covered, so that the report of the packet leaves one time   *)
(* at most that is not.                                                    *)
(***************************************************************************)
InSync(d) ==
    LET times == sched.reported[CopiedTo(d)] IN
    /\ d \notin sched.choked => CopiedTo(d) \in Wanting(sched)
    /\ \A n \in 1..Len(times) - 1 : Covered(times[n])
    /\ pc[d] \in AtDst /\ item[d] # Null => \A n \in 1..Len(times) : Covered(times[n])

SyncInv ==
    ~terminate => \A d \in Of("demux") : Copies(d) /\ CopiedTo(d) \in Unfinished(sched) => InSync(d)

LEMMA WantingStill ==
    ASSUME net \in Nets, net' = net, ~terminate, QueueInv, GraphInv, DtsOK(sched), DtsOK(sched'),
           NEW t \in Tasks, Quiet \/ Reports(t),
           NEW d \in Of("demux"), Copies(d), CopiedTo(d) \in Unfinished(sched'),
           d \notin sched.choked => CopiedTo(d) \in Wanting(sched)
    PROVE  d \notin sched'.choked => CopiedTo(d) \in Wanting(sched')
<1> SUFFICES ASSUME d \notin sched'.choked PROVE CopiedTo(d) \in Wanting(sched')
  OBVIOUS
<1>1. CASE sched' = sched
  BY <1>1
<1>2. ASSUME NEW sc, Reschedules(sc), BestOK(sc) PROVE CopiedTo(d) \in Wanting(sched')
  <2>1. sched'.dts = sc.dts /\ sched'.reported = sc.reported /\ sched'.finished = sc.finished
    BY <1>2, RescheduledSched
  <2>2. DtsOK(sc) /\ CopiedTo(d) \in Unfinished(sc)
    BY <2>1 DEF DtsOK, Unfinished
  <2>3. PICK q : Schedule(sc, q)
    BY <1>2 DEF Reschedules
  <2>4. DOMAIN sc = SFields
    BY <1>2 DEF Reschedules
  <2> QED BY <1>2, <2>2, <2>3, <2>4, ScheduleInTime
<1>3. CASE Reports(t)
  <2>1. PICK sc : sc = WithTime(OutputOf(t), item[t][1] + item[t][2])
    OBVIOUS
  <2>2. sc.best = sched.best /\ Reschedules(sc)
    BY <1>3, <2>1 DEF SFields, Reports, QueueInv, WithTime
  <2>3. BestOK(sc)
    BY <2>2 DEF GraphInv, BestOK
  <2> QED BY <1>2, <2>2, <2>3
<1> QED BY <1>1, <1>2, <1>3 DEF Quiet

\* What is covered stays so: streams only finish, and only add to what they report.
LEMMA CoveredStill ==
    ASSUME DtsOK(sched), DtsOK(sched'), sched.finished \subseteq sched'.finished,
           \A ms \in MuxStreams : \/ sched'.reported[ms] = sched.reported[ms]
                                  \/ \E x \in Nat : sched'.reported[ms] = Append(sched.reported[ms], x),
           NEW x, Covered(x)
    PROVE  \A u \in Unfinished(sched') :
               \E k \in DOMAIN sched'.reported[u] : x - sched'.reported[u][k] < Tolerance
<1> SUFFICES ASSUME NEW u \in Unfinished(sched')
             PROVE  \E k \in DOMAIN sched'.reported[u] : x - sched'.reported[u][k] < Tolerance
  OBVIOUS
<1>1. u \in Unfinished(sched) /\ u \in MuxStreams
  BY DEF Unfinished, DtsOK
<1>2. PICK r \in Seq(Nat) : r = sched.reported[u]
  BY <1>1 DEF DtsOK
<1>3. PICK k \in DOMAIN r : x - r[k] < Tolerance
  BY <1>1, <1>2 DEF Covered
<1>4. CASE sched'.reported[u] = r
  BY <1>3, <1>4
<1>5. ASSUME NEW y \in Nat, sched'.reported[u] = Append(r, y)
      PROVE  \E j \in DOMAIN sched'.reported[u] : x - sched'.reported[u][j] < Tolerance
  <2>1. k \in DOMAIN Append(r, y) /\ Append(r, y)[k] = r[k]
    BY <1>2, <1>3
  <2> QED BY <1>3, <1>5, <2>1
<1> QED BY <1>1, <1>2, <1>4, <1>5

\* What a stream that may go on has reported last is less than the tolerance ahead of
\* what every other unfinished stream has.
LEMMA WantingCovered ==
    ASSUME DtsOK(sched), NEW ms \in Wanting(sched), NEW n \in 1..Len(sched.reported[ms]),
           n = Len(sched.reported[ms])
    PROVE  Covered(sched.reported[ms][n])
<1>1. ms \in Unfinished(sched) /\ ms \in MuxStreams
  BY DEF Wanting, Unfinished, DtsOK
<1>2. PICK r \in Seq(Nat) : r = sched.reported[ms]
  BY <1>1 DEF DtsOK
<1>3. r # <<>>
  BY <1>2
<1>4. sched.dts[ms] \in Nat /\ sched.dts[ms] = sched.reported[ms][n]
  BY <1>1, <1>2, <1>3, LastReport
<1>5. Trailing(sched) # NoPts /\ sched.dts[ms] - Trailing(sched) < Tolerance
  BY <1>4 DEF Wanting, NoPts
<1>6. /\ Trailing(sched) \in Nat
      /\ \A u \in Unfinished(sched) : sched.dts[u] \in Nat /\ Trailing(sched) <= sched.dts[u]
  BY <1>1, <1>5, TrailingFacts
<1> SUFFICES ASSUME NEW u \in Unfinished(sched)
             PROVE  \E k \in DOMAIN sched.reported[u] : sched.dts[ms] - sched.reported[u][k] < Tolerance
  BY <1>4 DEF Covered
<1>7. sched.dts[u] \in Nat /\ Trailing(sched) <= sched.dts[u] /\ u \in MuxStreams
  BY <1>6 DEF Unfinished, DtsOK
<1>8. /\ Len(sched.reported[u]) \in DOMAIN sched.reported[u]
      /\ sched.dts[u] = sched.reported[u][Len(sched.reported[u])]
  BY <1>7, LastReport DEF NoPts
<1>9. sched.dts[ms] - sched.dts[u] < Tolerance
  BY <1>4, <1>5, <1>6, <1>7, ToleranceAssumption
<1> QED BY <1>8, <1>9

LEMMA SyncInvKept ==
    ASSUME PcInv, PlaceInv, QueueInv, GraphInv, ItemInv, DtsOK(sched), SyncInv,
           NEW t \in Threads, Working(t) \/ Scheduling(t) \/ Fail(t), terminate' = terminate
    PROVE  SyncInv'
<1>t. t \in Tasks
  BY DEF Threads
<1>1. Stepped(t)
  BY AllStepped
<1>n. /\ net' = net /\ \A k : Of(k)' = Of(k)
      /\ \A u : Copies(u)' = Copies(u) /\ CopiedTo(u)' = CopiedTo(u)
  BY <1>1, NetStays DEF Stepped
<1> SUFFICES ASSUME ~terminate, NEW d \in Of("demux"), Copies(d), CopiedTo(d) \in Unfinished(sched')
             PROVE  InSync(d)'
  BY <1>n DEF SyncInv, Unfinished
<1> DEFINE ms == CopiedTo(d)
           times == sched.reported[ms]
           later == sched'.reported[ms]
           Later(x) == \A u \in Unfinished(sched') :
                           \E k \in DOMAIN sched'.reported[u] : x - sched'.reported[u][k] < Tolerance
<1>d. d \in Tasks /\ d[1] # "mux" /\ DOMAIN Outs(d) = {1} /\ ms \in MuxStreams
  BY CopyFeeds DEF Of, PcInv
<1>2. DtsOK(sched') /\ sched.finished \subseteq sched'.finished
  BY <1>1 DEF Stepped
<1>s. ms \in Unfinished(sched) /\ InSync(d)
  <2>1. ms \in Unfinished(sched)
    BY <1>2, <1>d DEF Unfinished, DtsOK
  <2> QED BY <2>1 DEF SyncInv
<1>c. ASSUME NEW x, Covered(x) PROVE Later(x)
  BY <1>1, <1>2, <1>c, CoveredStill DEF Stepped
<1>3. d \notin sched'.choked => ms \in Wanting(sched')
  <2>1. Quiet \/ Reports(t)
    BY ThreadReports DEF QueueInv
  <2>2. d \notin sched.choked => ms \in Wanting(sched)
    BY <1>s DEF InSync
  <2> QED BY <1>n, <1>2, <1>t, <2>1, <2>2, WantingStill DEF PcInv
<1> HIDE DEF Later
<1>r. PICK s \in Seq(Nat) : s = times
  BY <1>d DEF DtsOK
<1>b. \A n \in 1..Len(s) - 1 : Later(s[n])
  BY <1>s, <1>r, <1>c DEF InSync
<1>a. pc[d] \in AtDst /\ item[d] # Null => \A n \in 1..Len(s) : Later(s[n])
  BY <1>s, <1>r, <1>c DEF InSync
\* Only d reports what becomes of its packets, and it has no other destination then.
<1>4. \/ later = s
      \/ /\ t = d /\ MuxSchedule(d) /\ pc[d] \in AtDst /\ item[d] # Null
         /\ \E x \in Nat : later = Append(s, x)
  <2>1. CASE /\ Reports(t) /\ OutputOf(t) = ms
             /\ \E x \in Nat : later = Append(times, x)
    <3>1. pc[t] = "mux_schedule" /\ dst[t] \in DOMAIN Outs(t) /\ item[t] # Null /\ MuxSchedule(t)
      BY <1>t, <2>1, ReportFacts DEF Reports
    <3>2. t = d
      BY <1>t, <1>d, <2>1, <3>1, ConnectedFacts DEF OutputOf, CopiedTo, Target, PcInv
    <3> QED BY <1>r, <2>1, <3>1, <3>2 DEF AtDst
  <2> QED BY <1>1, <1>d, <1>r, <2>1 DEF Stepped
<1>5. \A n \in 1..Len(later) - 1 : Later(later[n])
  <2>1. CASE later = s
    BY <1>b, <2>1
  <2>2. ASSUME pc[d] \in AtDst, item[d] # Null, NEW x \in Nat, later = Append(s, x)
        PROVE  \A n \in 1..Len(later) - 1 : Later(later[n])
    <3> SUFFICES ASSUME NEW n \in 1..Len(Append(s, x)) - 1 PROVE Later(Append(s, x)[n])
      BY <2>2
    <3>1. n \in 1..Len(s) /\ Append(s, x)[n] = s[n]
      BY <1>r
    <3> QED BY <1>a, <2>2, <3>1
  <2> QED BY <1>4, <2>1, <2>2
<1>6. ASSUME pc'[d] \in AtDst, item'[d] # Null PROVE \A n \in 1..Len(later) : Later(later[n])
  <2>1. CASE t # d
    <3>1. pc'[d] = pc[d] /\ item'[d] = item[d]
      BY <1>1, <1>d, <2>1 DEF Stepped
    <3> QED BY <1>4, <1>a, <1>6, <2>1, <3>1
  <2>2. CASE t = d /\ ~DemuxSend(d)
    <3>1. SendsOn(d)
      BY <2>2, DemuxSteps
    <3>2. pc[d] \in AtDst /\ item[d] # Null /\ ~MuxSchedule(d)
      BY <1>6, <3>1 DEF SendsOn
    <3> QED BY <1>4, <1>a, <3>2
  <2>3. CASE t = d /\ DemuxSend(d)
    <3>1. pc[d] = "read" /\ d \notin sched.choked
      BY <2>3 DEF DemuxSend
    <3>2. ms \in Wanting(sched)
      BY <1>s, <3>1 DEF InSync
    <3>3. later = s
      BY <1>4, <3>1 DEF AtDst
    <3>4. ASSUME NEW n \in 1..Len(s) PROVE Later(s[n])
      <4>1. CASE n = Len(s)
        <5>1. Covered(s[n])
          BY <1>r, <3>2, <3>4, <4>1, WantingCovered
        <5> QED BY <1>c, <5>1
      <4>2. CASE n # Len(s)
        BY <1>b, <1>r, <4>2
      <4> QED BY <4>1, <4>2
    <3> QED BY <3>3, <3>4
  <2> QED BY <2>1, <2>2, <2>3
<1> QED BY <1>n, <1>3, <1>5, <1>6 DEF InSync, Wanting, Trailing, Unfinished, Covered, Later

-----------------------------------------------------------------------------
(***************************************************************************)
(* The invariant behind the schedule.                                      *)
(***************************************************************************)
DtsInv == DtsOK(sched)

SInv == PlaceInv /\ GraphInv /\ ItemInv /\ DtsInv /\ SyncInv

LEMMA InitSchedules == Init => SInv
<1> SUFFICES ASSUME Init PROVE SInv
  OBVIOUS
<1>n. net \in Nets
  BY DEF Init
<1>s. /\ sched.dts = [ms \in MuxStreams |-> NoPts] /\ sched.reported = [ms \in MuxStreams |-> <<>>]
      /\ sched.best = [f \in Of("flt") |-> 0]
  BY DEF Init, InitialSchedule
<1>t. \A t \in Tasks : item[t] = Null /\ pc[t] \in {"read", "none", "receive"}
  BY DEF Init
<1>1. PlaceInv
  BY <1>t DEF PlaceInv, Muxing, Flushing
<1>2. GraphInv
  <2>1. ASSUME NEW f \in Of("flt") PROVE GraphOK(f, fg[f]) /\ 0 \in Inputs(f) /\ fg[f].out = 0
    <3>1. fg[f] = NewGraph(f, net.ends[f])
      BY DEF Init
    <3>2. 0 \in Inputs(f)
      BY <1>n, ConnectedFacts DEF Of, Inputs
    <3> QED BY <3>1, <3>2 DEF NewGraph, GraphOK, GraphFields
  <2>2. DOMAIN fg = Of("flt")
    BY DEF Init
  <2> QED BY <1>s, <2>1, <2>2 DEF GraphInv, BestOK
<1>3. DtsInv
  BY <1>s DEF DtsInv, DtsOK
<1>4. ItemInv
  <2>1. DOMAIN item = Tasks /\ DOMAIN pos = Of("demux")
    BY DEF Init
  <2>2. ASSUME NEW e \in Of("enc") PROVE queue[e].items = <<>>
    BY DEF Init, NewQueue, Of
  <2>3. <<>> \in Seq(Frames)
    OBVIOUS
  <2>4. \A e \in Of("enc") : queue[e].items \in Seq(Frames)
    BY <2>2, <2>3
  <2> QED BY <1>t, <2>1, <2>4 DEF ItemInv, Of
<1>5. SyncInv
  <2> SUFFICES ASSUME NEW d \in Of("demux"), Copies(d), CopiedTo(d) \in Unfinished(sched) PROVE InSync(d)
    BY DEF SyncInv
  <2>1. item[d] = Null /\ CopiedTo(d) \in MuxStreams
    BY <1>t, <1>n, CopyFeeds DEF Of
  <2>2. sched.dts[CopiedTo(d)] = NoPts /\ sched.reported[CopiedTo(d)] = <<>>
    BY <1>s, <2>1
  <2>3. Trailing(sched) = NoPts
    BY <2>2 DEF Trailing
  <2>4. CopiedTo(d) \in Wanting(sched)
    BY <2>2, <2>3 DEF Wanting
  <2>5. 1..Len(sched.reported[CopiedTo(d)]) - 1 = {}
    BY <2>2
  <2> QED BY <2>1, <2>4, <2>5 DEF InSync
<1> QED BY <1>1, <1>2, <1>3, <1>4, <1>5 DEF SInv

LEMMA ThreadSchedules ==
    ASSUME IInv, SInv, NEW t \in Threads, Working(t) \/ Scheduling(t) \/ Fail(t)
    PROVE  SInv'
<1>i. PcInv /\ QueueInv /\ PlaceInv /\ GraphInv /\ ItemInv /\ DtsOK(sched) /\ SyncInv
  BY DEF IInv, SInv, DtsInv
<1>t. t \in Tasks
  BY DEF Threads
<1>1. Stepped(t)
  BY <1>i, AllStepped
<1>2. terminate' = terminate
  <2>1. Ordinary(t) \/ StartsMux(t)
    BY <1>i, SendingOrdinary, LoopOrdinary, FilterOrdinary DEF Working, Scheduling, Sending, StartsMux
  <2>2. CASE StartsMux(t)
    BY <2>2 DEF StartsMux, EncOpen, MuxQueue, MuxFlush, MuxFlushed, MuxStarted, TaskVars
  <2> QED BY <2>1, <2>2 DEF Ordinary
<1>3. net' = net /\ DtsInv'
  BY <1>1, NetStays DEF Stepped, DtsInv, DtsOK
<1>4. PlaceInv'
  BY <1>i, PlaceKept
<1>5. GraphInv'
  <2>1. GraphStep(t) /\ (Quiet \/ Reports(t))
    BY <1>i, GraphSteps, ThreadReports DEF ItemInv, QueueInv
  <2> QED BY <1>i, <1>t, <1>3, <2>1, GraphInvKept DEF QueueInv
<1>6. ItemInv'
  BY <1>i, <1>3, ItemInvKept
<1>7. SyncInv'
  BY <1>i, <1>2, SyncInvKept
<1> QED BY <1>3, <1>4, <1>5, <1>6, <1>7 DEF SInv

\* The main thread sends nothing, and does not choke more before it asks everybody to
\* terminate.
Still ==
    /\ UNCHANGED <<net, pc, item, dst, pos, fg>>
    /\ \A e \in Of("enc") : queue'[e].items = queue[e].items
    /\ sched'.dts = sched.dts /\ sched'.reported = sched.reported /\ sched'.best = sched.best
    /\ sched.finished \subseteq sched'.finished
    /\ ~terminate' => ~terminate /\ Quiet

LEMMA MainStill ==
    ASSUME IInv, SInv, MainWorks \/ Cancel \/ UNCHANGED vars
    PROVE  Still
<1>i. PcInv /\ QueueInv /\ StopInv /\ GraphInv
  BY DEF IInv, SInv
<1>n. UNCHANGED <<net, pc, item, dst, pos, fg>>
  BY DEF MainWorks, Start, Wait, Cancel, StopWith, ChokeAll, Join, NotMain, SendState, vars
<1>q. \A e \in Of("enc") : e \in DOMAIN queue /\ DOMAIN queue[e] = QFields
  BY <1>i DEF QueueInv, Of
<1>0. ASSUME UNCHANGED <<queue, sched>>, terminate' \/ terminate' = terminate PROVE Still
  BY <1>0, <1>n DEF Still, Quiet
<1>1. CASE Start
  <2>1. Schedule(sched, queue) /\ terminate' = terminate
    BY <1>1 DEF Start
  <2>2. Reschedules(sched)
    BY <1>i, <2>1 DEF Reschedules, QueueInv
  <2>3. /\ sched'.dts = sched.dts /\ sched'.reported = sched.reported
        /\ sched'.best = sched.best /\ sched'.finished = sched.finished
    BY <2>2, RescheduledSched
  <2>4. Quiet
    BY <1>i, <2>2 DEF Quiet, GraphInv
  <2>5. \A e \in Of("enc") : queue'[e].items = queue[e].items
    BY <1>q, <2>1, ScheduledItems
  <2> QED BY <1>n, <2>1, <2>3, <2>4, <2>5 DEF Still
<1>2. CASE Wait \/ Cancel
  BY <1>0, <1>2 DEF Wait, Cancel, StopWith
<1>3. CASE ChokeAll
  <2>1. /\ main = "choke" /\ terminate' = terminate /\ sched' = [sched EXCEPT !.choked = Sources]
        /\ queue' = ChokeDemux(queue, Of("demux"), {})
    BY <1>3 DEF ChokeAll
  <2>2. terminate' = TRUE
    BY <1>i, <2>1 DEF StopInv
  <2>3. /\ sched'.dts = sched.dts /\ sched'.reported = sched.reported
        /\ sched'.best = sched.best /\ sched'.finished = sched.finished
    BY <1>i, <2>1 DEF QueueInv, SFields
  <2>4. ASSUME NEW e \in Of("enc") PROVE queue'[e].items = queue[e].items
    <3>1. queue'[e] = queue[e] \/ \E b : queue'[e] = Choked(queue[e], b)
      BY <1>q, <2>1 DEF ChokeDemux
    <3> QED BY <1>q, <3>1, OpsKeepItems
  <2> QED BY <1>n, <2>2, <2>3, <2>4 DEF Still
<1>4. CASE Join
  <2>1. /\ main \in DOMAIN NextKind /\ terminate' = terminate
        /\ \/ UNCHANGED <<sched, queue>>
           \/ /\ sched' = [sched EXCEPT !.finished = @ \cup {ms \in MuxStreams : ms[1] \in Unstarted}]
              /\ queue' = [t \in DOMAIN queue |->
                             IF t \in Unstarted THEN FinishQueue(queue[t], StreamsOf(queue[t])) ELSE queue[t]]
    BY <1>4 DEF Join
  <2>2. terminate' = TRUE
    BY <1>i, <2>1 DEF StopInv, NextKind
  <2>3. /\ sched'.dts = sched.dts /\ sched'.reported = sched.reported
        /\ sched'.best = sched.best /\ sched.finished \subseteq sched'.finished
    BY <1>i, <2>1 DEF QueueInv, SFields
  <2>4. ASSUME NEW e \in Of("enc") PROVE queue'[e].items = queue[e].items
    <3>1. queue'[e] = queue[e] \/ \E S : queue'[e] = FinishQueue(queue[e], S)
      BY <1>q, <2>1
    <3> QED BY <1>q, <3>1, OpsKeepItems
  <2> QED BY <1>n, <2>2, <2>3, <2>4 DEF Still
<1>5. CASE UNCHANGED vars
  BY <1>0, <1>5 DEF vars
<1> QED BY <1>1, <1>2, <1>3, <1>4, <1>5 DEF MainWorks

LEMMA StillSchedules ==
    ASSUME IInv, SInv, Still
    PROVE  SInv'
<1>i. PcInv /\ QueueInv /\ PlaceInv /\ GraphInv /\ ItemInv /\ DtsOK(sched) /\ SyncInv
  BY DEF IInv, SInv, DtsInv
<1>u. /\ UNCHANGED <<net, pc, item, dst, pos, fg>> /\ sched'.dts = sched.dts
      /\ sched'.reported = sched.reported /\ sched'.best = sched.best
  BY DEF Still
<1>n. /\ Tasks' = Tasks /\ MuxStreams' = MuxStreams /\ (\A k : Of(k)' = Of(k))
      /\ \A t : /\ Outs(t)' = Outs(t) /\ Inputs(t)' = Inputs(t) /\ NoInput(t)' = NoInput(t)
                /\ Copies(t)' = Copies(t) /\ CopiedTo(t)' = CopiedTo(t)
  BY <1>u, NetStays
<1>1. PlaceInv'
  BY <1>i, <1>u, <1>n DEF PlaceInv, Target
<1>2. GraphInv'
  BY <1>i, <1>u, <1>n DEF GraphInv, GraphOK, BestOK
<1>3. DtsInv' /\ DtsOK(sched')
  BY <1>i, <1>u, <1>n DEF DtsInv, DtsOK
<1>4. ItemInv'
  <2>1. ASSUME NEW e \in Of("enc") PROVE queue'[e].items = queue[e].items
    BY DEF Still
  <2> QED BY <1>i, <1>u, <1>n, <2>1 DEF ItemInv
<1>5. SyncInv'
  <2> SUFFICES ASSUME ~terminate', NEW d \in Of("demux"), Copies(d), CopiedTo(d) \in Unfinished(sched')
               PROVE  InSync(d)'
    BY <1>n DEF SyncInv, Unfinished
  <2> DEFINE ms == CopiedTo(d)
  <2>t. ~terminate /\ Quiet
    BY DEF Still
  <2>1. ms \in Unfinished(sched) /\ InSync(d)
    <3>1. ms \in Unfinished(sched)
      BY <1>u DEF Unfinished, Still
    <3> QED BY <1>i, <2>t, <3>1 DEF SyncInv
  <2>2. d \notin sched'.choked => ms \in Wanting(sched')
    <3>1. d \in Tasks
      BY DEF Of
    <3>2. d \notin sched.choked => ms \in Wanting(sched)
      BY <2>1 DEF InSync
    <3> QED BY <1>i, <1>u, <1>3, <2>t, <3>1, <3>2, WantingStill DEF PcInv
  <2>3. \A x : Covered(x) => Covered(x)'
    BY <1>u DEF Covered, Unfinished, Still
  <2> QED BY <1>u, <1>n, <2>1, <2>2, <2>3 DEF InSync, Wanting, Trailing, Unfinished
<1> QED BY <1>1, <1>2, <1>3, <1>4, <1>5 DEF SInv

LEMMA Schedules == Spec => []SInv
<1>1. Init => SInv
  BY InitSchedules
<1>2. IInv /\ SInv /\ [Next]_vars => SInv'
  BY ThreadSchedules, MainStill, StillSchedules DEF Next, Stopped
<1> QED BY <1>1, <1>2, Inductive, PTL DEF Spec

-----------------------------------------------------------------------------
(***************************************************************************)
(* The theorems.                                                           *)
(***************************************************************************)
\* For every pipeline, whatever fails or is cancelled, a muxer that counts as
\* started has nothing left in its pre-muxing queues, and nothing is queued there
\* any more (mux_task_start, send_to_mux).
THEOREM PreMuxIsDrained == Spec => []PreMuxDrained
<1>1. IInv => PreMuxDrained
  BY DEF IInv, MuxInv
<1> QED BY <1>1, Inductive, PTL

\* sch_stop leaves no thread behind: those of every kind are joined, also a muxer
\* that an encoder starts while the demuxers or decoders are being joined.
THEOREM NobodyRunsOn == Spec => []NothingRunsOn
<1>1. IInv => NothingRunsOn
  BY NetFacts DEF IInv, JoinInv, PcInv, Joined, NothingRunsOn, Threads
<1> QED BY <1>1, Inductive, PTL

\* From the first join of sch_stop on, all sources are choked and all queues are
\* let go, whatever schedules are still being made.
THEOREM StopIsFinal == Spec => []StopHolds
<1>1. IInv => StopHolds
  BY DEF IInv, QueueInv
<1> QED BY <1>1, Inductive, PTL

\* The output streams are kept in sync: for every pipeline and tolerance, whatever time
\* stamps and durations the packets have and in whatever order, all that a copied
\* stream has reported but its latest time is less than the tolerance ahead of a time
\* that each other unfinished stream has reported (schedule_update_locked,
\* sch_demux_send, send_to_mux).
THEOREM CopiesStayInStep == Spec => []InStep
<1>1. SInv => InStep
  BY DEF SInv, SyncInv, InSync, InStep
<1> QED BY <1>1, Schedules, PTL
=============================================================================
