----------------------------- MODULE Scheduler -----------------------------
(***************************************************************************)
(* The fftools scheduler: demuxer, decoder, filtergraph, encoder and muxer *)
(* threads connected by thread queues, and the main thread that starts     *)
(* them, waits for them and stops them.  What is connected to what is a    *)
(* value, net, so that one module covers every pipeline.                   *)
(*                                                                         *)
(* Each thread is cut where it blocks, where it takes or gives up a lock   *)
(* and where it calls tq_send or tq_receive; ThreadQueue shows that a      *)
(* sender and a receiver wait exactly while these operators say so, hence  *)
(* waiting is a guard here.  Codecs, filters and formats belong to FFmpeg: *)
(* a decoder makes a frame of a packet, an encoder a packet of a frame,    *)
(* and a filtergraph is the external part below.                           *)
(***************************************************************************)
EXTENDS ThreadQueueOps, FiniteSets, SequencesExt

CONSTANTS
    Nets,            \* the pipelines to run
    QueueSize,       \* size of every thread queue
    PreMuxMax,       \* packets a pre-muxing queue may hold
    Tolerance        \* SCHEDULE_TOLERANCE

(***************************************************************************)
(* A net has, per task t (a pair <<kind, number>>), out[t], the sequence   *)
(* of its destinations [s, to, i]: stream s of t goes to input i of task   *)
(* to; file, the packets of each demuxer; ends, a filtergraph's number of  *)
(* inputs, yield, the frames it makes of one round of input frames, and    *)
(* accept, how many frames it takes from an input; take, how many frames   *)
(* an encoder encodes before its recording time is over; limit, how many   *)
(* packets the muxer takes of a stream; expect, what should be written of  *)
(* it; mayFail, the tasks that can end with an error; and mayCancel,       *)
(* whether the session may be cancelled.                                   *)
(***************************************************************************)
Kinds == {"demux", "dec", "flt", "enc", "mux"}

\* What a task of each kind may send to; filtergraphs that feed filtergraphs,
\* decoders that feed subtitle encoders and encoders that feed loopback decoders
\* are left out.
Receivers ==
    [demux |-> {"dec", "mux"}, dec |-> {"flt"}, flt |-> {"enc"}, enc |-> {"mux"}, mux |-> {}]

ASSUME NetsAssumption ==
    \A n \in Nets :
        /\ DOMAIN n.out \subseteq Kinds \X Nat
        /\ \A t \in DOMAIN n.out :
               /\ n.out[t] \in Seq([s : Nat, to : DOMAIN n.out, i : Nat])
               /\ \A k \in DOMAIN n.out[t] : n.out[t][k].to[1] \in Receivers[t[1]]
               /\ t[1] = "enc" => n.out[t] # <<>>

\* sch_connect gives an input one source; start_prepare refuses a net in which an
\* input has none. A filtergraph has inputs: internal sources are left out.
ASSUME ConnectedAssumption ==
    \A n \in Nets : \A t \in DOMAIN n.out :
        /\ \A k \in DOMAIN n.out[t] : \A u \in DOMAIN n.out : \A j \in DOMAIN n.out[u] :
               n.out[u][j].to = n.out[t][k].to /\ n.out[u][j].i = n.out[t][k].i => u = t /\ j = k
        /\ \A k \in DOMAIN n.out[t] : n.out[t][k].to[1] \in {"dec", "enc"} => n.out[t][k].i = 0
        /\ t[1] = "flt" => n.ends[t] \in Nat \ {0}
        /\ \A i \in CASE t[1] = "flt" -> 0..n.ends[t] - 1
                       [] t[1] \in {"dec", "enc"} -> {0}
                       [] OTHER -> {} :
               \E u \in DOMAIN n.out : \E k \in DOMAIN n.out[u] : n.out[u][k].to = t /\ n.out[u][k].i = i

\* A packet has a stream, a time stamp or none, a duration, and whether it is past
\* the recording time of its file. Time stamps come in any order, and since they
\* are only compared they are counted from the earliest.
NoPts == -1
Packets == [s : Nat, dts : Nat \cup {NoPts}, dur : Nat, past : BOOLEAN]
ASSUME FilesAssumption ==
    \A n \in Nets : \A d \in {t \in DOMAIN n.out : t[1] = "demux"} : n.file[d] \in Seq(Packets)

ASSUME ToleranceAssumption == Tolerance \in Nat \ {0}

VARIABLES
    net,
    queue,           \* per task but the demuxers: its input queue
    pc,              \* per task: where it is
    item,            \* per task: what it sends, <<>> for the end (NULL)
    dst,             \* per task: the destination it is at
    eof,             \* per task: the destination is being told the end
    done,            \* per task: destinations told the end (dst_finished)
    failing,         \* tasks whose function returned an error
    pos,             \* per demuxer: packets read
    fg,              \* per filtergraph: its thread's state and the graph's
    opened,          \* encoders that are open
    mux,             \* per muxer: started, streams ready, pre-mux queues, init_eof
    lock,            \* who holds mux_ready_lock, <<>> when free
    sched,           \* what schedule_lock protects, and every time reported under it
    main,            \* where the main thread is, a kind of task while it joins them
    cancelled,       \* it has left its loop because of the session's cancellation
    terminate, taskFailed, muxDone,
    written          \* per muxer and stream: packets handed to the format

vars == <<net, queue, pc, item, dst, eof, done, failing, pos, fg, opened, mux,
          lock, sched, main, cancelled, terminate, taskFailed, muxDone, written>>

\* What is sent: a packet <<dts, duration>>, a frame for an encoder <<number>>, any
\* other frame, the EOF frame of a decoder, a frame that only opens an encoder, NULL.
Frame == <<0>>
End   == <<-1>>
Dummy == <<-2>>
Null  == <<>>

Tasks   == DOMAIN net.out
Of(kind) == {t \in Tasks : t[1] = kind}
Outs(t) == net.out[t]
Sources == {t \in Tasks : t[1] \in {"demux", "flt"}}

\* The inputs of a task and what feeds them.
Inputs(t) ==
    CASE t[1] = "flt" -> 0..net.ends[t] - 1
      [] t[1] = "mux" -> {o.i : o \in {o \in UNION {Range(Outs(u)) : u \in Tasks} : o.to = t}}
      [] OTHER        -> {0}
Source(t, i) == CHOOSE u \in Tasks : \E o \in Range(Outs(u)) : o.to = t /\ o.i = i

MuxStreams == UNION {{<<m, i>> : i \in Inputs(m)} : m \in Of("mux")}

-----------------------------------------------------------------------------
(***************************************************************************)
(* The schedule: which demuxers and filtergraphs are choked.               *)
(***************************************************************************)
\* The control stream of a filtergraph's queue, and "no input in particular".
NoInput(f) == net.ends[f]

Unfinished(sc) == DOMAIN sc.dts \ sc.finished

\* trailing_dts
Trailing(sc) ==
    LET d == {sc.dts[ms] : ms \in Unfinished(sc)}
    IN  IF d = {} \/ NoPts \in d THEN NoPts ELSE Lowest(d)

\* A demuxer's stream and a decoder's output are followed to their first
\* destination alone.
FirstOuts(t) ==
    {Outs(t)[k] : k \in {k \in DOMAIN Outs(t) : \A j \in 1..k - 1 : Outs(t)[j].s # Outs(t)[k].s}}

\* unchoke_for_stream: up from a task to the demuxer or the filtergraph, one that
\* asked for no input, that decides when it goes on.
SourceOf(sc) ==
    LET up[t \in Tasks \ Of("mux")] ==
            CASE t[1] = "demux" -> t
              [] t[1] = "flt"   -> IF sc.best[t] = NoInput(t) THEN t ELSE up[Source(t, sc.best[t])]
              [] OTHER -> up[Source(t, 0)]
    IN  up

\* unchoke_downstream: the filtergraphs a demuxer pushes data to.
GraphsBelow ==
    LET down[t \in Tasks] ==
            IF t[1] = "flt" THEN {t} ELSE UNION {down[o.to] : o \in FirstOuts(t)}
    IN  down

\* The two call each other until nothing is added: what is in every set of sources
\* that includes S and, with a demuxer, what unchoke_downstream unchokes for it.
WithDownstream(sc, S) ==
    LET up        == SourceOf(sc)
        down      == GraphsBelow
        Closed(T) == \A d \in T \cap Of("demux") : \A f \in down[d] : up[f] \in T
    IN  {t \in Sources : \A T \in SUBSET Sources : S \subseteq T /\ Closed(T) => t \in T}

\* Output streams whose source may go on.
WantingOneMore(sc) ==                                          \* mutant
    LET d == Trailing(sc)
    IN  {ms \in Unfinished(sc) : IF d = NoPts THEN sc.dts[ms] = NoPts ELSE sc.dts[ms] - d <= Tolerance}
Wanting(sc) ==
    LET d == Trailing(sc)
    IN  {ms \in Unfinished(sc) : IF d = NoPts THEN sc.dts[ms] = NoPts ELSE sc.dts[ms] - d < Tolerance}

\* Filtergraph inputs that are closed and whose source has yet to see it.
Closing(sc) ==
    {fi \in UNION {{<<f, i>> : i \in Inputs(f)} : f \in Of("flt")} : fi \in sc.recvd /\ fi \notin sc.sent}

\* When no output wants anything, one source that has not exited may go on.
AtLeastOne(sc) ==
    LET left(kind) == {n \in 1..Cardinality(Of(kind)) : <<kind, n>> \notin sc.exited}
    IN  CASE left("demux") # {} -> {<<"demux", Lowest(left("demux"))>>}
          [] left("demux") = {} /\ left("flt") # {} -> {<<"flt", Lowest(left("flt"))>>}
          [] OTHER -> {}

Unchoked(sc) ==
    LET up     == SourceOf(sc)
        wanted == {up[Source(x[1], x[2])] : x \in Wanting(sc) \cup Closing(sc)}
    IN  WithDownstream(sc, wanted) \cup IF Wanting(sc) = {} THEN AtLeastOne(sc) ELSE {}

\* choke_demux, for the demuxers D, of which those in C are choked: a decoder is
\* frozen with its demuxer if it is the first destination of the stream.
Freezes(d, t) == t[1] = "dec" /\ \E o \in FirstOuts(d) : o.to = t
ChokeDemux(q, D, C) ==
    [t \in DOMAIN q |-> IF \E d \in D : Freezes(d, t)
                        THEN Choked(q[t], \E d \in C : Freezes(d, t)) ELSE q[t]]

\* schedule_update_locked, on the schedule sc and the queues q: nothing changes
\* once the main thread has asked everybody to terminate.
ScheduleAlways(sc, q) ==                                       \* mutant
    \E next \in {Sources \ Unchoked(sc)} :
        LET changed == (next \ sched.choked) \cup (sched.choked \ next)
        IN  /\ sched' = [sc EXCEPT !.choked = next]
            /\ queue' = ChokeDemux(q, changed \cap Of("demux"), next \cap Of("demux"))
Schedule(sc, q) ==
    IF terminate
    THEN sched' = sc /\ queue' = q
    ELSE \E next \in {Sources \ Unchoked(sc)} :
           LET changed == (next \ sched.choked) \cup (sched.choked \ next)
           IN  /\ sched' = [sc EXCEPT !.choked = next]
               /\ queue' = ChokeDemux(q, changed \cap Of("demux"), next \cap Of("demux"))

-----------------------------------------------------------------------------
(***************************************************************************)
(* External: what a filtergraph does.  A round takes one frame of each     *)
(* input that has not ended and makes yield frames of them, the first when *)
(* the last frame of the round is pushed, the others when they are asked   *)
(* for.                                                                    *)
(***************************************************************************)
NewGraph(f, n) ==
    [next |-> 0, seen |-> {}, configured |-> FALSE, got |-> FALSE, eofOut |-> FALSE,
     eofIn |-> {}, close |-> {}, buf |-> [i \in 0..n - 1 |-> 0], taken |-> [i \in 0..n - 1 |-> 0],
     sink |-> 0, inside |-> 0, out |-> 0]

Ended(f, g) == g.eofIn \cup {i \in Inputs(f) : g.taken[i] >= net.accept[f][i]}
RoundReady(f, g) ==
    /\ \A i \in Inputs(f) : g.buf[i] > 0 \/ i \in Ended(f, g)
    /\ \E i \in Inputs(f) : g.buf[i] > 0
Round(f, g) ==
    [g EXCEPT !.buf = [i \in Inputs(f) |-> IF @[i] > 0 THEN @[i] - 1 ELSE 0],
              !.sink = @ + 1, !.inside = @ + net.yield[f] - 1]
Push(f, g, i) ==
    LET p == [g EXCEPT !.buf[i] = @ + 1, !.taken[i] = @ + 1]
    IN  IF g.configured /\ RoundReady(f, p) THEN Round(f, p) ELSE p
\* The frames kept while the graph was not configured are pushed, those it does
\* not take are lost.
Configure(f, g) ==
    LET kept(i) == IF g.buf[i] > net.accept[f][i] THEN net.accept[f][i] ELSE g.buf[i]
        c == [g EXCEPT !.configured = TRUE, !.buf = [i \in Inputs(f) |-> kept(i)]]
    IN  IF RoundReady(f, c) THEN Round(f, c) ELSE c
HasMore(f, g) == g.inside > 0 \/ RoundReady(f, g)
Request(f, g) == IF g.inside > 0 THEN [g EXCEPT !.inside = @ - 1, !.sink = @ + 1] ELSE Round(f, g)
Starved(f, g) == {i \in Inputs(f) : g.buf[i] = 0 /\ i \notin Ended(f, g)}

-----------------------------------------------------------------------------
InitialSchedule ==
    [dts |-> [ms \in MuxStreams |-> NoPts], reported |-> [ms \in MuxStreams |-> <<>>],
     finished |-> {}, recvd |-> {}, sent |-> {}, best |-> [f \in Of("flt") |-> 0],
     exited |-> {}, choked |-> {}]

\* Streams that are copied are ready before sch_start.
CopiedStreams(m) == {i \in Inputs(m) : Source(m, i)[1] = "demux"}

\* sch_start: the muxers that are ready, the encoders, filtergraphs, decoders and
\* demuxers are started; the first update of the schedule comes after them.
Init ==
    /\ net \in Nets
    /\ queue = [t \in Tasks \ Of("demux") |->
                  NewQueue(Cardinality(Inputs(t)) + (IF t[1] = "flt" THEN 1 ELSE 0), QueueSize)]
    /\ pc = [t \in Tasks |-> IF t[1] = "demux" THEN "read"
                             ELSE IF t[1] = "mux" /\ CopiedStreams(t) # Inputs(t) THEN "none" ELSE "receive"]
    /\ item = [t \in Tasks |-> Null] /\ dst = [t \in Tasks |-> 0] /\ eof = [t \in Tasks |-> FALSE]
    /\ done = [t \in Tasks |-> {}]
    /\ failing = {}
    /\ pos = [d \in Of("demux") |-> 0]
    /\ fg = [f \in Of("flt") |-> NewGraph(f, net.ends[f])]
    /\ opened = {}
    /\ mux = [m \in Of("mux") |->
                [started |-> CopiedStreams(m) = Inputs(m), ready |-> CopiedStreams(m),
                 pre |-> [i \in Inputs(m) |-> <<>>], initEof |-> {}]]
    /\ lock = Null
    /\ sched = InitialSchedule
    /\ main = "starting" /\ cancelled = FALSE
    /\ terminate = FALSE /\ taskFailed = FALSE /\ muxDone = {}
    /\ written = [ms \in MuxStreams |-> <<>>]

-----------------------------------------------------------------------------
(***************************************************************************)
(* Sending.  A task sends item[t] to its destinations in turn; a           *)
(* destination that returns EOF is told the end and takes no more.         *)
(***************************************************************************)
Target(t)  == Outs(t)[dst[t]]
\* A copy ends at the recording time of its file (DEMUX_SEND_STREAMCOPY_EOF): its
\* destination is told the end instead of the packet, which decoders still get.
PastEnd(t) == t[1] = "demux" /\ item[t] # Null /\ Target(t).to[1] = "mux" /\ net.file[t][pos[t]].past
Item(t)    == IF eof[t] \/ PastEnd(t) THEN Null ELSE item[t]
ItemStream(t) == IF t[1] = "demux" THEN net.file[t][pos[t]].s ELSE 0

\* The destinations still to come, of the item's stream or, at the end, of all.
Coming(t, from, fin) ==
    {k \in DOMAIN Outs(t) : k > from /\ k \notin fin /\ (item[t] = Null \/ Outs(t)[k].s = ItemStream(t))}

\* A thread that has sent its NULLs has only its report left, if it failed, and the
\* schedule without it, if it is a source.
Leaving(t) == IF t \in Sources \cup failing THEN "exit" ELSE "exited"

\* What a task does when the item has gone to all its destinations: it goes back
\* to its loop, or ends it when nobody is left to send to.
After(t, fin) ==
    CASE item[t] = Null                     -> Leaving(t)
      [] item[t] # Null /\ t[1] = "flt"     -> IF item[t] = Dummy THEN "finish" ELSE "reap"
      [] item[t] # Null /\ t[1] = "enc"     -> "receive"
      [] item[t] = End                -> "done"
      [] OTHER -> IF fin = DOMAIN Outs(t) THEN "done" ELSE IF t[1] = "demux" THEN "read" ELSE "receive"

\* On to the next destination after the one at from; fin are the finished ones.
Advance(t, from, fin) ==
    LET coming == Coming(t, from, fin)
    IN  /\ done' = [done EXCEPT ![t] = fin]
        /\ eof' = [eof EXCEPT ![t] = FALSE]
        /\ dst' = [dst EXCEPT ![t] = IF coming = {} THEN 0 ELSE Lowest(coming)]
        /\ pc'  = [pc EXCEPT ![t] = IF coming = {} THEN After(t, fin) ELSE "send"]

\* A task begins to send x.
StartSending(t, x) ==
    LET coming == {k \in DOMAIN Outs(t) : k \notin done[t]
                      /\ (x = Null \/ t[1] # "demux" \/ Outs(t)[k].s = net.file[t][pos'[t]].s)}
    IN  /\ item' = [item EXCEPT ![t] = x]
        /\ eof' = [eof EXCEPT ![t] = FALSE]
        /\ dst' = [dst EXCEPT ![t] = IF coming = {} THEN 0 ELSE Lowest(coming)]
        /\ pc'  = [pc EXCEPT ![t] = CASE coming # {} -> "send"
                                      [] coming = {} /\ x = Null -> Leaving(t)
                                      [] coming = {} /\ x = End -> "done"
                                      [] OTHER -> "receive"]

TaskVars  == <<net, failing, pos, opened, main, cancelled, terminate, taskFailed, muxDone, written>>
SendState == <<item, dst, eof, done>>

Fails(t) ==
    /\ failing' = failing \cup {t}
    /\ pc' = [pc EXCEPT ![t] = "done"]

\* tq_send to a decoder, a filtergraph or an open encoder.
SendItem(t) ==
    LET o == Target(t) IN
    /\ pc[t] = "send" /\ Item(t) # Null /\ o.to[1] # "mux"
    /\ o.to[1] = "enc" => o.to \in opened /\ item[t] # Dummy
    /\ o.i \notin queue[o.to].recvd /\ ~Full(queue[o.to])
    /\ queue' = [queue EXCEPT ![o.to] = Write(@, o.i, item[t])]
    /\ Advance(t, dst[t], done[t])
    /\ UNCHANGED <<TaskVars, item, fg, mux, lock, sched>>

\* ... whose receiver is gone: it is told the end.
SendEnded(t) ==
    LET o == Target(t) IN
    /\ pc[t] = "send" /\ Item(t) # Null /\ o.to[1] # "mux"
    /\ o.to[1] = "enc" => o.to \in opened /\ item[t] # Dummy
    /\ o.i \in queue[o.to].recvd
    /\ queue' = [queue EXCEPT ![o.to] = SendEnds(@, o.i)]
    /\ eof' = [eof EXCEPT ![t] = TRUE]
    /\ fg' = IF t[1] = "flt" THEN [fg EXCEPT ![t].eofOut = TRUE] ELSE fg
    /\ UNCHANGED <<TaskVars, pc, item, dst, done, mux, lock, sched>>

\* NULL to a decoder or an encoder: tq_send_finish.
SendFinish(t) ==
    LET o == Target(t) IN
    /\ pc[t] = "send" /\ Item(t) = Null /\ o.to[1] \in {"dec", "enc"}
    /\ queue' = [queue EXCEPT ![o.to] = SendFinished(@, o.i)]
    /\ Advance(t, dst[t], done[t] \cup {dst[t]})
    /\ UNCHANGED <<TaskVars, item, fg, mux, lock, sched>>

\* NULL to a filtergraph: send_to_filter, with the control stream closed after
\* the last input.
SendFilterFinish(t) ==
    LET o    == Target(t)
        f    == o.to
        sc   == [sched EXCEPT !.sent = @ \cup {<<f, o.i>>}]
        last == \A i \in Inputs(f) : <<f, i>> \in sc.sent
        q    == SendFinished(queue[f], o.i)
    IN
    /\ pc[t] = "send" /\ Item(t) = Null /\ f[1] = "flt"
    /\ IF <<f, o.i>> \in sched.sent
       THEN UNCHANGED <<sched, queue>>
       ELSE Schedule(sc, [queue EXCEPT ![f] = IF last THEN SendFinished(q, NoInput(f)) ELSE q])
    /\ Advance(t, dst[t], done[t] \cup {dst[t]})
    /\ UNCHANGED <<TaskVars, item, fg, mux, lock>>

-----------------------------------------------------------------------------
(***************************************************************************)
(* send_to_mux, by the demuxers and encoders.                              *)
(***************************************************************************)
\* The first look at mux_started is made without the lock; once it is set it
\* stays so, and the packet goes to the muxer's queue (MuxSend).
MuxCheck(t) ==
    /\ pc[t] = "send" /\ Target(t).to[1] = "mux" /\ ~mux[Target(t).to].started
    /\ pc' = [pc EXCEPT ![t] = "mux_lock"]
    /\ UNCHANGED <<TaskVars, SendState, queue, fg, mux, lock, sched>>

\* Under mux_ready_lock it is made again, and the packet or NULL is queued.
MuxQueueUnchecked(t) ==                                        \* mutant
    LET o == Target(t) IN
    /\ pc[t] = "mux_lock" /\ lock = Null
    /\ mux' = [mux EXCEPT ![o.to].pre[o.i] = Append(@, Item(t))]
    /\ pc' = [pc EXCEPT ![t] = "mux_schedule"]
    /\ UNCHANGED <<TaskVars, SendState, queue, fg, lock, sched>>
MuxQueueUnlocked(t) ==                                         \* mutant
    LET o == Target(t)
        m == mux[o.to]
    IN
    /\ pc[t] = "mux_lock"
    /\ m.started \/ Len(m.pre[o.i]) < PreMuxMax
    /\ mux' = IF m.started THEN mux ELSE [mux EXCEPT ![o.to].pre[o.i] = Append(@, Item(t))]
    /\ pc' = [pc EXCEPT ![t] = IF m.started THEN "send" ELSE "mux_schedule"]
    /\ UNCHANGED <<TaskVars, SendState, queue, fg, lock, sched>>
MuxQueue(t) ==
    LET o == Target(t)
        m == mux[o.to]
    IN
    /\ pc[t] = "mux_lock" /\ lock = Null
    /\ m.started \/ Len(m.pre[o.i]) < PreMuxMax
    /\ mux' = IF m.started THEN mux ELSE [mux EXCEPT ![o.to].pre[o.i] = Append(@, Item(t))]
    /\ pc' = [pc EXCEPT ![t] = IF m.started THEN "send" ELSE "mux_schedule"]
    /\ UNCHANGED <<TaskVars, SendState, queue, fg, lock, sched>>

\* "Too many packets buffered for output stream": an error, or at the end of the
\* stream one that nobody reports.
MuxQueueFull(t) ==
    LET o == Target(t) IN
    /\ pc[t] = "mux_lock" /\ lock = Null
    /\ ~mux[o.to].started /\ Len(mux[o.to].pre[o.i]) >= PreMuxMax
    /\ IF Item(t) = Null
       THEN Advance(t, dst[t], done[t] \cup {dst[t]}) /\ UNCHANGED failing
       ELSE Fails(t) /\ UNCHANGED <<dst, eof, done>>
    /\ UNCHANGED <<net, pos, opened, main, cancelled, terminate, taskFailed, muxDone, written,
                   item, queue, fg, mux, lock, sched>>

MuxSend(t) ==
    LET o == Target(t)
        q == queue[o.to]
    IN
    /\ pc[t] = "send" /\ o.to[1] = "mux" /\ mux[o.to].started
    /\ IF Item(t) = Null
       THEN /\ queue' = [queue EXCEPT ![o.to] = SendFinished(q, o.i)]
            /\ pc' = [pc EXCEPT ![t] = "mux_schedule"] /\ UNCHANGED eof
       ELSE IF o.i \in mux[o.to].initEof \cup q.recvd
       THEN /\ queue' = [queue EXCEPT ![o.to] = SendEnds(q, o.i)]
            /\ eof' = [eof EXCEPT ![t] = TRUE]
            /\ UNCHANGED pc
       ELSE /\ ~Full(q)
            /\ queue' = [queue EXCEPT ![o.to] = Write(q, o.i, item[t])]
            /\ pc' = [pc EXCEPT ![t] = "mux_schedule"] /\ UNCHANGED eof
    /\ UNCHANGED <<TaskVars, item, dst, done, fg, mux, lock, sched>>

\* The stream has progressed, to the end of the packet, or its source has finished:
\* a new schedule. A packet without a time stamp changes nothing.
WithTime(ms, x) == [sched EXCEPT !.dts[ms] = x, !.reported[ms] = Append(@, x)]
MuxSchedule(t) ==
    LET o  == Target(t)
        ms == <<o.to, o.i>>
    IN
    /\ pc[t] = "mux_schedule"
    /\ CASE Item(t) = Null -> Schedule([sched EXCEPT !.finished = @ \cup {ms}], queue)
         [] Item(t) # Null /\ item[t][1] = NoPts -> UNCHANGED <<sched, queue>>
         [] OTHER -> Schedule(WithTime(ms, item[t][1] + item[t][2]), queue)
    /\ Advance(t, dst[t], IF Item(t) = Null THEN done[t] \cup {dst[t]} ELSE done[t])
    /\ UNCHANGED <<TaskVars, item, fg, mux, lock>>

-----------------------------------------------------------------------------
(***************************************************************************)
(* Opening an encoder, in the filtergraph's thread: its output stream gets *)
(* ready, and the last one to be ready starts the muxer.                   *)
(***************************************************************************)
EncOpen(t) ==
    LET e == Target(t).to
        o == Outs(e)[1]
        m == o.to
    IN
    /\ pc[t] = "send" /\ Item(t) # Null /\ e[1] = "enc" /\ e \notin opened
    /\ lock = Null
    /\ mux' = [mux EXCEPT ![m].ready = @ \cup {o.i}]
    /\ IF mux'[m].ready = DOMAIN mux[m].pre
       THEN /\ lock' = t
            /\ pc' = [pc EXCEPT ![t] = "flush", ![m] = "receive"]
            /\ UNCHANGED opened
       ELSE opened' = opened \cup {e} /\ UNCHANGED <<lock, pc>>
    /\ UNCHANGED <<net, failing, pos, main, cancelled, terminate, taskFailed, muxDone, written,
                   SendState, queue, fg, sched>>

\* A frame without data has opened the encoder and goes no further.
DummySent(t) ==
    /\ pc[t] = "send" /\ item[t] = Dummy /\ Target(t).to \in opened
    /\ Advance(t, dst[t], done[t])
    /\ UNCHANGED <<TaskVars, item, queue, fg, mux, lock, sched>>

\* The stream mux_task_start flushes next: an end or a packet without a time stamp,
\* or the earliest packet.
Earliest(m) ==
    LET left == {i \in DOMAIN mux[m].pre : mux[m].pre[i] # <<>>}
        head(i) == Head(mux[m].pre[i])
        first == {i \in left : head(i) = Null \/ head(i)[1] = NoPts}
        dts(i) == head(i)[1]
    IN  IF first # {} THEN Lowest(first)
        ELSE Lowest({i \in left : \A j \in left : dts(i) <= dts(j)})
Unflushed(m) == \E i \in DOMAIN mux[m].pre : mux[m].pre[i] # <<>>

MuxFlush(t) ==
    LET m == Outs(Target(t).to)[1].to
        i == Earliest(m)
        q == queue[m]
        p == Head(mux[m].pre[i])
        popped == [mux EXCEPT ![m].pre[i] = Tail(@)]
    IN
    /\ pc[t] = "flush" /\ Unflushed(m)
    /\ \/ /\ p = Null
          /\ queue' = [queue EXCEPT ![m] = SendFinished(q, i)] /\ mux' = popped
       \/ /\ p # Null /\ i \in mux[m].initEof
          /\ mux' = popped /\ UNCHANGED queue
       \/ /\ p # Null /\ i \notin mux[m].initEof /\ i \in q.recvd
          /\ queue' = [queue EXCEPT ![m] = SendEnds(q, i)]
          /\ mux' = [popped EXCEPT ![m].initEof = @ \cup {i}]
       \/ /\ p # Null /\ i \notin mux[m].initEof \cup q.recvd /\ ~Full(q)
          /\ queue' = [queue EXCEPT ![m] = Write(q, i, p)] /\ mux' = popped
    /\ UNCHANGED <<TaskVars, pc, SendState, fg, lock, sched>>

\* Nothing is left: the loop ends, and the muxer counts as started after it.
MuxFlushed(t) ==
    /\ pc[t] = "flush" /\ ~Unflushed(Outs(Target(t).to)[1].to)
    /\ pc' = [pc EXCEPT ![t] = "flushed"]
    /\ UNCHANGED <<TaskVars, SendState, queue, fg, mux, lock, sched>>

MuxStarted(t) ==
    LET e == Target(t).to
        m == Outs(e)[1].to
    IN
    /\ pc[t] = "flushed"
    /\ mux' = [mux EXCEPT ![m].started = TRUE]
    /\ lock' = Null
    /\ opened' = opened \cup {e}
    /\ pc' = [pc EXCEPT ![t] = "send"]
    /\ UNCHANGED <<net, failing, pos, main, cancelled, terminate, taskFailed, muxDone, written,
                   SendState, queue, fg, sched>>

-----------------------------------------------------------------------------
(***************************************************************************)
(* The tasks' own loops.                                                   *)
(***************************************************************************)
Unlocked == <<mux, lock>>
MainVars == <<main, cancelled, terminate>>

\* A codec, a filter, a format or an allocation fails: the loop ends.
Fail(t) ==
    /\ t \in net.mayFail
    /\ pc[t] \in {"read", "receive"}
    /\ Fails(t)
    /\ UNCHANGED <<net, pos, opened, MainVars, taskFailed, muxDone, written, SendState, queue, fg,
                   Unlocked, sched>>

\* Packets of a stream all of whose consumers are done are skipped.
NextPacket(d) ==
    LET left == {k \in DOMAIN net.file[d] : k > pos[d] /\
                    \E j \in DOMAIN Outs(d) \ done[d] : Outs(d)[j].s = net.file[d][k].s}
    IN  IF left = {} THEN Len(net.file[d]) + 1 ELSE Lowest(left)
AtEnd(d) == NextPacket(d) > Len(net.file[d])

\* input_thread reads a packet and sends it when the demuxer is not choked.
DemuxSend(d) ==
    /\ pc[d] = "read" /\ ~AtEnd(d) /\ d \notin sched.choked
    /\ pos' = [pos EXCEPT ![d] = NextPacket(d)]
    /\ LET p == net.file[d][pos'[d]] IN StartSending(d, <<p.dts, p.dur>>)
    /\ UNCHANGED <<net, failing, opened, MainVars, taskFailed, muxDone, written, done, queue, fg,
                   Unlocked, sched>>

\* The end of the file, or AVERROR_EXIT of a waiter_wait that saw terminate.
DemuxEnd(d) ==
    /\ pc[d] = "read" /\ (AtEnd(d) \/ terminate)
    /\ StartSending(d, Null)
    /\ UNCHANGED <<TaskVars, done, queue, fg, Unlocked, sched>>

\* A receiver that waits has dropped the items of the streams it is done with,
\* which makes room for the senders.
Discard(t) ==
    LET r == Receive(queue[t]) IN
    /\ t[1] # "demux" /\ pc[t] = "receive"
    /\ r.ret = "again" /\ r.q # queue[t]
    /\ queue' = [queue EXCEPT ![t] = r.q]
    /\ UNCHANGED <<TaskVars, pc, SendState, fg, Unlocked, sched>>

\* decoder_thread: a frame of a packet, and the EOF frame at the end.
Decode(t) ==
    LET r == Receive(queue[t]) IN
    /\ t[1] = "dec" /\ pc[t] = "receive" /\ r.ret # "again"
    /\ queue' = [queue EXCEPT ![t] = r.q]
    /\ StartSending(t, IF r.ret = "item" THEN Frame ELSE End)
    /\ UNCHANGED <<TaskVars, done, fg, Unlocked, sched>>

\* encoder_thread: a packet of a frame; a frame past the recording time ends the
\* encoder, and an end that comes before the encoder was opened is an error.
Encode(t) ==
    LET r == Receive(queue[t]) IN
    /\ t[1] = "enc" /\ pc[t] = "receive" /\ r.ret # "again"
    /\ queue' = [queue EXCEPT ![t] = r.q]
    /\ IF r.ret = "item" /\ r.item[1][1] <= net.take[t]
       THEN StartSending(t, <<r.item[1][1], 1>>) /\ UNCHANGED failing
       ELSE /\ failing' = IF r.ret = "item" \/ t \in opened THEN failing ELSE failing \cup {t}
            /\ pc' = [pc EXCEPT ![t] = "done"]
            /\ UNCHANGED <<item, dst, eof>>
    /\ UNCHANGED <<net, pos, opened, MainVars, taskFailed, muxDone, written, done, fg, Unlocked, sched>>

\* muxer_thread: a packet is written, or is one too many for its stream; the end
\* of one stream is nothing to it, that of all is.
Mux(t) ==
    LET r  == Receive(queue[t])
        ms == <<t, r.stream>>
        more == r.ret = "item" /\ Len(written[ms]) < net.limit[ms]
    IN
    /\ t[1] = "mux" /\ pc[t] = "receive" /\ r.ret # "again"
    /\ queue' = [queue EXCEPT ![t] = IF r.ret = "item" /\ ~more THEN ReceiveFinished(r.q, r.stream) ELSE r.q]
    /\ written' = IF more THEN [written EXCEPT ![ms] = Append(@, r.item[1][1])] ELSE written
    /\ pc' = [pc EXCEPT ![t] = CASE r.ret = "item" /\ ~more -> "finish"
                                 [] r.ret = "eof" /\ r.stream = -1 -> "done"
                                 [] OTHER -> "receive"]
    /\ dst' = [dst EXCEPT ![t] = IF r.ret = "item" /\ ~more THEN r.stream ELSE 0]
    /\ UNCHANGED <<net, failing, pos, opened, MainVars, taskFailed, muxDone, item, eof, done, fg, Unlocked, sched>>

\* The second half of sch_mux_receive_finish.
MuxFinish(t) ==
    /\ t[1] = "mux" /\ pc[t] = "finish"
    /\ Schedule([sched EXCEPT !.finished = @ \cup {<<t, dst[t]>>}], queue)
    /\ pc' = [pc EXCEPT ![t] = "receive"] /\ dst' = [dst EXCEPT ![t] = 0]
    /\ UNCHANGED <<TaskVars, item, eof, done, fg, Unlocked>>

\* The end of a task: its input queue takes no more, and it sends NULL to all.
FinishQueue(q, S) == [q EXCEPT !.recvd = @ \cup S]
TaskDone(t) ==
    /\ t[1] # "mux" /\ pc[t] = "done"
    /\ queue' = IF t[1] = "demux" THEN queue
                ELSE [queue EXCEPT ![t] = FinishQueue(@, StreamsOf(@))]
    /\ StartSending(t, Null)
    /\ UNCHANGED <<TaskVars, done, fg, Unlocked, sched>>

\* task_wrapper returns; a source's exit makes a new schedule.
TaskExit(t) ==
    /\ t[1] # "mux" /\ pc[t] = "exit"
    /\ IF t \in Sources THEN Schedule([sched EXCEPT !.exited = @ \cup {t}], queue)
       ELSE UNCHANGED <<sched, queue>>
    /\ pc' = [pc EXCEPT ![t] = "exited"]
    /\ taskFailed' = (taskFailed \/ t \in failing)
    /\ UNCHANGED <<net, failing, pos, opened, MainVars, muxDone, written, SendState, fg, Unlocked>>

MuxDone(t) ==
    /\ t[1] = "mux" /\ pc[t] = "done"
    /\ Schedule([sched EXCEPT !.finished = @ \cup {<<t, i>> : i \in Inputs(t)}],
                [queue EXCEPT ![t] = FinishQueue(@, StreamsOf(@))])
    /\ pc' = [pc EXCEPT ![t] = "exit"]
    /\ UNCHANGED <<TaskVars, SendState, fg, Unlocked>>
MuxExit(t) ==
    /\ t[1] = "mux" /\ pc[t] = "exit"
    /\ muxDone' = muxDone \cup {t}
    /\ pc' = [pc EXCEPT ![t] = "exited"]
    /\ taskFailed' = (taskFailed \/ t \in failing)
    /\ UNCHANGED <<net, failing, pos, opened, MainVars, written, SendState, queue, fg, Unlocked, sched>>

-----------------------------------------------------------------------------
(***************************************************************************)
(* filter_thread.                                                          *)
(***************************************************************************)
FgVars == <<net, failing, pos, opened, MainVars, taskFailed, muxDone, written>>

\* sch_filter_receive: the input wanted has changed.
FilterChooses(f) ==
    /\ pc[f] = "receive" /\ fg[f].next # sched.best[f]
    /\ Schedule([sched EXCEPT !.best[f] = fg[f].next], queue)
    /\ UNCHANGED <<FgVars, pc, SendState, fg, Unlocked>>

Receives(f) == pc[f] = "receive" /\ fg[f].next = sched.best[f]

\* Nothing to take: with no input in particular wanted the thread waits until it
\* is unchoked; else it waits in tq_receive, and leaves it at the end of all.
FilterIdles(f) ==
    LET r == Receive(queue[f]) IN
    /\ Receives(f) /\ r.ret # "item"
    /\ fg[f].next # NoInput(f) => r.ret # "again"
    /\ queue' = [queue EXCEPT ![f] = r.q]
    /\ pc' = [pc EXCEPT ![f] = CASE fg[f].next = NoInput(f) -> "wait"
                                 [] fg[f].next # NoInput(f) /\ r.stream = -1 -> "finish"
                                 [] OTHER -> "receive"]
    /\ UNCHANGED <<FgVars, SendState, fg, Unlocked, sched>>

FilterWakes(f) ==
    /\ pc[f] = "wait"
    /\ \/ f \notin sched.choked /\ pc' = [pc EXCEPT ![f] = "frames"]
       \/ terminate /\ pc' = [pc EXCEPT ![f] = "finish"]
    /\ UNCHANGED <<FgVars, queue, SendState, fg, Unlocked, sched>>

AllSeen(f, g) == Inputs(f) \subseteq g.seen

\* send_frame and send_eof, with x from input i: the graph is configured when the
\* format of each input is known, by its first frame or its end.
WithFrame(f, i) ==
    LET g == [fg[f] EXCEPT !.seen = @ \cup {i}]
    IN  Push(f, IF ~g.configured /\ AllSeen(f, g) THEN Configure(f, g) ELSE g, i)
WithEnd(f, i) ==
    LET g == [fg[f] EXCEPT !.seen = @ \cup {i}, !.eofIn = @ \cup {i}]
    IN  IF ~g.configured /\ AllSeen(f, g) THEN Configure(f, g) ELSE g

FilterTakes(f) ==
    LET r == Receive(queue[f])
        g == fg[f]
        i == r.stream
        first == r.item[1] # End /\ ~g.configured /\ AllSeen(f, [g EXCEPT !.seen = @ \cup {i}])
    IN
    /\ Receives(f) /\ r.ret = "item"
    /\ LET q == [queue EXCEPT ![f] = r.q]
       IN  IF first THEN Schedule([sched EXCEPT !.best[f] = NoInput(f)], q)
           ELSE queue' = q /\ UNCHANGED sched
    /\ IF r.item[1] # End /\ g.configured /\ i \in Ended(f, g)
       THEN /\ fg' = [fg EXCEPT ![f].close = {i}]
            /\ pc' = [pc EXCEPT ![f] = "close"]
       ELSE /\ fg' = [fg EXCEPT ![f] = IF r.item[1] = End THEN WithEnd(f, i) ELSE WithFrame(f, i)]
            /\ pc' = [pc EXCEPT ![f] = "frames"]
    /\ UNCHANGED <<FgVars, SendState, Unlocked>>

\* close_input, for one input after another.
FilterCloses(f) ==
    LET i    == Lowest(fg[f].close)
        sc   == [sched EXCEPT !.recvd = @ \cup {<<f, i>>}]
        last == \A j \in Inputs(f) : <<f, j>> \in sc.recvd
    IN
    /\ pc[f] = "close" /\ fg[f].close # {}
    /\ IF <<f, i>> \in sched.recvd THEN UNCHANGED <<sched, queue>>
       ELSE Schedule(sc, [queue EXCEPT ![f] = FinishQueue(@, {i} \cup IF last THEN {NoInput(f)} ELSE {})])
    /\ fg' = [fg EXCEPT ![f].close = @ \ {i}]
    /\ pc' = [pc EXCEPT ![f] = IF fg[f].close = {i} THEN "receive" ELSE "close"]
    /\ UNCHANGED <<FgVars, SendState, Unlocked>>

\* read_frames returns 0 with the input to ask for next; inputs that take no more
\* are closed then.
Wants(f, g) ==
    LET shut == IF g.configured THEN {i \in Ended(f, g) : <<f, i>> \notin sched.recvd} ELSE {}
    IN  /\ fg' = [fg EXCEPT ![f] = [g EXCEPT !.close = shut]]
        /\ pc' = [pc EXCEPT ![f] = IF shut = {} THEN "receive" ELSE "close"]

\* read_frames. All frames in the sink are sent in one call of it, "reap" once the
\* first is, and dropped when the output has been told the end, which only the next
\* call looks at; then the graph is asked for more.
FilterFrames(f) ==
    LET g == fg[f]
        h == IF g.eofOut THEN [g EXCEPT !.sink = 0] ELSE g
        calls == g.configured /\ (g.eofOut => pc[f] = "reap")
    IN
    /\ pc[f] \in {"frames", "reap"}
    /\ \/ /\ ~g.configured
          /\ Wants(f, [g EXCEPT !.next = Lowest(Inputs(f) \ (g.seen \cup g.eofIn))])
          /\ UNCHANGED SendState
       \/ /\ calls /\ h.sink > 0
          /\ fg' = [fg EXCEPT ![f] = [g EXCEPT !.sink = @ - 1, !.out = @ + 1, !.got = TRUE]]
          /\ StartSending(f, <<g.out + 1>>) /\ UNCHANGED done
       \/ /\ calls /\ h.sink = 0 /\ HasMore(f, h)
          /\ Wants(f, [Request(f, h) EXCEPT !.next = NoInput(f)])
          /\ UNCHANGED SendState
       \/ /\ calls /\ h.sink = 0 /\ ~HasMore(f, h)
          /\ \E i \in Starved(f, h) : Wants(f, [h EXCEPT !.next = i])
          /\ UNCHANGED SendState
       \/ /\ g.configured
          /\ calls => h.sink = 0 /\ ~HasMore(f, h) /\ Starved(f, h) = {}
          /\ pc' = [pc EXCEPT ![f] = "finish"]
          /\ UNCHANGED <<SendState, fg>>
    /\ UNCHANGED <<FgVars, queue, Unlocked, sched>>

\* close_output: an encoder that never got a frame is opened with an empty one,
\* then told the end.
FilterFinishes(f) ==
    LET g == fg[f]
        e == Outs(f)[1].to
        open == g.configured /\ ~g.eofOut
    IN
    /\ pc[f] = "finish"
    /\ IF open /\ ~g.got
       THEN /\ StartSending(f, Dummy)
            /\ fg' = [fg EXCEPT ![f].got = TRUE]
            /\ UNCHANGED <<done, queue>>
       ELSE /\ queue' = IF open THEN [queue EXCEPT ![e] = SendFinished(@, 0)] ELSE queue
            /\ pc' = [pc EXCEPT ![f] = "done"]
            /\ UNCHANGED <<SendState, fg>>
    /\ UNCHANGED <<FgVars, Unlocked, sched>>

-----------------------------------------------------------------------------
(***************************************************************************)
(* The main thread: transcode, with sch_start's last step, sch_wait and    *)
(* sch_stop.                                                               *)
(***************************************************************************)
NotMain == <<net, pc, SendState, failing, pos, fg, opened, Unlocked, taskFailed, written>>

Start ==
    /\ main = "starting"
    /\ Schedule(sched, queue)
    /\ main' = "waiting"
    /\ UNCHANGED <<NotMain, cancelled, terminate, muxDone>>

StopWith(c) ==
    /\ main = "waiting"
    /\ main' = "choke" /\ terminate' = TRUE /\ cancelled' = c
    /\ UNCHANGED <<NotMain, muxDone, queue, sched>>
Wait   == (muxDone = Of("mux") \/ taskFailed) /\ StopWith(FALSE)
Cancel == net.mayCancel /\ StopWith(TRUE)

\* All waiters are choked, which with terminate set sends the threads home, and the
\* decoders of all demuxers are unfrozen.
ChokeAllOnly ==                                                \* mutant
    /\ main = "choke"
    /\ sched' = [sched EXCEPT !.choked = Sources]
    /\ main' = "demux"
    /\ UNCHANGED <<NotMain, cancelled, terminate, muxDone, queue>>
ChokeAll ==
    /\ main = "choke"
    /\ sched' = [sched EXCEPT !.choked = Sources]
    /\ queue' = ChokeDemux(queue, Of("demux"), {})
    /\ main' = "demux"
    /\ UNCHANGED <<NotMain, cancelled, terminate, muxDone>>

\* The tasks are joined kind by kind; mux_done is called for a muxer that never
\* started.
NextKind == [demux |-> "dec", dec |-> "flt", flt |-> "enc", enc |-> "mux", mux |-> "stopped"]
Unstarted == {m \in Of("mux") : pc[m] = "none"}
Join ==
    /\ main \in DOMAIN NextKind
    /\ \A t \in Of(main) : pc[t] \in {"exited", "none"}
    /\ main' = NextKind[main]
    /\ IF main = "mux"
       THEN /\ sched' = [sched EXCEPT !.finished = @ \cup {ms \in MuxStreams : ms[1] \in Unstarted}]
            /\ queue' = [t \in DOMAIN queue |->
                           IF t \in Unstarted THEN FinishQueue(queue[t], StreamsOf(queue[t])) ELSE queue[t]]
            /\ muxDone' = muxDone \cup Unstarted
       ELSE UNCHANGED <<sched, queue, muxDone>>
    /\ UNCHANGED <<NotMain, cancelled, terminate>>

-----------------------------------------------------------------------------
Sending(t) ==
    \/ SendItem(t) \/ SendEnded(t) \/ SendFinish(t)
    \/ MuxCheck(t) \/ MuxQueue(t) \/ MuxQueueFull(t) \/ MuxSend(t)
    \/ EncOpen(t) \/ DummySent(t) \/ MuxFlush(t) \/ MuxFlushed(t) \/ MuxStarted(t)
Filter(f) ==
    \/ FilterIdles(f) \/ FilterWakes(f) \/ FilterFrames(f) \/ FilterFinishes(f)

\* The steps of a thread outside schedule_lock, and those that hold it.
Working(t) ==
    \/ Sending(t)
    \/ t[1] = "demux" /\ (DemuxSend(t) \/ DemuxEnd(t))
    \/ Discard(t) \/ Decode(t) \/ Encode(t) \/ Mux(t)
    \/ t[1] = "flt" /\ Filter(t)
    \/ TaskDone(t) \/ MuxExit(t)
Scheduling(t) ==
    \/ SendFilterFinish(t) \/ MuxSchedule(t) \/ MuxFinish(t)
    \/ t[1] = "flt" /\ (FilterChooses(t) \/ FilterTakes(t) \/ FilterCloses(t))
    \/ TaskExit(t) \/ MuxDone(t)
\* Threads that have been created and have not returned.
Threads == {t \in Tasks : pc[t] \notin {"none", "exited"}}
MainWorks == Start \/ Wait \/ ChokeAll \/ Join

Stopped == main = "stopped" /\ UNCHANGED vars

Next ==
    \/ \E t \in Threads : Working(t) \/ Scheduling(t) \/ Fail(t)
    \/ MainWorks \/ Cancel
    \/ Stopped

Spec == Init /\ [][Next]_vars

\* Some thread that can go on does, and the main thread's wait times out: less than
\* what a fair scheduling of the threads gives.  Nothing obliges a task to fail or
\* the user to cancel.
Progress ==
    \/ \E t \in Threads : Working(t)
    \/ \E t \in Threads : Scheduling(t)
    \/ MainWorks
LiveSpec == Spec /\ WF_vars(Progress)

-----------------------------------------------------------------------------
(***************************************************************************)
(* The pipeline writes what it should: every output stream grows by the    *)
(* packets expected of it in their order, none lost, doubled or reordered, *)
(* through queues, pre-muxing queues and the start of a muxer; and a       *)
(* transcode that ends without a failure or a cancellation has written     *)
(* them all.                                                               *)
(***************************************************************************)
Status ==
    CASE main # "stopped" -> "running"
      [] main = "stopped" /\ (cancelled \/ taskFailed) -> "aborted"
      [] OTHER -> "done"
Promise == INSTANCE Transcode WITH expect <- net.expect, status <- Status
ImplementsTranscode == Promise!Spec

(***************************************************************************)
(* A started muxer has nothing left in its pre-muxing queues: a packet     *)
(* queued there after the flush would never be written.  Sources look at   *)
(* mux_started without the lock and again with it.                         *)
(***************************************************************************)
PreMuxDrained == \A m \in DOMAIN mux : mux[m].started => ~Unflushed(m)

(***************************************************************************)
(* The output streams are kept in sync: whatever a stream copied from a    *)
(* demuxer with no other destination has reported, but for its latest      *)
(* packet, is less than the tolerance ahead of a time that each other      *)
(* unfinished stream has reported.  So it never gets further ahead of any  *)
(* of them than that and one packet, whatever is reported, in whatever     *)
(* order, finished, closed or left by its source meanwhile.                *)
(***************************************************************************)
Covered(x) ==
    \A u \in Unfinished(sched) :
        \E k \in DOMAIN sched.reported[u] : x - sched.reported[u][k] < Tolerance

Copies(d)   == Len(Outs(d)) = 1 /\ Outs(d)[1].to[1] = "mux"
CopiedTo(d) == <<Outs(d)[1].to, Outs(d)[1].i>>

InStep ==
    ~terminate =>
        \A d \in {d \in Of("demux") : Copies(d) /\ CopiedTo(d) \in Unfinished(sched)} :
            LET times == sched.reported[CopiedTo(d)]
            IN  \A n \in 1..Len(times) - 1 : Covered(times[n])

(***************************************************************************)
(* sch_stop leaves nothing behind: once it has joined the muxers no thread *)
(* runs, and no encoder that opens late starts a muxer behind it.          *)
(***************************************************************************)
NothingRunsOn == main = "stopped" => Threads = {}

(***************************************************************************)
(* From the moment sch_stop begins to join, every source is choked, which  *)
(* sends it home, and no decoder is frozen, so that the queues drain: a    *)
(* thread that is still making a schedule changes neither.                 *)
(***************************************************************************)
StopHolds ==
    main \in DOMAIN NextKind \cup {"stopped"} =>
        sched.choked = Sources /\ \A t \in DOMAIN queue : ~queue[t].choked

\* The end of a stream did not fit in its pre-muxing queue: send_to_mux returns
\* an error, its callers look away, and the muxer waits for that end for ever.
EndLost ==
    \E t \in Tasks : \E k \in done[t] :
        Outs(t)[k].to[1] = "mux" /\ <<Outs(t)[k].to, Outs(t)[k].i>> \notin sched.finished

(***************************************************************************)
(* Every transcode comes to its end and sch_stop joins every thread, by    *)
(* itself, after a failure or after a cancellation, wherever the threads   *)
(* are blocked then: choked, on a full or an empty queue, on the lock.     *)
(* The one thing that keeps it going is a lost end.                        *)
(***************************************************************************)
TranscodeEnds == <>(main = "stopped" \/ EndLost)

(***************************************************************************)
(* A demuxer that has been let go on gets its packet through: the          *)
(* filtergraphs downstream of it are unchoked with it ("to prevent it from *)
(* getting stuck trying to push data to a full queue").                    *)
(***************************************************************************)
NeverStuck ==
    \A d \in {t \in UNION {DOMAIN n.out : n \in Nets} : t[1] = "demux"} :
        (d \in Tasks /\ pc[d] = "send") ~> pc[d] # "send"
=============================================================================
