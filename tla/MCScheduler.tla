---------------------------- MODULE MCScheduler ----------------------------
(***************************************************************************)
(* Small pipelines for Scheduler.                                          *)
(***************************************************************************)
EXTENDS Scheduler

D1 == <<"demux", 1>>  D2 == <<"demux", 2>>
C1 == <<"dec", 1>>    C2 == <<"dec", 2>>
F1 == <<"flt", 1>>    E1 == <<"enc", 1>>
M1 == <<"mux", 1>>    M2 == <<"mux", 2>>

To(s, t, i) == [s |-> s, to |-> t, i |-> i]
\* A packet as long as the step to the next one, one with a duration of its own,
\* and one past the recording time.
Pkt(s, dts)       == [s |-> s, dts |-> dts, dur |-> 1, past |-> FALSE]
Cue(s, dts, dur)  == [Pkt(s, dts) EXCEPT !.dur = dur]
Past(p)           == [p EXCEPT !.past = TRUE]
Many == 99

\* Video is decoded, filtered and encoded, audio is copied: the usual pipeline.
\* There are k packets of audio, and the muxer takes n of them.
VideoAndCopy(k, n) ==
    [out    |-> (D1 :> <<To(0, C1, 0), To(1, M1, 1)>>) @@ (C1 :> <<To(0, F1, 0)>>)
                @@ (F1 :> <<To(0, E1, 0)>>) @@ (E1 :> <<To(0, M1, 0)>>) @@ (M1 :> <<>>),
     file   |-> D1 :> <<Pkt(0, 1)>> \o [j \in 1..k |-> Pkt(1, j)],
     ends   |-> F1 :> 1, yield |-> F1 :> 1, accept |-> F1 :> (0 :> Many),
     take   |-> E1 :> Many,
     limit  |-> (<<M1, 0>> :> Many) @@ (<<M1, 1>> :> n),
     mayFail |-> {}, mayCancel |-> FALSE,
     expect |-> (<<M1, 0>> :> <<1>>) @@ (<<M1, 1>> :> [j \in 1..IF n < k THEN n ELSE k |-> j])]

\* Video alone, in n packets, of which the filtergraph takes one frame.
VideoOnly(n) ==
    [out    |-> (D1 :> <<To(0, C1, 0)>>) @@ (C1 :> <<To(0, F1, 0)>>)
                @@ (F1 :> <<To(0, E1, 0)>>) @@ (E1 :> <<To(0, M1, 0)>>) @@ (M1 :> <<>>),
     file   |-> D1 :> [j \in 1..n |-> Pkt(0, j)],
     ends   |-> F1 :> 1, yield |-> F1 :> 1, accept |-> F1 :> (0 :> 1),
     take   |-> E1 :> Many,
     limit  |-> <<M1, 0>> :> Many,
     mayFail |-> {}, mayCancel |-> FALSE,
     expect |-> <<M1, 0>> :> <<1>>]

\* Two files copied to two outputs, kept in step by the schedule alone: cues that
\* overlap, so that the first file reports 1, 4, 3 and 4, and a packet without a
\* time stamp in the second.
TwoCopies ==
    [out    |-> (D1 :> <<To(0, M1, 0)>>) @@ (D2 :> <<To(0, M2, 0)>>) @@ (M1 :> <<>>) @@ (M2 :> <<>>),
     file   |-> (D1 :> <<Cue(0, 1, 0), Cue(0, 2, 2), Cue(0, 3, 0), Cue(0, 4, 0)>>)
                @@ (D2 :> <<Cue(0, 1, 0), Cue(0, NoPts, 0), Cue(0, 3, 0)>>),
     ends   |-> <<>>, yield |-> <<>>, accept |-> <<>>, take |-> <<>>,
     limit  |-> (<<M1, 0>> :> Many) @@ (<<M2, 0>> :> Many),
     mayFail |-> {}, mayCancel |-> FALSE,
     expect |-> (<<M1, 0>> :> <<1, 2, 3, 4>>) @@ (<<M2, 0>> :> <<1, NoPts, 3>>)]

\* Two streams of a file, decoded into one filtergraph that takes one frame of the
\* second.
TwoInputs(packets) ==
    [out    |-> (D1 :> <<To(0, C1, 0), To(1, C2, 0)>>)
                @@ (C1 :> <<To(0, F1, 0)>>) @@ (C2 :> <<To(0, F1, 1)>>)
                @@ (F1 :> <<To(0, E1, 0)>>) @@ (E1 :> <<To(0, M1, 0)>>) @@ (M1 :> <<>>),
     file   |-> D1 :> packets,
     ends   |-> F1 :> 2, yield |-> F1 :> 1, accept |-> F1 :> ((0 :> Many) @@ (1 :> 1)),
     take   |-> E1 :> Many,
     limit  |-> <<M1, 0>> :> Many,
     mayFail |-> {}, mayCancel |-> FALSE,
     expect |-> <<M1, 0>> :> <<1>>]

\* A stream of n packets decoded for a graph that makes two frames of one, and a
\* late one copied.
Doubling(first, n) ==
    [out    |-> (D1 :> first \o <<To(1, M1, 1)>>) @@ (C1 :> <<To(0, F1, 0)>>)
                @@ (F1 :> <<To(0, E1, 0)>>) @@ (E1 :> <<To(0, M1, 0)>>) @@ (M1 :> <<>>),
     file   |-> D1 :> [j \in 1..n |-> Pkt(0, j)] \o <<Pkt(1, 1)>>,
     ends   |-> F1 :> 1, yield |-> F1 :> 2, accept |-> F1 :> (0 :> Many),
     take   |-> E1 :> Many,
     limit  |-> [ms \in {M1} \X (0..2) |-> Many],
     mayFail |-> {}, mayCancel |-> FALSE,
     expect |-> (<<M1, 0>> :> [j \in 1..2 * n |-> j]) @@ (<<M1, 1>> :> <<1>>)
                @@ IF Len(first) = 2 THEN <<M1, 2>> :> [j \in 1..n |-> j] ELSE <<>>]

\* A stream that is decoded, and copied up to the last packet, past the recording
\* time.
CopyEnds(packets) ==
    [out    |-> (D1 :> <<To(0, C1, 0), To(0, M1, 1)>>) @@ (C1 :> <<To(0, F1, 0)>>)
                @@ (F1 :> <<To(0, E1, 0)>>) @@ (E1 :> <<To(0, M1, 0)>>) @@ (M1 :> <<>>),
     file   |-> D1 :> packets,
     ends   |-> F1 :> 1, yield |-> F1 :> 1, accept |-> F1 :> (0 :> Many),
     take   |-> E1 :> Many,
     limit  |-> (<<M1, 0>> :> Many) @@ (<<M1, 1>> :> Many),
     mayFail |-> {}, mayCancel |-> FALSE,
     expect |-> (<<M1, 0>> :> [j \in 1..Len(packets) |-> j])
                @@ (<<M1, 1>> :> [j \in 1..Len(packets) - 1 |-> j])]

\* The graph makes more frames of one than the encoder takes, which ends after the
\* first by itself.
Taking(n, frames) == [n EXCEPT !.yield = F1 :> frames, !.take = E1 :> 1]

Failing(n, t) == [n EXCEPT !.mayFail = {t}]
Cancelled(n)  == [n EXCEPT !.mayCancel = TRUE]

SomeNets ==
    {VideoAndCopy(3, 2), Cancelled(CopyEnds(<<Past(Pkt(0, 1))>>)),
     CopyEnds(<<Pkt(0, 1), Past(Pkt(0, 2))>>),
     VideoOnly(2), Taking(VideoOnly(1), 4), Failing(VideoOnly(1), C1), Failing(TwoCopies, D2),
     TwoInputs(<<Pkt(1, 1), Pkt(0, 1)>>)}

\* The stream that is decoded is copied as well, and is so first.
SecondSink == {Doubling(<<To(0, M1, 2), To(0, C1, 0)>>, 5)}
=============================================================================
