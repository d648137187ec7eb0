-------------------------- MODULE FFKitSessionMap --------------------------
(***************************************************************************)
(* sessionMap: how a cancel request finds an execution.  Every execution   *)
(* claims the slot its session id falls on, FFmpeg polls the slot, a       *)
(* cancel request overwrites it, and cancelAllSessions sweeps the slots    *)
(* one by one while executions come and go and shutdown begins.            *)
(***************************************************************************)
EXTENDS Integers, FiniteSets

CONSTANTS
    MapSize,     \* SESSION_MAP_SIZE
    Ids,         \* the session ids, each executed once
    Probes       \* the sessions that run ffprobe, which never looks at its slot

ASSUME MapSizeAssumption == MapSize \in Nat \ {0}
ASSUME IdsAssumption == Ids \subseteq Nat \ {0} /\ Probes \subseteq Ids

\* Whether no two sessions share a slot, which nothing in the code ensures.
OwnSlots == \A id, other \in Ids : id # other => id % MapSize # other % MapSize

VARIABLES
    sessionMap,  \* per slot: 0 idle, 1 running, 2 cancel requested
    pc,          \* where each session is
    returnCode,  \* what ffmpeg_execute or ffprobe_execute returned
    shutdown,    \* shutdownState is no longer LibraryRunning
    sweep,       \* per caller of cancelAllSessions: the slot it looks at next
    asked        \* the times of its execution a session was cancelled at

vars == <<sessionMap, pc, returnCode, shutdown, sweep, asked>>

Sweepers == {"application", "shutdown"}
Slots    == 0..MapSize - 1
FFmpegs  == Ids \ Probes
Success  == 0
Cancel   == 255

Slot(id) == id % MapSize
CancelRequested(id) == sessionMap[Slot(id)] = 2

\* A request has a time only while the session's state is Running: early before
\* the slot is claimed, live until the return code is settled.
Live == {"claimed", "executing", "finishing"}
When(id) == CASE pc[id] = "running" -> {"early"}
              [] pc[id] \in Live    -> {"live"}
              [] OTHER              -> {}

Init ==
    /\ sessionMap = [i \in Slots |-> 0]
    /\ pc = [id \in Ids |-> "created"]
    /\ returnCode = [id \in Ids |-> Success]
    /\ shutdown = FALSE
    /\ sweep = [w \in Sweepers |-> MapSize]
    /\ asked = [id \in Ids |-> {}]

-----------------------------------------------------------------------------
\* beginExecution, or a worker that claims its session: a session that comes
\* after shutdown fails without running.
Admit(id) ==
    /\ pc[id] = "created"
    /\ pc' = [pc EXCEPT ![id] = IF shutdown THEN "failed" ELSE "admitted"]
    /\ UNCHANGED <<sessionMap, returnCode, shutdown, sweep, asked>>

\* AbstractSession::startRunning.
StartRunning(id) ==
    /\ pc[id] = "admitted"
    /\ pc' = [pc EXCEPT ![id] = "running"]
    /\ UNCHANGED <<sessionMap, returnCode, shutdown, sweep, asked>>

\* registerSessionId, from executeFFmpeg and executeFFprobeToBuffer.
ClaimIfIdle(id) ==                                             \* mutant
    /\ pc[id] = "running"
    /\ sessionMap' = [sessionMap EXCEPT ![Slot(id)] = IF @ = 0 THEN 1 ELSE @]
    /\ pc' = [pc EXCEPT ![id] = IF id \in Probes THEN "executing" ELSE "claimed"]
    /\ UNCHANGED <<returnCode, shutdown, sweep, asked>>
Claim(id) ==
    /\ pc[id] = "running"
    /\ sessionMap' = [sessionMap EXCEPT ![Slot(id)] = 1]
    /\ pc' = [pc EXCEPT ![id] = IF id \in Probes THEN "executing" ELSE "claimed"]
    /\ UNCHANGED <<returnCode, shutdown, sweep, asked>>

\* executeFFmpeg looks at the shutdown once more: the sweep may have passed the
\* slot before it was claimed.
LookNoMore(id) ==                                              \* mutant
    /\ pc[id] = "claimed"
    /\ pc' = [pc EXCEPT ![id] = "executing"]
    /\ UNCHANGED <<sessionMap, returnCode, shutdown, sweep, asked>>
LookAgain(id) ==
    /\ pc[id] = "claimed"
    /\ IF shutdown
       THEN /\ sessionMap' = [sessionMap EXCEPT ![Slot(id)] = 2]
            /\ asked' = [asked EXCEPT ![id] = @ \cup When(id)]
       ELSE UNCHANGED <<sessionMap, asked>>
    /\ pc' = [pc EXCEPT ![id] = "executing"]
    /\ UNCHANGED <<returnCode, shutdown, sweep>>

\* The end of transcode(), by itself or because its loop polled a request.
Transcoded(id) ==
    /\ pc[id] = "executing" /\ id \in FFmpegs
    /\ returnCode' = [returnCode EXCEPT ![id] = IF CancelRequested(id) THEN Cancel ELSE Success]
    /\ pc' = [pc EXCEPT ![id] = "finishing"]
    /\ UNCHANGED <<sessionMap, shutdown, sweep, asked>>

\* The finish label of ffmpeg_execute, where errors before transcode() jump to.
FinishUnlooked(id) ==                                          \* mutant
    /\ pc[id] = "finishing"
    /\ pc' = [pc EXCEPT ![id] = "finished"]
    /\ UNCHANGED <<sessionMap, returnCode, shutdown, sweep, asked>>
Finish(id) ==
    /\ id \in FFmpegs /\ pc[id] \in {"executing", "finishing"}
    /\ returnCode' = [returnCode EXCEPT ![id] = IF CancelRequested(id) THEN Cancel ELSE @]
    /\ pc' = [pc EXCEPT ![id] = "finished"]
    /\ UNCHANGED <<sessionMap, shutdown, sweep, asked>>

\* ffprobe_execute returns.
Probed(id) ==
    /\ id \in Probes /\ pc[id] = "executing"
    /\ pc' = [pc EXCEPT ![id] = "finished"]
    /\ UNCHANGED <<sessionMap, returnCode, shutdown, sweep, asked>>

\* removeSession, then AbstractSession::complete.
Remove(id) ==
    /\ pc[id] = "finished"
    /\ sessionMap' = [sessionMap EXCEPT ![Slot(id)] = 0]
    /\ pc' = [pc EXCEPT ![id] = "completed"]
    /\ UNCHANGED <<returnCode, shutdown, sweep, asked>>

-----------------------------------------------------------------------------
\* cancelSession, through FFmpegKit::cancel or Session::cancel, which looks at
\* the session's state first but not under a lock.
CancelSession(id) ==
    /\ sessionMap' = [sessionMap EXCEPT ![Slot(id)] = 2]
    /\ asked' = [asked EXCEPT ![id] = @ \cup When(id)]
    /\ UNCHANGED <<pc, returnCode, shutdown, sweep>>

\* FFmpegKit::cancel with no session: cancelAllSessions begins.
CancelAll ==
    /\ sweep["application"] = MapSize
    /\ sweep' = [sweep EXCEPT !["application"] = 0]
    /\ UNCHANGED <<sessionMap, pc, returnCode, shutdown, asked>>

\* shutdown changes the state and then cancels all sessions.
ShutdownSkipsFirst ==                                          \* mutant
    /\ ~shutdown
    /\ shutdown' = TRUE
    /\ sweep' = [sweep EXCEPT !["shutdown"] = 1]
    /\ UNCHANGED <<sessionMap, pc, returnCode, asked>>
Shutdown ==
    /\ ~shutdown
    /\ shutdown' = TRUE
    /\ sweep' = [sweep EXCEPT !["shutdown"] = 0]
    /\ UNCHANGED <<sessionMap, pc, returnCode, asked>>

\* One pass of the loop of cancelAllSessions.
Sweep(w) ==
    /\ sweep[w] \in Slots
    /\ IF sessionMap[sweep[w]] = 1
       THEN /\ sessionMap' = [sessionMap EXCEPT ![sweep[w]] = 2]
            /\ asked' = [id \in Ids |->
                           asked[id] \cup IF Slot(id) = sweep[w] THEN When(id) ELSE {}]
       ELSE UNCHANGED <<sessionMap, asked>>
    /\ sweep' = [sweep EXCEPT ![w] = @ + 1]
    /\ UNCHANGED <<pc, returnCode, shutdown>>

-----------------------------------------------------------------------------
Execute(id) ==
    \/ Admit(id) \/ StartRunning(id) \/ Claim(id) \/ LookAgain(id)
    \/ Transcoded(id) \/ Finish(id) \/ Probed(id) \/ Remove(id)

Next ==
    \/ \E id \in Ids : Execute(id) \/ CancelSession(id)
    \/ CancelAll
    \/ Shutdown
    \/ \E w \in Sweepers : Sweep(w)

Spec == Init /\ [][Next]_vars

\* What the thread of an execution does next; FFmpeg itself need not end before
\* it is cancelled.
GoesOn(id) ==
    \/ StartRunning(id) \/ Claim(id) \/ LookAgain(id)
    \/ CancelRequested(id) /\ Transcoded(id)
    \/ pc[id] = "finishing" /\ Finish(id)
    \/ Remove(id)

\* Threads run.  FFmpeg may transcode forever, a live input for one, unless its
\* slot holds a request when it polls it; ffprobe may too.
Fairness ==
    /\ \A id \in Ids : WF_vars(GoesOn(id))
    /\ \A w \in Sweepers : WF_vars(Sweep(w))

LiveSpec == Spec /\ Fairness

-----------------------------------------------------------------------------
\* Every variable has its type.
TypeOK ==
    /\ sessionMap \in [Slots -> 0..2]
    /\ pc \in [Ids -> {"created", "failed", "admitted", "running", "claimed", "executing",
                       "finishing", "finished", "completed"}]
    /\ returnCode \in [Ids -> {Success, Cancel}]
    /\ shutdown \in BOOLEAN
    /\ sweep \in [Sweepers -> 0..MapSize]
    /\ asked \in [Ids -> SUBSET {"early", "live"}]

Settled(id) == pc[id] \in {"finished", "completed"}

\* A request that finds its session claimed is never lost, whichever way
\* ffmpeg_execute ends and however close to its end the request comes.
CancelIsHeard ==
    OwnSlots => \A id \in FFmpegs : Settled(id) /\ "live" \in asked[id] => returnCode[id] = Cancel

\* An execution ends as cancelled only if it was cancelled while it held its
\* slot: what is left in a slot, and requests for other sessions, do not count.
OnlyWhenAsked ==
    OwnSlots => \A id \in Ids : Settled(id) /\ returnCode[id] = Cancel => "live" \in asked[id]

\* When the sweep of shutdown is over, every FFmpeg that still executes has a
\* request, also one that claimed its slot behind the sweep.
ShutdownReachesAll ==
    OwnSlots /\ shutdown /\ sweep["shutdown"] = MapSize =>
        \A id \in FFmpegs : pc[id] = "executing" => CancelRequested(id)

\* So shutdown ends every FFmpeg execution.
ShutdownStopsFFmpeg ==
    shutdown ~> \A id \in FFmpegs : pc[id] \in {"created", "failed", "completed"}

-----------------------------------------------------------------------------
\* Session::cancel "cancels running the session" (Session.h): a session whose
\* state was Running when it was cancelled ends as cancelled.
RunningIsCancelled ==
    \A id \in FFmpegs : Settled(id) /\ asked[id] # {} => returnCode[id] = Cancel
=============================================================================
