--------------------------- MODULE FFKitLifecycle ---------------------------
(***************************************************************************)
(* The life of the library: executions, their workers and completion       *)
(* callbacks, the callbacks of the delivery loops, and the one-way         *)
(* shutdown that counts them all, gives callbacks a grace period, clears   *)
(* the session history and reports to any number of callers whether        *)
(* everything has stopped.                                                 *)
(*                                                                         *)
(* A session is executed once, and both its completion callbacks and those *)
(* of the loops are defined.  The shared counters change under             *)
(* executionMutex, so each critical section on it is one action.           *)
(***************************************************************************)
EXTENDS Integers, FiniteSets

CONSTANTS
    Sessions,      \* each is executed on a thread that asks or by a worker
    Apps,          \* application threads that call shutdown
    Loops,         \* delivery loops; each can be started when it is off
    NoOne          \* no loop, no holder of a lock

ASSUME LifecycleAssumption ==
    /\ IsFiniteSet(Sessions \cup Apps \cup Loops)
    /\ Sessions \cap Loops = {} /\ Apps \cap (Sessions \cup Loops) = {}
    /\ NoOne \notin Sessions \cup Apps \cup Loops
    /\ Loops # {}

Callers == Apps \cup Sessions \cup Loops

VARIABLES
    shutdownState, shutdownCleanupPending,
    graceOver, cleanupOver,   \* the two deadlines of shutdown have passed
    pendingExecutions, queuedExecutionCount, activeCallbacks, activeDeliveryLoops,
    pc,                       \* where each session's thread is
    history,                  \* sessions in the session history
    sessionMutex,             \* who is adding to the history
    loop,                     \* where each delivery loop is
    current,                  \* the loop of the redirection that is on
    redirectionMutex,         \* the loop that is being started
    cancelled,                \* shutdown has cancelled all sessions
    stopper,                  \* where each caller of shutdown is
    timed,                    \* its wait has a deadline
    coordinator,              \* where the finishShutdown that it started is
    hurried,                  \* which runs on its own thread and waits for nothing
    told                      \* some call of shutdown has returned true

lifecycle == <<shutdownState, shutdownCleanupPending, cancelled>>
deadlines == <<graceOver, cleanupOver>>
executions == <<pendingExecutions, queuedExecutionCount>>
sessions  == <<pc, history, sessionMutex>>
delivery  == <<loop, current, redirectionMutex>>
calls     == <<stopper, timed, told>>
finishing == <<coordinator, hurried>>
vars == <<lifecycle, deadlines, executions, activeCallbacks, activeDeliveryLoops, sessions,
          delivery, calls, finishing>>

Running == shutdownState = "LibraryRunning"

\* beginCallback: whether a callback may start now.
CompletionAdmittedLate ==                                      \* mutant
    Running \/ ~graceOver
CompletionAdmitted ==
    Running \/ (shutdownState = "LibraryTerminating" /\ ~graceOver)
DeliveryAdmitted   == Running

\* What shutdown waits for; the coordinator gives queued workers the grace too.
Quiet   == pendingExecutions = 0 /\ activeDeliveryLoops = 0 /\ activeCallbacks = 0
Stopped == ~shutdownCleanupPending /\ Quiet

\* libraryWorkDepth of a caller is positive inside callbacks.
Deep(c) == c \notin Apps

InCallback(c) ==
    \/ c \in Sessions /\ pc[c] \in {"call1", "call2"}
    \/ c \in Loops /\ loop[c] = "call"

Init ==
    /\ shutdownState = "LibraryRunning" /\ shutdownCleanupPending = FALSE /\ cancelled = FALSE
    /\ graceOver = FALSE /\ cleanupOver = FALSE
    /\ pendingExecutions = 0 /\ queuedExecutionCount = 0 /\ activeCallbacks = 0
    /\ activeDeliveryLoops = 1
    /\ pc = [s \in Sessions |-> "new"]
    /\ history = {} /\ sessionMutex = NoOne
    /\ current \in Loops
    /\ loop = [l \in Loops |-> IF l = current THEN "on" ELSE "off"]
    /\ redirectionMutex = NoOne
    /\ stopper = [c \in Callers |-> "idle"] /\ timed = [c \in Callers |-> FALSE]
    /\ coordinator = [c \in Callers |-> "none"] /\ hurried = [c \in Callers |-> FALSE]
    /\ told = FALSE

-----------------------------------------------------------------------------
Goes(s, to) == pc' = [pc EXCEPT ![s] = to]

\* addSessionToSessionHistory looks at the state and inserts under sessionMutex,
\* which shutdown does not hold when it changes the state.
CreateUnlocked(s) ==                                           \* mutant
    /\ pc[s] = "new"
    /\ Goes(s, IF Running THEN "inserting" ELSE "created")
    /\ UNCHANGED <<lifecycle, deadlines, executions, activeCallbacks, activeDeliveryLoops,
                   history, sessionMutex, delivery, calls, finishing>>
Create(s) ==
    /\ pc[s] = "new" /\ sessionMutex = NoOne
    /\ IF Running THEN sessionMutex' = s /\ Goes(s, "inserting")
                  ELSE UNCHANGED sessionMutex /\ Goes(s, "created")
    /\ UNCHANGED <<lifecycle, deadlines, executions, activeCallbacks, activeDeliveryLoops,
                   history, delivery, calls, finishing>>

Insert(s) ==
    /\ pc[s] = "inserting"
    /\ history' = history \cup {s} /\ sessionMutex' = NoOne
    /\ Goes(s, "created")
    /\ UNCHANGED <<lifecycle, deadlines, executions, activeCallbacks, activeDeliveryLoops,
                   delivery, calls, finishing>>

\* ffmpegExecute and its siblings: beginExecution or rejectSession.
Execute(s) ==
    /\ pc[s] = "created"
    /\ IF Running
       THEN pendingExecutions' = pendingExecutions + 1 /\ Goes(s, "here")
       ELSE UNCHANGED pendingExecutions /\ Goes(s, "rejected")
    /\ UNCHANGED <<lifecycle, deadlines, queuedExecutionCount, activeCallbacks,
                   activeDeliveryLoops, history, sessionMutex, delivery, calls, finishing>>

\* submitAsyncExecution.
Submit(s) ==
    /\ pc[s] = "created"
    /\ IF Running
       THEN queuedExecutionCount' = queuedExecutionCount + 1 /\ Goes(s, "queued")
       ELSE UNCHANGED queuedExecutionCount /\ Goes(s, "rejected")
    /\ UNCHANGED <<lifecycle, deadlines, pendingExecutions, activeCallbacks,
                   activeDeliveryLoops, history, sessionMutex, delivery, calls, finishing>>

\* The worker's thread cannot be created: the call throws.
SubmitFails(s) ==
    /\ pc[s] = "queued"
    /\ queuedExecutionCount' = queuedExecutionCount - 1
    /\ Goes(s, "threw")
    /\ UNCHANGED <<lifecycle, deadlines, pendingExecutions, activeCallbacks,
                   activeDeliveryLoops, history, sessionMutex, delivery, calls, finishing>>

\* The worker claims its session.  One served after the end is not counted: it
\* fails its session and calls nobody.
ClaimOnlyBeforeTheEnd(s) ==                                    \* mutant
    /\ pc[s] = "queued" /\ shutdownState # "LibraryTerminated"
    /\ queuedExecutionCount' = queuedExecutionCount - 1
    /\ pendingExecutions' = pendingExecutions + 1
    /\ Goes(s, IF Running THEN "executing" ELSE "notify1")
    /\ UNCHANGED <<lifecycle, deadlines, activeCallbacks, activeDeliveryLoops,
                   history, sessionMutex, delivery, calls, finishing>>
Claim(s) ==
    /\ pc[s] = "queued"
    /\ queuedExecutionCount' = queuedExecutionCount - 1
    /\ \/ /\ Running
          /\ pendingExecutions' = pendingExecutions + 1 /\ Goes(s, "executing")
       \/ /\ shutdownState = "LibraryTerminating"
          /\ pendingExecutions' = pendingExecutions + 1 /\ Goes(s, "notify1")
       \/ /\ shutdownState = "LibraryTerminated"
          /\ UNCHANGED pendingExecutions /\ Goes(s, "dropped")
    /\ UNCHANGED <<lifecycle, deadlines, activeCallbacks, activeDeliveryLoops,
                   history, sessionMutex, delivery, calls, finishing>>

\* FFmpeg or ffprobe returns and the session is completed or failed.  Only a
\* worker calls back.
Return(s) ==
    /\ pc[s] \in {"here", "executing"}
    /\ Goes(s, IF pc[s] = "here" THEN "ending" ELSE "notify1")
    /\ UNCHANGED <<lifecycle, deadlines, executions, activeCallbacks, activeDeliveryLoops,
                   history, sessionMutex, delivery, calls, finishing>>

\* notifyFFmpegSessionComplete and its siblings: the session's callback, then the
\* global one, each admitted by itself.
Notify(s) ==
    \E at \in {"notify1", "notify2"} :
        /\ pc[s] = at
        /\ IF CompletionAdmitted
           THEN /\ activeCallbacks' = activeCallbacks + 1
                /\ Goes(s, IF at = "notify1" THEN "call1" ELSE "call2")
           ELSE /\ UNCHANGED activeCallbacks
                /\ Goes(s, IF at = "notify1" THEN "notify2" ELSE "ending")
        /\ UNCHANGED <<lifecycle, deadlines, executions, activeDeliveryLoops,
                       history, sessionMutex, delivery, calls, finishing>>

\* endCallback, once the application's code has returned.
Notified(s) ==
    /\ pc[s] \in {"call1", "call2"} /\ stopper[s] = "idle"
    /\ activeCallbacks' = activeCallbacks - 1
    /\ Goes(s, IF pc[s] = "call1" THEN "notify2" ELSE "ending")
    /\ UNCHANGED <<lifecycle, deadlines, executions, activeDeliveryLoops,
                   history, sessionMutex, delivery, calls, finishing>>

\* endExecution.
End(s) ==
    /\ pc[s] = "ending"
    /\ pendingExecutions' = pendingExecutions - 1
    /\ Goes(s, "done")
    /\ UNCHANGED <<lifecycle, deadlines, queuedExecutionCount, activeCallbacks,
                   activeDeliveryLoops, history, sessionMutex, delivery, calls, finishing>>

-----------------------------------------------------------------------------
\* A loop calls the application back, or leaves when its redirection is over.
Call(l) ==
    /\ loop[l] = "on" /\ DeliveryAdmitted
    /\ activeCallbacks' = activeCallbacks + 1
    /\ loop' = [loop EXCEPT ![l] = "call"]
    /\ UNCHANGED <<lifecycle, deadlines, executions, activeDeliveryLoops, sessions, current,
                   redirectionMutex, calls, finishing>>

Called(l) ==
    /\ loop[l] = "call" /\ stopper[l] = "idle"
    /\ activeCallbacks' = activeCallbacks - 1
    /\ loop' = [loop EXCEPT ![l] = "on"]
    /\ UNCHANGED <<lifecycle, deadlines, executions, activeDeliveryLoops, sessions, current,
                   redirectionMutex, calls, finishing>>

Leave(l) ==
    /\ loop[l] = "on" /\ current # l
    /\ activeDeliveryLoops' = activeDeliveryLoops - 1
    /\ loop' = [loop EXCEPT ![l] = "off"]
    /\ UNCHANGED <<lifecycle, deadlines, executions, activeCallbacks, sessions, current,
                   redirectionMutex, calls, finishing>>

\* enableRedirection looks at the state, and then counts the loop it starts,
\* under redirectionMutex.
EnableLooks(l) ==
    /\ redirectionMutex = NoOne /\ current = NoOne /\ Running
    /\ loop[l] = "off"
    /\ redirectionMutex' = l
    /\ UNCHANGED <<lifecycle, deadlines, executions, activeCallbacks, activeDeliveryLoops,
                   sessions, loop, current, calls, finishing>>

EnableCounts(l) ==
    /\ redirectionMutex = l
    /\ activeDeliveryLoops' = activeDeliveryLoops + 1
    /\ loop' = [loop EXCEPT ![l] = "on"]
    /\ current' = l /\ redirectionMutex' = NoOne
    /\ UNCHANGED <<lifecycle, deadlines, executions, activeCallbacks, sessions, calls, finishing>>

\* Its thread cannot be created: the redirection stays off.
EnableFails(l) ==
    /\ redirectionMutex = l
    /\ redirectionMutex' = NoOne
    /\ UNCHANGED <<lifecycle, deadlines, executions, activeCallbacks, activeDeliveryLoops,
                   sessions, loop, current, calls, finishing>>

Disable ==
    /\ redirectionMutex = NoOne
    /\ current' = NoOne
    /\ UNCHANGED <<lifecycle, deadlines, executions, activeCallbacks, activeDeliveryLoops,
                   sessions, loop, redirectionMutex, calls, finishing>>

-----------------------------------------------------------------------------
Steps(c, to) == stopper' = [stopper EXCEPT ![c] = to]

\* shutdown is called: the first call initiates.
BeginUnlocked(c) ==                                            \* mutant
    /\ stopper[c] = "idle" /\ (c \in Apps \/ InCallback(c))
    /\ \E t \in BOOLEAN : timed' = [timed EXCEPT ![c] = t]
    /\ IF shutdownState # "LibraryTerminated"
       THEN /\ shutdownState' = "LibraryTerminating" /\ shutdownCleanupPending' = TRUE
            /\ Steps(c, "stopping")
       ELSE /\ UNCHANGED <<shutdownState, shutdownCleanupPending>>
            /\ Steps(c, "checking")
    /\ UNCHANGED <<cancelled, deadlines, executions, activeCallbacks, activeDeliveryLoops,
                   sessions, delivery, told, finishing>>
BeginUnmarked(c) ==                                            \* mutant
    /\ stopper[c] = "idle" /\ (c \in Apps \/ InCallback(c))
    /\ \E t \in BOOLEAN : timed' = [timed EXCEPT ![c] = t]
    /\ shutdownState' = IF Running THEN "LibraryTerminating" ELSE shutdownState
    /\ Steps(c, IF Running THEN "stopping" ELSE "checking")
    /\ UNCHANGED <<shutdownCleanupPending, cancelled, deadlines, executions, activeCallbacks,
                   activeDeliveryLoops, sessions, delivery, told, finishing>>
Begin(c) ==
    /\ stopper[c] = "idle" /\ (c \in Apps \/ InCallback(c))
    /\ \E t \in BOOLEAN : timed' = [timed EXCEPT ![c] = t]
    /\ IF Running
       THEN /\ shutdownState' = "LibraryTerminating" /\ shutdownCleanupPending' = TRUE
            /\ Steps(c, "stopping")
       ELSE /\ UNCHANGED <<shutdownState, shutdownCleanupPending>>
            /\ Steps(c, "checking")
    /\ UNCHANGED <<cancelled, deadlines, executions, activeCallbacks, activeDeliveryLoops,
                   sessions, delivery, told, finishing>>

\* cancelAllSessions, ffkit_stream_close_all, disableRedirection and the discard.
Stop(c) ==
    /\ stopper[c] = "stopping" /\ redirectionMutex = NoOne
    /\ cancelled' = TRUE /\ current' = NoOne
    /\ Steps(c, "spawning")
    /\ UNCHANGED <<shutdownState, shutdownCleanupPending, deadlines, executions, activeCallbacks,
                   activeDeliveryLoops, sessions, loop, redirectionMutex, timed, told, finishing>>

\* finishShutdown gets a thread, or runs here without waiting.
Spawn(c) ==
    /\ stopper[c] = "spawning"
    /\ coordinator' = [coordinator EXCEPT ![c] = "grace"]
    /\ \/ UNCHANGED hurried /\ Steps(c, "checking")
       \/ hurried' = [hurried EXCEPT ![c] = TRUE] /\ Steps(c, "inline")
    /\ UNCHANGED <<lifecycle, deadlines, executions, activeCallbacks, activeDeliveryLoops,
                   sessions, delivery, timed, told>>

\* After finishShutdown has run inline the call throws.
Throw(c) ==
    /\ stopper[c] = "inline" /\ coordinator[c] = "done"
    /\ Steps(c, "idle")
    /\ UNCHANGED <<lifecycle, deadlines, executions, activeCallbacks, activeDeliveryLoops,
                   sessions, delivery, timed, told, finishing>>

\* Counted work does not wait for itself: the call returns false.
CheckNothing(c) ==                                             \* mutant
    /\ stopper[c] = "checking"
    /\ Steps(c, "waiting")
    /\ UNCHANGED <<lifecycle, deadlines, executions, activeCallbacks, activeDeliveryLoops,
                   sessions, delivery, timed, told, finishing>>
Check(c) ==
    /\ stopper[c] = "checking"
    /\ Steps(c, IF Deep(c) THEN "idle" ELSE "waiting")
    /\ UNCHANGED <<lifecycle, deadlines, executions, activeCallbacks, activeDeliveryLoops,
                   sessions, delivery, timed, told, finishing>>

\* The wait for everything to stop, or for the call's own deadline.
Answer(c) ==
    /\ stopper[c] = "waiting" /\ (Stopped \/ timed[c])
    /\ told' = (told \/ Stopped)
    /\ Steps(c, "idle")
    /\ UNCHANGED <<lifecycle, deadlines, executions, activeCallbacks, activeDeliveryLoops,
                   sessions, delivery, timed, finishing>>

\* shutdownGraceDeadline and cleanupDeadline pass.
TimePasses ==
    /\ ~Running
    /\ \/ ~graceOver /\ graceOver' = TRUE /\ UNCHANGED cleanupOver
       \/ graceOver /\ ~cleanupOver /\ cleanupOver' = TRUE /\ UNCHANGED graceOver
    /\ UNCHANGED <<lifecycle, executions, activeCallbacks, activeDeliveryLoops, sessions,
                   delivery, calls, finishing>>

\* finishShutdown: the grace, then the end of the library.
Terminate(c) ==
    /\ coordinator[c] = "grace"
    /\ hurried[c] \/ graceOver \/ (Quiet /\ queuedExecutionCount = 0)
    /\ shutdownState' = "LibraryTerminated"
    /\ coordinator' = [coordinator EXCEPT ![c] = "cleanup"]
    /\ UNCHANGED <<shutdownCleanupPending, cancelled, deadlines, executions, activeCallbacks,
                   activeDeliveryLoops, sessions, delivery, calls, hurried>>

\* Counted work may go on a little longer before clearSessions.
Clear(c) ==
    /\ coordinator[c] = "cleanup" /\ sessionMutex = NoOne
    /\ hurried[c] \/ cleanupOver \/ Quiet
    /\ history' = {}
    /\ coordinator' = [coordinator EXCEPT ![c] = "cleared"]
    /\ UNCHANGED <<lifecycle, deadlines, executions, activeCallbacks, activeDeliveryLoops,
                   pc, sessionMutex, delivery, calls, hurried>>

CleanedUp(c) ==
    /\ coordinator[c] = "cleared"
    /\ shutdownCleanupPending' = FALSE
    /\ coordinator' = [coordinator EXCEPT ![c] = "done"]
    /\ UNCHANGED <<shutdownState, cancelled, deadlines, executions, activeCallbacks,
                   activeDeliveryLoops, sessions, delivery, calls, hurried>>

-----------------------------------------------------------------------------
SessionStep(s) ==
    \/ Create(s) \/ Insert(s) \/ Execute(s) \/ Submit(s) \/ SubmitFails(s) \/ Claim(s)
    \/ Return(s) \/ Notify(s) \/ Notified(s) \/ End(s)

LoopStep(l) ==
    Call(l) \/ Called(l) \/ Leave(l) \/ EnableLooks(l) \/ EnableCounts(l) \/ EnableFails(l)

Proceed(c) == Stop(c) \/ Spawn(c) \/ Throw(c) \/ Check(c)

\* finishShutdown.
Finish(c) == Terminate(c) \/ Clear(c) \/ CleanedUp(c)

Next ==
    \/ \E s \in Sessions : SessionStep(s)
    \/ \E l \in Loops : LoopStep(l)
    \/ Disable
    \/ \E c \in Callers : Begin(c) \/ Proceed(c) \/ Answer(c) \/ Finish(c)
    \/ TimePasses

Spec == Init /\ [][Next]_vars

\* The steps of a session's thread that do not depend on the application.
GoesOn(s) ==
    Insert(s) \/ Claim(s) \/ (cancelled /\ Return(s)) \/ Notify(s) \/ End(s)

\* Threads run, callbacks return, and an execution ends once it is cancelled.
\* Nobody has to submit or to call shutdown, and no deadline has to pass.
Fairness ==
    /\ \A s \in Sessions : WF_vars(GoesOn(s)) /\ SF_vars(Notified(s))
    /\ \A l \in Loops :
         SF_vars(Called(l)) /\ WF_vars(Leave(l) \/ EnableCounts(l) \/ EnableFails(l))
    /\ \A c \in Callers :
         WF_vars(Proceed(c) \/ (Stopped /\ Answer(c))) /\ WF_vars(Finish(c))

LiveSpec == Spec /\ Fairness

-----------------------------------------------------------------------------
Counted == {"here", "executing", "notify1", "call1", "notify2", "call2", "ending"}

\* Every variable has its type.
TypeOK ==
    /\ shutdownState \in {"LibraryRunning", "LibraryTerminating", "LibraryTerminated"}
    /\ shutdownCleanupPending \in BOOLEAN /\ cancelled \in BOOLEAN
    /\ graceOver \in BOOLEAN /\ cleanupOver \in BOOLEAN
    /\ pendingExecutions \in Nat /\ queuedExecutionCount \in Nat
    /\ activeCallbacks \in Nat /\ activeDeliveryLoops \in Nat
    /\ pc \in [Sessions -> {"new", "inserting", "created", "rejected", "queued", "threw",
                            "dropped", "done"} \cup Counted]
    /\ history \subseteq Sessions /\ sessionMutex \in Sessions \cup {NoOne}
    /\ loop \in [Loops -> {"off", "on", "call"}]
    /\ current \in Loops \cup {NoOne} /\ redirectionMutex \in Loops \cup {NoOne}
    /\ stopper \in [Callers -> {"idle", "stopping", "spawning", "inline", "checking", "waiting"}]
    /\ timed \in [Callers -> BOOLEAN]
    /\ coordinator \in [Callers -> {"none", "grace", "cleanup", "cleared", "done"}]
    /\ hurried \in [Callers -> BOOLEAN] /\ told \in BOOLEAN

\* Once a call of shutdown has returned true, and for ever after, no execution
\* runs, no callback runs, no loop delivers and the history is empty (contract
\* of FFmpegKitConfig::shutdown).
TrueMeansStopped ==
    told => /\ \A s \in Sessions : pc[s] \notin Counted
            /\ \A l \in Loops : loop[l] = "off"
            /\ history = {}

\* However many threads call shutdown, one of them initiates it and one
\* finishShutdown runs: retries never restart the grace.
OneCoordinator ==
    \A c, d \in Callers : coordinator[c] # "none" /\ coordinator[d] # "none" => c = d

\* After the grace no callback ever starts, of whatever kind; those admitted go on.
NoCallbackAfterGrace ==
    [][shutdownState = "LibraryTerminated" =>
         /\ UNCHANGED shutdownState
         /\ \A c \in Callers : InCallback(c)' => InCallback(c)]_vars

\* The history is cleared for good: a session that saw the library running just
\* before shutdown does not slip into it afterwards.
HistoryStaysEmpty ==
    \A c \in Callers : coordinator[c] \in {"cleared", "done"} => history = {}

\* Every call of shutdown returns, one without a deadline too, and one made from
\* a callback that shutdown itself waits for.
ShutdownReturns == \A c \in Callers : stopper[c] # "idle" ~> stopper[c] = "idle"

\* Once shutdown has cancelled, every worker ends, the one that is served late too.
WorkersEnd ==
    \A s \in Sessions :
        cancelled /\ pc[s] \in Counted \cup {"queued"} ~> pc[s] \in {"done", "dropped", "threw"}
=============================================================================
