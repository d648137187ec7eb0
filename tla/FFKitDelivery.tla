--------------------------- MODULE FFKitDelivery ---------------------------
(***************************************************************************)
(* Delivery of logs and statistics.  Session threads queue messages, one   *)
(* delivery loop per redirection takes them, stores them in the session    *)
(* and calls the application back.  The redirection can be switched off    *)
(* and on by any thread, shutdown drops what is left, and the process may  *)
(* exit, each while the others go on.  The application sets the log level  *)
(* whenever it likes: a line that is above it when its turn comes is       *)
(* dropped, however long it has been queued and counted.                   *)
(*                                                                         *)
(* A message is a log line.  Statistics go the same way and are always     *)
(* stored, as a line of level stderr is.                                   *)
(*                                                                         *)
(* Sessions stay in the history here, and callbacks end.  Notifications of *)
(* callbackMonitor are left out: a wait ends after 100 ms anyway.          *)
(***************************************************************************)
EXTENDS Integers, Sequences, FiniteSets, FiniteSetsExt, SequencesExt

CONSTANTS
    Ids,             \* ids of the sessions that log
    MapSize,         \* SESSION_MAP_SIZE
    Levels,          \* log levels from LevelAVLogPanic on
    LevelsOf,        \* per session: levels of the lines its -loglevel lets through
    Switchers,       \* application threads that switch the redirection
    Nobody,          \* the value of mutex and exiter when there is none
    MaxMessages,     \* bound: messages logged
    MaxGenerations   \* bound: times the redirection is switched on

LevelAVLogStdErr == -16
LevelAVLogQuiet  == -8

ASSUME DeliveryAssumption ==
    /\ Ids \subseteq Nat /\ IsFiniteSet(Ids)
    /\ MapSize \in Nat \ {0}
    /\ Levels \subseteq Nat /\ LevelsOf \in [Ids -> SUBSET (Levels \cup {LevelAVLogStdErr})]
    /\ MaxMessages \in Nat /\ MaxGenerations \in Nat \ {0}
    /\ Switchers \cap (1..MaxGenerations) = {} /\ Nobody \notin Switchers \cup (1..MaxGenerations)

Generations == 1..MaxGenerations
Slots       == 0..MapSize - 1
Slot(id)    == id % MapSize

Message == [session : Ids, number : Nat \ {0}, level : Levels \cup {LevelAVLogStdErr}]

VARIABLES
    callbackDataList,           \* messages waiting for delivery
    inTransit,                  \* sessionInTransitMessageCountMap
    configuredLogLevel,         \* what the application asked for
    logs,                       \* per session: the numbers of the messages it stored
    filtered,                   \* history: the messages that were above the level
    accepted,                   \* per session: messages that were queued
    producer,                   \* where each session's thread is
    redirectionEnabled, generation,
    hook,                       \* FFmpeg's log callback is the redirecting one
    mutex,                      \* who holds redirectionMutex between steps
    switcher,                   \* where each switching thread is
    loop,                       \* where the loop of each generation is
    held,                       \* the message it delivers, a sequence of length 0 or 1
    callbackThreads,            \* generations whose thread is to be joined
    activeDeliveryLoops,
    shutdownStep, discarded,    \* progress of shutdown, queuedMessagesDiscarded
    exiter, exited              \* who runs the exit handlers, whether it is done

queue    == <<callbackDataList, inTransit, accepted>>
levelled == <<configuredLogLevel, logs, filtered>>
switches == <<redirectionEnabled, generation, hook, mutex, switcher>>
exit     == <<exiter, exited>>
loops    == <<loop, held>>
vars     == <<queue, levelled, producer, switches, loops, callbackThreads,
              activeDeliveryLoops, shutdownStep, discarded, exit>>

Running    == shutdownStep = "running"
Unstarted  == {"none", "failed"}
Delivering == {"storing", "calling", "dropping"}

\* The static initializer has switched the redirection on.
Init ==
    /\ callbackDataList = <<>> /\ inTransit = [k \in Slots |-> 0]
    /\ configuredLogLevel \in Levels
    /\ logs = [id \in Ids |-> <<>>] /\ filtered = {} /\ accepted = [id \in Ids |-> 0]
    /\ producer = [id \in Ids |-> "idle"]
    /\ redirectionEnabled = TRUE /\ generation = 1 /\ hook = TRUE /\ mutex = Nobody
    /\ switcher = [u \in Switchers |-> "idle"]
    /\ loop = [g \in Generations |-> IF g = 1 THEN "top" ELSE "none"]
    /\ held = [g \in Generations |-> <<>>]
    /\ callbackThreads = {1} /\ activeDeliveryLoops = 1
    /\ shutdownStep = "running" /\ discarded = FALSE
    /\ exiter = Nobody /\ exited = FALSE

-----------------------------------------------------------------------------
\* av_log reads its callback; ffmpegkit_log_callback_function formats the line.
Log(id) ==
    /\ producer[id] = "idle" /\ hook
    /\ MapThenSumSet(LAMBDA i : accepted[i], Ids) + Cardinality({i \in Ids : producer[i] = "logging"})
          < MaxMessages
    /\ producer' = [producer EXCEPT ![id] = "logging"]
    /\ UNCHANGED <<queue, levelled, switches, loops, callbackThreads, activeDeliveryLoops,
                   shutdownStep, discarded, exit>>

\* enqueueCallbackData: shutdown drops the message.  A session's own -loglevel
\* has let it pass, which says nothing about the application's.
Enqueue(id, level) ==
    /\ producer[id] = "logging"
    /\ IF Running
       THEN /\ accepted' = [accepted EXCEPT ![id] = @ + 1]
            /\ callbackDataList' =
                 Append(callbackDataList, [session |-> id, number |-> accepted[id] + 1, level |-> level])
            /\ inTransit' = [inTransit EXCEPT ![Slot(id)] = @ + 1]
       ELSE UNCHANGED queue
    /\ producer' = [producer EXCEPT ![id] = "idle"]
    /\ UNCHANGED <<levelled, switches, loops, callbackThreads, activeDeliveryLoops,
                   shutdownStep, discarded, exit>>

-----------------------------------------------------------------------------
\* The condition of the loop of callbackThreadFunction.  The flag is read before
\* the generation, which only grows, so both may be read at once.
MineOffByOne(g) == redirectionEnabled /\ generation = g - 1    \* mutant
Mine(g) == redirectionEnabled /\ generation = g
Check(g) ==
    /\ loop[g] = "top"
    /\ loop' = [loop EXCEPT ![g] = IF Mine(g) THEN "taking" ELSE "leaving"]
    /\ UNCHANGED <<queue, levelled, producer, switches, held, callbackThreads, activeDeliveryLoops,
                   shutdownStep, discarded, exit>>

\* callbackDataRemove, and callbackWait when there is nothing to take.
Take(g) ==
    /\ loop[g] = "taking"
    /\ IF callbackDataList = <<>>
       THEN /\ loop' = [loop EXCEPT ![g] = "waiting"]
            /\ UNCHANGED <<callbackDataList, held>>
       ELSE /\ loop' = [loop EXCEPT ![g] = "storing"]
            /\ held' = [held EXCEPT ![g] = <<Head(callbackDataList)>>]
            /\ callbackDataList' = Tail(callbackDataList)
    /\ UNCHANGED <<inTransit, accepted, levelled, producer, switches, callbackThreads,
                   activeDeliveryLoops, shutdownStep, discarded, exit>>

WaitEnds(g) ==
    /\ loop[g] = "waiting"
    /\ loop' = [loop EXCEPT ![g] = "top"]
    /\ UNCHANGED <<queue, levelled, producer, switches, held, callbackThreads, activeDeliveryLoops,
                   shutdownStep, discarded, exit>>

\* setLogLevel
SetLogLevel(level) ==
    /\ configuredLogLevel' = level
    /\ UNCHANGED <<queue, logs, filtered, producer, switches, loops, callbackThreads, activeDeliveryLoops,
                   shutdownStep, discarded, exit>>

\* process_log drops a message that is above the level; else it adds it to its
\* session and calls the application.
AboveLevel(message) ==
    \/ configuredLogLevel = LevelAVLogQuiet /\ message.level # LevelAVLogStdErr
    \/ message.level > configuredLogLevel

Filter(g) ==
    /\ filtered' = filtered \cup {Head(held[g])}
    /\ loop' = [loop EXCEPT ![g] = "dropping"]
    /\ UNCHANGED logs

StoreWhileMine(g) ==                                           \* mutant
    /\ loop[g] = "storing"
    /\ LET message == Head(held[g])
       IN  IF AboveLevel(message) THEN Filter(g)
           ELSE /\ logs' = [logs EXCEPT ![message.session] =
                                IF Mine(g) THEN Append(@, message.number) ELSE @]
                /\ loop' = [loop EXCEPT ![g] = "calling"]
                /\ UNCHANGED filtered
    /\ UNCHANGED <<queue, configuredLogLevel, producer, switches, held, callbackThreads,
                   activeDeliveryLoops, shutdownStep, discarded, exit>>
Store(g) ==
    /\ loop[g] = "storing"
    /\ LET message == Head(held[g])
       IN  IF AboveLevel(message) THEN Filter(g)
           ELSE /\ logs' = [logs EXCEPT ![message.session] = Append(@, message.number)]
                /\ loop' = [loop EXCEPT ![g] = "calling"]
                /\ UNCHANGED filtered
    /\ UNCHANGED <<queue, configuredLogLevel, producer, switches, held, callbackThreads,
                   activeDeliveryLoops, shutdownStep, discarded, exit>>

\* process_log returns, after its callbacks if it made any, and MessageInTransit
\* goes out of scope.
DeliverUncounted(g) ==                                         \* mutant
    /\ loop[g] \in {"calling", "dropping"} /\ exiter # g
    /\ held' = [held EXCEPT ![g] = <<>>]
    /\ loop' = [loop EXCEPT ![g] = "top"]
    /\ UNCHANGED <<queue, levelled, producer, switches, callbackThreads,
                   activeDeliveryLoops, shutdownStep, discarded, exit>>
Deliver(g) ==
    /\ loop[g] \in {"calling", "dropping"} /\ exiter # g
    /\ inTransit' = [inTransit EXCEPT ![Slot(Head(held[g]).session)] = @ - 1]
    /\ held' = [held EXCEPT ![g] = <<>>]
    /\ loop' = [loop EXCEPT ![g] = "top"]
    /\ UNCHANGED <<callbackDataList, accepted, levelled, producer, switches, callbackThreads,
                   activeDeliveryLoops, shutdownStep, discarded, exit>>

\* discardQueuedMessagesWhenIdle, with active loops left.
Discard(active) ==
    IF ~Running /\ active = 0 /\ ~discarded
    THEN /\ discarded' = TRUE
         /\ callbackDataList' = <<>>
         /\ inTransit' = [k \in Slots |-> 0]
    ELSE UNCHANGED <<discarded, callbackDataList, inTransit>>

\* The loop's thread on its way out.
LeaveUndiscarded(g) ==                                         \* mutant
    /\ loop[g] = "leaving"
    /\ activeDeliveryLoops' = activeDeliveryLoops - 1
    /\ loop' = [loop EXCEPT ![g] = "left"]
    /\ UNCHANGED <<queue, discarded, levelled, producer, switches, held, callbackThreads, shutdownStep,
                   exit>>
Leave(g) ==
    /\ loop[g] = "leaving"
    /\ activeDeliveryLoops' = activeDeliveryLoops - 1
    /\ Discard(activeDeliveryLoops - 1)
    /\ loop' = [loop EXCEPT ![g] = "left"]
    /\ UNCHANGED <<accepted, levelled, producer, switches, held, callbackThreads, shutdownStep, exit>>

\* Completion goes out of scope.
Finished(g) ==
    /\ loop[g] = "left"
    /\ loop' = [loop EXCEPT ![g] = "finished"]
    /\ UNCHANGED <<queue, levelled, producer, switches, held, callbackThreads, activeDeliveryLoops,
                   shutdownStep, discarded, exit>>

-----------------------------------------------------------------------------
\* reapFinishedCallbackThreads: finished threads are joined and forgotten.
Reapable(S) == {g \in S : loop[g] = "finished"}

Reap(u, next) ==
    /\ mutex = Nobody
    /\ callbackThreads' = callbackThreads \ Reapable(callbackThreads)
    /\ switcher' = [switcher EXCEPT ![u] = next]
    /\ UNCHANGED <<queue, levelled, producer, redirectionEnabled, generation, hook, mutex, loops,
                   activeDeliveryLoops, shutdownStep, discarded, exit>>

\* enableRedirection: reap, then look under redirectionMutex.
EnableReaps(u) == switcher[u] = "idle" /\ Reap(u, "enabling")

EnableLooks(u) ==
    /\ switcher[u] = "enabling" /\ mutex = Nobody
    /\ IF exiter = Nobody /\ ~redirectionEnabled /\ Running
       THEN /\ generation < MaxGenerations
            /\ mutex' = u
            /\ switcher' = [switcher EXCEPT ![u] = "counting"]
       ELSE /\ switcher' = [switcher EXCEPT ![u] = "idle"]
            /\ UNCHANGED mutex
    /\ UNCHANGED <<queue, levelled, producer, redirectionEnabled, generation, hook, loops,
                   callbackThreads, activeDeliveryLoops, shutdownStep, discarded, exit>>

\* The loop is counted before its thread starts.
EnableCounts(u) ==
    /\ switcher[u] = "counting"
    /\ generation' = generation + 1 /\ redirectionEnabled' = TRUE
    /\ callbackThreads' = callbackThreads \cup {generation'}
    /\ activeDeliveryLoops' = activeDeliveryLoops + 1
    /\ switcher' = [switcher EXCEPT ![u] = "starting"]
    /\ UNCHANGED <<queue, levelled, producer, hook, mutex, loops, shutdownStep, discarded, exit>>

\* pthread_create, then the hooks.
EnableStarts(u) ==
    /\ switcher[u] = "starting"
    /\ loop' = [loop EXCEPT ![generation] = "top"]
    /\ hook' = TRUE /\ mutex' = Nobody
    /\ switcher' = [switcher EXCEPT ![u] = "idle"]
    /\ UNCHANGED <<queue, levelled, producer, redirectionEnabled, generation, held, callbackThreads,
                   activeDeliveryLoops, shutdownStep, discarded, exit>>

EnableFails(u) ==
    /\ switcher[u] = "starting"
    /\ loop' = [loop EXCEPT ![generation] = "failed"]
    /\ redirectionEnabled' = FALSE
    /\ callbackThreads' = callbackThreads \ {generation}
    /\ activeDeliveryLoops' = activeDeliveryLoops - 1
    /\ mutex' = Nobody
    /\ switcher' = [switcher EXCEPT ![u] = "idle"]
    /\ UNCHANGED <<queue, levelled, producer, generation, hook, held, shutdownStep, discarded, exit>>

\* disableRedirection, then its reap.
SwitchOff ==
    IF redirectionEnabled
    THEN redirectionEnabled' = FALSE /\ hook' = FALSE
    ELSE UNCHANGED <<redirectionEnabled, hook>>

Disable(u) ==
    /\ switcher[u] = "idle" /\ mutex = Nobody
    /\ SwitchOff
    /\ switcher' = [switcher EXCEPT ![u] = IF redirectionEnabled THEN "reaping" ELSE "idle"]
    /\ UNCHANGED <<queue, levelled, producer, generation, mutex, loops, callbackThreads,
                   activeDeliveryLoops, shutdownStep, discarded, exit>>

DisableReaps(u) == switcher[u] = "reaping" /\ Reap(u, "idle")

-----------------------------------------------------------------------------
\* shutdown changes the state, switches the redirection off and discards.
Shutdown ==
    /\ Running
    /\ shutdownStep' = "terminating"
    /\ UNCHANGED <<queue, levelled, producer, switches, loops, callbackThreads, activeDeliveryLoops,
                   discarded, exit>>

ShutdownDisables ==
    /\ shutdownStep = "terminating" /\ mutex = Nobody
    /\ SwitchOff
    /\ callbackThreads' = callbackThreads \ Reapable(callbackThreads)
    /\ shutdownStep' = "disabled"
    /\ UNCHANGED <<queue, levelled, producer, generation, mutex, switcher, loops,
                   activeDeliveryLoops, discarded, exit>>

ShutdownDiscards ==
    /\ shutdownStep = "disabled"
    /\ Discard(activeDeliveryLoops)
    /\ shutdownStep' = "done"
    /\ UNCHANGED <<accepted, levelled, producer, switches, loops, callbackThreads,
                   activeDeliveryLoops, exit>>

\* The destructor of callbackThreadShutdown, on an application thread or below a
\* callback that calls exit: no loop starts any more, those there are joined.
ExitLeavesOn(x) ==                                             \* mutant
    /\ exiter = Nobody /\ mutex = Nobody
    /\ x \in Generations => loop[x] = "calling"
    /\ exiter' = x
    /\ UNCHANGED <<queue, levelled, producer, switches, loops, callbackThreads, activeDeliveryLoops,
                   shutdownStep, discarded, exited>>
Exit(x) ==
    /\ exiter = Nobody /\ mutex = Nobody
    /\ x \in Generations => loop[x] = "calling"
    /\ exiter' = x
    /\ redirectionEnabled' = FALSE
    /\ UNCHANGED <<queue, levelled, producer, generation, hook, mutex, switcher, loops,
                   callbackThreads, activeDeliveryLoops, shutdownStep, discarded, exited>>

ExitJoinsCurrent ==                                            \* mutant
    /\ exiter # Nobody /\ ~exited
    /\ generation # exiter => loop[generation] \in Unstarted \cup {"finished"}
    /\ exited' = TRUE /\ callbackThreads' = {}
    /\ UNCHANGED <<queue, levelled, producer, switches, loops, activeDeliveryLoops, shutdownStep,
                   discarded, exiter>>
ExitJoins ==
    /\ exiter # Nobody /\ ~exited
    /\ \A g \in callbackThreads \ {exiter} : loop[g] = "finished"
    /\ exited' = TRUE /\ callbackThreads' = {}
    /\ UNCHANGED <<queue, levelled, producer, switches, loops, activeDeliveryLoops, shutdownStep,
                   discarded, exiter>>

-----------------------------------------------------------------------------
Produce(id) == Log(id) \/ \E level \in LevelsOf[id] : Enqueue(id, level)

Loop(g) ==
    \/ Check(g) \/ Take(g) \/ WaitEnds(g) \/ Store(g) \/ Deliver(g)
    \/ Leave(g) \/ Finished(g)

Enable(u) == EnableLooks(u) \/ EnableCounts(u) \/ EnableStarts(u) \/ EnableFails(u)

Next ==
    \/ \E id \in Ids : Produce(id)
    \/ \E level \in Levels \cup {LevelAVLogQuiet} : SetLogLevel(level)
    \/ \E g \in Generations : Loop(g)
    \/ \E u \in Switchers : EnableReaps(u) \/ Enable(u) \/ Disable(u) \/ DisableReaps(u)
    \/ Shutdown \/ ShutdownDisables \/ ShutdownDiscards
    \/ \E x \in Switchers \cup Generations : Exit(x)
    \/ ExitJoins

Spec == Init /\ [][Next]_vars

\* Every thread runs and callbacks return.  Nobody has to log, to switch the
\* redirection, to shut down or to exit.
Fairness ==
    /\ \A g \in Generations : WF_vars(Loop(g))
    /\ \A u \in Switchers : WF_vars(Enable(u))
    /\ SF_vars(ShutdownDisables) /\ WF_vars(ShutdownDiscards)
    /\ WF_vars(ExitJoins)

LiveSpec == Spec /\ Fairness

-----------------------------------------------------------------------------
\* Every variable has its type.
TypeOK ==
    /\ callbackDataList \in Seq(Message)
    /\ inTransit \in [Slots -> Nat] /\ accepted \in [Ids -> Nat]
    /\ configuredLogLevel \in Levels \cup {LevelAVLogQuiet}
    /\ logs \in [Ids -> Seq(Nat \ {0})] /\ filtered \subseteq Message
    /\ producer \in [Ids -> {"idle", "logging"}]
    /\ redirectionEnabled \in BOOLEAN /\ hook \in BOOLEAN /\ generation \in Generations
    /\ mutex \in Switchers \cup {Nobody}
    /\ switcher \in [Switchers -> {"idle", "enabling", "counting", "starting", "reaping"}]
    /\ loop \in [Generations -> {"top", "taking", "waiting", "leaving", "left", "finished"}
                                  \cup Unstarted \cup Delivering]
    /\ held \in [Generations -> {<<>>} \cup {<<m>> : m \in Message}]
    /\ callbackThreads \subseteq Generations /\ activeDeliveryLoops \in Nat
    /\ shutdownStep \in {"running", "terminating", "disabled", "done"}
    /\ discarded \in BOOLEAN /\ exited \in BOOLEAN
    /\ exiter \in Switchers \cup Generations \cup {Nobody}

\* The messages of a slot: those that wait, by their places, and the loops that
\* are delivering one.
OfSlot(k, m) == Slot(m.session) = k
Waiting(k)   == {i \in DOMAIN callbackDataList : OfSlot(k, callbackDataList[i])}
Taken(k)     == {g \in Generations : held[g] # <<>> /\ OfSlot(k, Head(held[g]))}

\* A slot's count is the number of its messages that wait or are being
\* delivered, whatever switches, shuts down or exits in between: getAllLogs waits
\* for neither too few nor too many.
TransitCounted ==
    \A k \in Slots : inTransit[k] = Cardinality(Waiting(k)) + Cardinality(Taken(k))

\* Once a session's count is zero, every message it queued was stored or was above
\* the level at its turn, one or the other and once, in order unless the redirection
\* has been switched on again; what has level stderr is stored whatever the level.
Dropped(id) == {m.number : m \in {m \in filtered : m.session = id}}

ZeroMeansDelivered ==
    ~discarded => \A id \in Ids :
        inTransit[Slot(id)] = 0 =>
            /\ Range(logs[id]) = 1..accepted[id] \ Dropped(id) /\ IsInjective(logs[id])
            /\ generation = 1 => \A i, j \in DOMAIN logs[id] : i < j => logs[id][i] < logs[id][j]
            /\ \A m \in filtered : m.session = id => m.level # LevelAVLogStdErr

\* When the exit handlers are done no loop runs that could touch a destroyed
\* global, but the one that exits.
ExitStopsLoops ==
    exited => \A g \in Generations \ {exiter} : loop[g] \in Unstarted \cup {"finished"}

\* While the redirection stays on, every message is delivered.
AllDelivered ==
    \A k \in Slots : inTransit[k] > 0 ~> inTransit[k] = 0 \/ ~redirectionEnabled

\* Shutdown leaves nothing in transit for getAllLogs to wait for, and a producer
\* that was late adds nothing after the discard.
ShutdownDrains == ~Running ~> exiter # Nobody \/ [](\A k \in Slots : inTransit[k] = 0)

\* The process exits unless it waits for its own callback.
ExitReturns == exiter # Nobody ~> exited

-----------------------------------------------------------------------------
\* "The loop of the earlier one ends instead of running next to the new one"
\* (comment of redirectionGenerationId): two loops never deliver at a time.
OneLoopDelivers == Cardinality({g \in Generations : loop[g] \in Delivering}) <= 1
=============================================================================
