------------------------ MODULE FFKitLifecycleProofs ------------------------
(***************************************************************************)
(* What shutdown guarantees however many sessions, workers, loops and      *)
(* callers of shutdown there are.                                          *)
(***************************************************************************)
EXTENDS FFKitLifecycle, FiniteSetTheorems, TLAPS

\* Where a session's thread can be.
Places == {"new", "inserting", "created", "rejected", "queued", "threw", "dropped", "done"} \cup Counted

\* What the four counters under executionMutex count.
Executing  == {s \in Sessions : pc[s] \in Counted}
Queued     == {s \in Sessions : pc[s] = "queued"}
Calling    == {c \in Sessions \cup Loops : InCallback(c)}
Delivering == {l \in Loops : loop[l] # "off"}

Counts ==
    /\ pendingExecutions = Cardinality(Executing)
    /\ queuedExecutionCount = Cardinality(Queued)
    /\ activeCallbacks = Cardinality(Calling)
    /\ activeDeliveryLoops = Cardinality(Delivering)

\* Who is in the middle of a critical section that looked at the state.
Locks ==
    /\ \A s \in Sessions : pc[s] = "inserting" <=> sessionMutex = s
    /\ \A l \in Loops : redirectionMutex = l => loop[l] = "off"

\* The one call that initiates shutdown, and the finishShutdown it starts.
Initiates(c) == stopper[c] \in {"stopping", "spawning", "inline"} \/ coordinator[c] # "none"

\* Behind disableRedirection no loop is being started any more.
Switched(c) == stopper[c] \in {"spawning", "inline"} \/ coordinator[c] # "none"

Alone ==
    /\ Running => ~shutdownCleanupPending /\ ~told
    /\ Running => \A c \in Callers : stopper[c] = "idle" /\ coordinator[c] = "none"
    /\ \A c, d \in Callers : Initiates(c) /\ Initiates(d) => c = d
    /\ \A c \in Callers : stopper[c] \in {"stopping", "spawning"} => coordinator[c] = "none"

Phases ==
    /\ \A c \in Callers : Switched(c) => redirectionMutex = NoOne
    /\ \A c \in Callers :
         coordinator[c] \in {"cleanup", "cleared", "done"} => shutdownState = "LibraryTerminated"
    /\ \A c \in Callers :
         coordinator[c] \in {"cleared", "done"} => history = {} /\ sessionMutex = NoOne

Truth ==
    /\ ~Running /\ ~shutdownCleanupPending => \E c \in Callers : coordinator[c] = "done"
    /\ told => ~shutdownCleanupPending /\ Executing = {} /\ Delivering = {}

IInv == TypeOK /\ Counts /\ Locks /\ Alone /\ Phases /\ Truth

-----------------------------------------------------------------------------
(***************************************************************************)
(* Counting.                                                               *)
(***************************************************************************)
LEMMA OneMoreOrLess ==
    ASSUME NEW S, NEW x, IsFiniteSet(S)
    PROVE  /\ Cardinality(S) \in Nat
           /\ x \notin S => Cardinality(S \cup {x}) = Cardinality(S) + 1
           /\ x \in S => /\ Cardinality(S \ {x}) = Cardinality(S) - 1
                         /\ Cardinality(S) - 1 \in Nat
<1>1. Cardinality(S) \in Nat
  BY FS_CardinalityType
<1>2. Cardinality(S \cup {x}) = IF x \in S THEN Cardinality(S) ELSE Cardinality(S) + 1
  BY FS_AddElement
<1>3. Cardinality(S \ {x}) = IF x \in S THEN Cardinality(S) - 1 ELSE Cardinality(S)
  BY FS_RemoveElement
<1>4. x \in S => Cardinality(S) # 0
  BY FS_EmptySet
<1> QED BY <1>1, <1>2, <1>3, <1>4

LEMMA FiniteThreads ==
    /\ IsFiniteSet(Executing) /\ IsFiniteSet(Queued)
    /\ IsFiniteSet(Calling) /\ IsFiniteSet(Delivering)
<1>1. /\ Executing \subseteq Sessions \cup Apps \cup Loops
      /\ Queued \subseteq Sessions \cup Apps \cup Loops
      /\ Calling \subseteq Sessions \cup Apps \cup Loops
      /\ Delivering \subseteq Sessions \cup Apps \cup Loops
  BY DEF Executing, Queued, Calling, Delivering
<1> QED BY <1>1, LifecycleAssumption, FS_Subset

\* Where a session that moves is counted afterwards.
LEMMA SessionMoves ==
    ASSUME TypeOK, NEW s \in Sessions, NEW to, Goes(s, to), loop' = loop
    PROVE  /\ Executing' = IF to \in Counted THEN Executing \cup {s} ELSE Executing \ {s}
           /\ Queued' = IF to = "queued" THEN Queued \cup {s} ELSE Queued \ {s}
           /\ Calling' = IF to \in {"call1", "call2"} THEN Calling \cup {s} ELSE Calling \ {s}
           /\ Delivering' = Delivering
<1>1. pc' = [pc EXCEPT ![s] = to] /\ pc \in [Sessions -> Places]
  BY DEF Goes, TypeOK, Places
<1>2. \A r \in Sessions : pc'[r] = IF r = s THEN to ELSE pc[r]
  BY <1>1
<1>3. Executing' = IF to \in Counted THEN Executing \cup {s} ELSE Executing \ {s}
  BY <1>2 DEF Executing
<1>4. Queued' = IF to = "queued" THEN Queued \cup {s} ELSE Queued \ {s}
  BY <1>2 DEF Queued
<1>5. s \notin Loops /\ \A r \in Sessions : r \notin Loops
  BY LifecycleAssumption
<1>6. Calling' = IF to \in {"call1", "call2"} THEN Calling \cup {s} ELSE Calling \ {s}
  BY <1>2, <1>5 DEF Calling, InCallback
<1>7. Delivering' = Delivering
  BY DEF Delivering
<1> QED BY <1>3, <1>4, <1>6, <1>7

\* Where a loop that moves is.
LEMMA LoopMoves ==
    ASSUME TypeOK, NEW l \in Loops, NEW to, loop' = [loop EXCEPT ![l] = to], pc' = pc
    PROVE  /\ Executing' = Executing /\ Queued' = Queued
           /\ Calling' = IF to = "call" THEN Calling \cup {l} ELSE Calling \ {l}
           /\ Delivering' = IF to # "off" THEN Delivering \cup {l} ELSE Delivering \ {l}
<1>1. \A k \in Loops : loop'[k] = IF k = l THEN to ELSE loop[k]
  BY DEF TypeOK
<1>2. l \notin Sessions
  BY LifecycleAssumption
<1>3. Calling' = IF to = "call" THEN Calling \cup {l} ELSE Calling \ {l}
  BY <1>1, <1>2 DEF Calling, InCallback
<1>4. Delivering' = IF to # "off" THEN Delivering \cup {l} ELSE Delivering \ {l}
  BY <1>1 DEF Delivering
<1> QED BY <1>3, <1>4 DEF Executing, Queued

LEMMA CountsAreNaturals ==
    ASSUME Counts
    PROVE  /\ pendingExecutions \in Nat /\ queuedExecutionCount \in Nat
           /\ activeCallbacks \in Nat /\ activeDeliveryLoops \in Nat
  BY FiniteThreads, FS_CardinalityType DEF Counts

\* By how much a count changes when its condition was p and becomes q.
Change(p, q) == IF q /\ ~p THEN 1 ELSE IF p /\ ~q THEN -1 ELSE 0

LEMMA CountMoves ==
    ASSUME NEW S, NEW x, IsFiniteSet(S)
    PROVE  /\ Cardinality(S \cup {x}) = Cardinality(S) + Change(x \in S, TRUE)
           /\ Cardinality(S \ {x}) = Cardinality(S) + Change(x \in S, FALSE)
<1>1. CASE x \notin S
  <2>1. S \ {x} = S
    BY <1>1
  <2> QED BY <1>1, <2>1, OneMoreOrLess DEF Change
<1>2. CASE x \in S
  <2>1. S \cup {x} = S
    BY <1>2
  <2> QED BY <1>2, <2>1, OneMoreOrLess DEF Change
<1> QED BY <1>1, <1>2

LEMMA SessionCounts ==
    ASSUME TypeOK, Counts, NEW s \in Sessions, NEW to, Goes(s, to), loop' = loop
    PROVE  /\ Cardinality(Executing)' = pendingExecutions + Change(pc[s] \in Counted, to \in Counted)
           /\ Cardinality(Queued)' = queuedExecutionCount + Change(pc[s] = "queued", to = "queued")
           /\ Cardinality(Calling)' =
                activeCallbacks + Change(pc[s] \in {"call1", "call2"}, to \in {"call1", "call2"})
           /\ Cardinality(Delivering)' = activeDeliveryLoops
<1>1. s \in Executing <=> pc[s] \in Counted
  BY DEF Executing
<1>2. s \in Queued <=> pc[s] = "queued"
  BY DEF Queued
<1>3. s \in Calling <=> pc[s] \in {"call1", "call2"}
  BY LifecycleAssumption DEF Calling, InCallback
<1>4. /\ Executing' = IF to \in Counted THEN Executing \cup {s} ELSE Executing \ {s}
      /\ Queued' = IF to = "queued" THEN Queued \cup {s} ELSE Queued \ {s}
      /\ Calling' = IF to \in {"call1", "call2"} THEN Calling \cup {s} ELSE Calling \ {s}
      /\ Delivering' = Delivering
  BY SessionMoves
<1>5. Cardinality(Executing') = Cardinality(Executing) + Change(s \in Executing, to \in Counted)
  BY <1>4, FiniteThreads, CountMoves DEF Change
<1>6. Cardinality(Queued') = Cardinality(Queued) + Change(s \in Queued, to = "queued")
  BY <1>4, FiniteThreads, CountMoves DEF Change
<1>7. Cardinality(Calling') = Cardinality(Calling) + Change(s \in Calling, to \in {"call1", "call2"})
  BY <1>4, FiniteThreads, CountMoves DEF Change
<1> QED BY <1>1, <1>2, <1>3, <1>4, <1>5, <1>6, <1>7 DEF Counts

LEMMA LoopCounts ==
    ASSUME TypeOK, Counts, NEW l \in Loops, NEW to, loop' = [loop EXCEPT ![l] = to], pc' = pc
    PROVE  /\ Cardinality(Executing)' = pendingExecutions
           /\ Cardinality(Queued)' = queuedExecutionCount
           /\ Cardinality(Calling)' = activeCallbacks + Change(loop[l] = "call", to = "call")
           /\ Cardinality(Delivering)' = activeDeliveryLoops + Change(loop[l] # "off", to # "off")
<1>1. l \in Calling <=> loop[l] = "call"
  BY LifecycleAssumption DEF Calling, InCallback
<1>2. l \in Delivering <=> loop[l] # "off"
  BY DEF Delivering
<1>3. /\ Executing' = Executing /\ Queued' = Queued
      /\ Calling' = IF to = "call" THEN Calling \cup {l} ELSE Calling \ {l}
      /\ Delivering' = IF to # "off" THEN Delivering \cup {l} ELSE Delivering \ {l}
  BY LoopMoves
<1>4. Cardinality(Calling') = Cardinality(Calling) + Change(l \in Calling, to = "call")
  BY <1>3, FiniteThreads, CountMoves DEF Change
<1>5. Cardinality(Delivering') = Cardinality(Delivering) + Change(l \in Delivering, to # "off")
  BY <1>3, FiniteThreads, CountMoves DEF Change
<1> QED BY <1>1, <1>2, <1>3, <1>4, <1>5 DEF Counts

\* A step that moves neither keeps the counts.
LEMMA CountsStand ==
    ASSUME Counts, UNCHANGED <<executions, activeCallbacks, activeDeliveryLoops, pc, loop>>
    PROVE  Counts'
  BY DEF Counts, executions, Executing, Queued, Calling, Delivering, InCallback

LEMMA NextCounts ==
    ASSUME TypeOK, Counts, Locks, [Next]_vars
    PROVE  Counts'
<1> USE DEF Change, Counted, lifecycle, deadlines, executions, sessions, delivery, calls, finishing
<1>0. pc \in [Sessions -> Places] /\ loop \in [Loops -> {"off", "on", "call"}]
  BY DEF TypeOK, Places
<1>1. ASSUME NEW s \in Sessions, SessionStep(s)
      PROVE  Counts'
  <2> USE CountsAreNaturals, SessionCounts DEF Counts
  <2>1. ASSUME Create(s) PROVE Counts'
    BY <2>1 DEF Create
  <2>2. ASSUME Insert(s) PROVE Counts'
    BY <2>2 DEF Insert
  <2>3. ASSUME Execute(s) PROVE Counts'
    BY <2>3 DEF Execute
  <2>4. ASSUME Submit(s) PROVE Counts'
    BY <2>4 DEF Submit
  <2>5. ASSUME SubmitFails(s) PROVE Counts'
    BY <2>5 DEF SubmitFails
  <2>6. ASSUME Claim(s) PROVE Counts'
    BY <2>6 DEF Claim
  <2>7. ASSUME Return(s) PROVE Counts'
    BY <2>7 DEF Return
  <2>8. ASSUME Notify(s) PROVE Counts'
    BY <2>8 DEF Notify
  <2>9. ASSUME Notified(s) PROVE Counts'
    BY <2>9 DEF Notified
  <2>10. ASSUME End(s) PROVE Counts'
    BY <2>10 DEF End
  <2> QED BY <1>1, <2>1, <2>2, <2>3, <2>4, <2>5, <2>6, <2>7, <2>8, <2>9, <2>10 DEF SessionStep
<1>2. ASSUME NEW l \in Loops, LoopStep(l)
      PROVE  Counts'
  <2>0. ASSUME NEW to, loop' = [loop EXCEPT ![l] = to], pc' = pc,
               queuedExecutionCount' = queuedExecutionCount,
               pendingExecutions' = pendingExecutions,
               activeCallbacks' = activeCallbacks + Change(loop[l] = "call", to = "call"),
               activeDeliveryLoops' = activeDeliveryLoops + Change(loop[l] # "off", to # "off")
        PROVE  Counts'
    BY <2>0, LoopCounts DEF Counts
  <2>1. CASE Call(l)
    <3>1. loop' = [loop EXCEPT ![l] = "call"] /\ pc' = pc
      BY <2>1 DEF Call
    <3>2. /\ queuedExecutionCount' = queuedExecutionCount /\ pendingExecutions' = pendingExecutions
          /\ activeCallbacks' = activeCallbacks + Change(loop[l] = "call", "call" = "call")
          /\ activeDeliveryLoops' = activeDeliveryLoops + Change(loop[l] # "off", "call" # "off")
      BY <2>1, CountsAreNaturals DEF Call
    <3> QED BY <2>0, <3>1, <3>2
  <2>2. CASE Called(l)
    <3>1. loop' = [loop EXCEPT ![l] = "on"] /\ pc' = pc
      BY <2>2 DEF Called
    <3>2. /\ queuedExecutionCount' = queuedExecutionCount /\ pendingExecutions' = pendingExecutions
          /\ activeCallbacks' = activeCallbacks + Change(loop[l] = "call", "on" = "call")
          /\ activeDeliveryLoops' = activeDeliveryLoops + Change(loop[l] # "off", "on" # "off")
      BY <2>2, CountsAreNaturals DEF Called
    <3> QED BY <2>0, <3>1, <3>2
  <2>3. CASE Leave(l)
    <3>1. loop' = [loop EXCEPT ![l] = "off"] /\ pc' = pc
      BY <2>3 DEF Leave
    <3>2. /\ queuedExecutionCount' = queuedExecutionCount /\ pendingExecutions' = pendingExecutions
          /\ activeCallbacks' = activeCallbacks + Change(loop[l] = "call", "off" = "call")
          /\ activeDeliveryLoops' = activeDeliveryLoops + Change(loop[l] # "off", "off" # "off")
      BY <2>3, CountsAreNaturals DEF Leave
    <3> QED BY <2>0, <3>1, <3>2
  <2>4. CASE EnableCounts(l)
    <3>1. loop' = [loop EXCEPT ![l] = "on"] /\ pc' = pc
      BY <2>4 DEF EnableCounts
    <3>2. /\ queuedExecutionCount' = queuedExecutionCount /\ pendingExecutions' = pendingExecutions
          /\ activeCallbacks' = activeCallbacks + Change(loop[l] = "call", "on" = "call")
          /\ activeDeliveryLoops' = activeDeliveryLoops + Change(loop[l] # "off", "on" # "off")
      BY <2>4, CountsAreNaturals DEF EnableCounts, Locks
    <3> QED BY <2>0, <3>1, <3>2
  <2>5. ASSUME EnableLooks(l) \/ EnableFails(l) PROVE Counts'
    BY <2>5, CountsStand DEF EnableLooks, EnableFails
  <2> QED BY <1>2, <2>1, <2>2, <2>3, <2>4, <2>5 DEF LoopStep
<1>3. ASSUME NEW c \in Callers, Begin(c) \/ Proceed(c) \/ Answer(c) \/ Finish(c)
      PROVE  Counts'
  <2>1. UNCHANGED <<executions, activeCallbacks, activeDeliveryLoops, pc, loop>>
    BY <1>3 DEF Begin, Proceed, Stop, Spawn, Throw, Check, Answer, Finish, Terminate, Clear,
                CleanedUp
  <2> QED BY <2>1, CountsStand
<1>4. ASSUME Disable \/ TimePasses \/ UNCHANGED vars
      PROVE  Counts'
  BY <1>4, CountsStand DEF Disable, TimePasses, vars
<1> QED BY <1>1, <1>2, <1>3, <1>4 DEF Next

-----------------------------------------------------------------------------
(***************************************************************************)
(* Types and locks.                                                        *)
(***************************************************************************)
LEMMA NextTypeOK ==
    ASSUME TypeOK, Counts', [Next]_vars
    PROVE  TypeOK'
<1> USE DEF TypeOK, lifecycle, deadlines, executions, sessions, delivery, calls, finishing
<1>1. /\ pendingExecutions' \in Nat /\ queuedExecutionCount' \in Nat
      /\ activeCallbacks' \in Nat /\ activeDeliveryLoops' \in Nat
  <2>1. /\ IsFiniteSet(Executing') /\ IsFiniteSet(Queued')
        /\ IsFiniteSet(Calling') /\ IsFiniteSet(Delivering')
    <3>1. /\ Executing' \subseteq Sessions \cup Apps \cup Loops
          /\ Queued' \subseteq Sessions \cup Apps \cup Loops
          /\ Calling' \subseteq Sessions \cup Apps \cup Loops
          /\ Delivering' \subseteq Sessions \cup Apps \cup Loops
      BY DEF Executing, Queued, Calling, Delivering
    <3> QED BY <3>1, LifecycleAssumption, FS_Subset
  <2> QED BY <2>1, FS_CardinalityType DEF Counts
<1>2. ASSUME NEW s \in Sessions, SessionStep(s)
      PROVE  TypeOK'
  <2>1. PICK to \in Places : Goes(s, to)
    BY <1>2 DEF SessionStep, Create, Insert, Execute, Submit, SubmitFails, Claim, Return, Notify,
                Notified, End, Places, Counted
  <2>2. pc' \in [Sessions -> Places]
    BY <2>1 DEF Goes, Places
  <2>3. history' \subseteq Sessions /\ sessionMutex' \in Sessions \cup {NoOne}
    BY <1>2 DEF SessionStep, Create, Insert, Execute, Submit, SubmitFails, Claim, Return, Notify,
                Notified, End
  <2>4. UNCHANGED <<lifecycle, deadlines, delivery, calls, finishing>>
    BY <1>2 DEF SessionStep, Create, Insert, Execute, Submit, SubmitFails, Claim, Return, Notify,
                Notified, End
  <2> QED BY <1>1, <2>2, <2>3, <2>4 DEF Places
<1>3. ASSUME NEW l \in Loops, LoopStep(l)
      PROVE  TypeOK'
  <2>1. /\ loop' \in [Loops -> {"off", "on", "call"}]
        /\ current' \in Loops \cup {NoOne} /\ redirectionMutex' \in Loops \cup {NoOne}
    BY <1>3 DEF LoopStep, Call, Called, Leave, EnableLooks, EnableCounts, EnableFails
  <2>2. UNCHANGED <<lifecycle, deadlines, sessions, calls, finishing>>
    BY <1>3 DEF LoopStep, Call, Called, Leave, EnableLooks, EnableCounts, EnableFails
  <2> QED BY <1>1, <2>1, <2>2
<1>4. ASSUME NEW c \in Callers, Begin(c)
      PROVE  TypeOK'
  <2>1. CASE Running
    BY <1>1, <1>4, <2>1 DEF Begin, Steps
  <2>2. CASE ~Running
    BY <1>1, <1>4, <2>2 DEF Begin, Steps
  <2> QED BY <2>1, <2>2
<1>5. ASSUME NEW c \in Callers, Proceed(c)
      PROVE  TypeOK'
  <2>1. CASE Stop(c)
    BY <1>1, <2>1 DEF Stop, Steps
  <2>2. CASE Spawn(c)
    <3>1. /\ stopper' \in [Callers -> {"idle", "stopping", "spawning", "inline", "checking", "waiting"}]
          /\ coordinator' \in [Callers -> {"none", "grace", "cleanup", "cleared", "done"}]
          /\ hurried' \in [Callers -> BOOLEAN]
      BY <2>2 DEF Spawn, Steps
    <3> QED BY <1>1, <2>2, <3>1 DEF Spawn
  <2>3. CASE Throw(c) \/ Check(c)
    BY <1>1, <2>3 DEF Throw, Check, Steps
  <2> QED BY <1>5, <2>1, <2>2, <2>3 DEF Proceed
<1>6. ASSUME NEW c \in Callers, Answer(c) \/ Finish(c)
      PROVE  TypeOK'
  <2>1. CASE Answer(c)
    BY <1>1, <2>1 DEF Answer, Stopped, Quiet, Steps
  <2>2. CASE Terminate(c)
    BY <1>1, <2>2 DEF Terminate
  <2>3. CASE Clear(c) \/ CleanedUp(c)
    BY <1>1, <2>3 DEF Clear, CleanedUp
  <2> QED BY <1>6, <2>1, <2>2, <2>3 DEF Finish
<1>7. ASSUME Disable \/ TimePasses \/ UNCHANGED vars
      PROVE  TypeOK'
  <2>1. CASE Disable
    BY <1>1, <2>1 DEF Disable
  <2>2. CASE TimePasses
    BY <1>1, <2>2 DEF TimePasses
  <2>3. CASE UNCHANGED vars
    BY <1>1, <2>3 DEF vars
  <2> QED BY <1>7, <2>1, <2>2, <2>3
<1> QED BY <1>2, <1>3, <1>4, <1>5, <1>6, <1>7 DEF Next

\* What the steps of others leave alone.
LEMMA SessionsKeepOut ==
    ASSUME NEW s \in Sessions, SessionStep(s)
    PROVE  UNCHANGED <<lifecycle, deadlines, activeDeliveryLoops, delivery, calls, finishing>>
  BY DEF SessionStep, Create, Insert, Execute, Submit, SubmitFails, Claim, Return, Notify,
         Notified, End, sessions, executions

LEMMA LoopsKeepOut ==
    ASSUME NEW l \in Loops, LoopStep(l)
    PROVE  UNCHANGED <<lifecycle, deadlines, executions, sessions, calls, finishing>>
  BY DEF LoopStep, Call, Called, Leave, EnableLooks, EnableCounts, EnableFails

LEMMA NextLocks ==
    ASSUME TypeOK, Locks, [Next]_vars
    PROVE  Locks'
<1> USE DEF Locks, lifecycle, deadlines, executions, sessions, delivery, calls, finishing
<1>1. ASSUME NEW s \in Sessions, SessionStep(s)
      PROVE  Locks'
  <2>1. \A l \in Loops : redirectionMutex' = l => loop'[l] = "off"
    BY <1>1, SessionsKeepOut
  <2>2. CASE Create(s)
    <3>1. \A r \in Sessions : r # NoOne
      BY LifecycleAssumption
    <3> QED BY <2>1, <2>2, <3>1 DEF Create, Goes, TypeOK
  <2>3. CASE Insert(s)
    <3>1. \A r \in Sessions : r # NoOne
      BY LifecycleAssumption
    <3> QED BY <2>1, <2>3, <3>1 DEF Insert, Goes, TypeOK
  <2>4. CASE ~Create(s) /\ ~Insert(s)
    <3>1. PICK to \in Places \ {"inserting"} : Goes(s, to)
      BY <1>1, <2>4 DEF SessionStep, Execute, Submit, SubmitFails, Claim, Return, Notify, Notified,
                        End, Places, Counted
    <3>2. pc[s] # "inserting" /\ sessionMutex' = sessionMutex
      BY <1>1, <2>4 DEF SessionStep, Execute, Submit, SubmitFails, Claim, Return, Notify, Notified,
                        End
    <3> QED BY <2>1, <3>1, <3>2 DEF Goes, TypeOK
  <2> QED BY <2>2, <2>3, <2>4
<1>2. ASSUME NEW l \in Loops, LoopStep(l)
      PROVE  Locks'
  <2>1. \A s \in Sessions : pc'[s] = "inserting" <=> sessionMutex' = s
    BY <1>2, LoopsKeepOut
  <2>2. \A k \in Loops : k # NoOne
    BY LifecycleAssumption
  <2>3. \A k \in Loops : redirectionMutex' = k => loop'[k] = "off"
    BY <1>2, <2>2 DEF LoopStep, Call, Called, Leave, EnableLooks, EnableCounts, EnableFails, TypeOK
  <2> QED BY <2>1, <2>3
<1>3. ASSUME NEW c \in Callers, Begin(c) \/ Proceed(c) \/ Answer(c) \/ Finish(c)
      PROVE  Locks'
  BY <1>3 DEF Begin, Proceed, Stop, Spawn, Throw, Check, Answer, Finish, Terminate, Clear,
              CleanedUp
<1>4. ASSUME Disable \/ TimePasses \/ UNCHANGED vars
      PROVE  Locks'
  BY <1>4 DEF Disable, TimePasses, vars
<1> QED BY <1>1, <1>2, <1>3, <1>4 DEF Next

-----------------------------------------------------------------------------
(***************************************************************************)
(* Shutdown.                                                               *)
(***************************************************************************)
LEMMA NextAlone ==
    ASSUME TypeOK, Alone, [Next]_vars
    PROVE  Alone'
<1> USE DEF lifecycle, deadlines, sessions, delivery, calls, finishing
<1>1. ASSUME UNCHANGED <<lifecycle, calls, finishing>>
      PROVE  Alone'
  BY <1>1 DEF Alone, Initiates, Running
<1>2. ASSUME NEW c \in Callers, Begin(c)
      PROVE  Alone'
  <2>1. /\ stopper \in [Callers -> {"idle", "stopping", "spawning", "inline", "checking", "waiting"}]
        /\ UNCHANGED <<coordinator, told>>
    BY <1>2 DEF Begin, TypeOK
  <2>2. CASE Running
    <3>1. /\ \A d \in Callers : stopper[d] = "idle" /\ coordinator[d] = "none"
          /\ ~Running' /\ stopper' = [stopper EXCEPT ![c] = "stopping"]
      BY <1>2, <2>2 DEF Begin, Steps, Running, Alone
    <3> QED BY <2>1, <3>1 DEF Alone, Initiates
  <2>3. CASE ~Running
    <3>1. ~Running' /\ stopper' = [stopper EXCEPT ![c] = "checking"]
      BY <1>2, <2>3 DEF Begin, Steps, Running
    <3> QED BY <2>1, <3>1 DEF Alone, Initiates
  <2> QED BY <2>2, <2>3
<1>3. ASSUME NEW c \in Callers, Proceed(c) \/ Answer(c) \/ Finish(c)
      PROVE  Alone'
  <2> USE DEF Alone
  <2>1. stopper[c] # "idle" \/ coordinator[c] # "none"
    BY <1>3 DEF Proceed, Stop, Spawn, Throw, Check, Answer, Finish, Terminate, Clear, CleanedUp
  <2>2. ~Running /\ ~Running'
    BY <1>3, <2>1 DEF Proceed, Stop, Spawn, Throw, Check, Answer, Finish, Terminate, Clear,
                      CleanedUp, Running
  <2>3. \A d \in Callers : Initiates(d)' => Initiates(d)
    BY <1>3 DEF Initiates, Proceed, Stop, Spawn, Throw, Check, Answer, Finish, Terminate, Clear,
                CleanedUp, Steps, TypeOK
  <2>4. \A d \in Callers : stopper'[d] \in {"stopping", "spawning"} => coordinator'[d] = "none"
    BY <1>3 DEF Proceed, Stop, Spawn, Throw, Check, Answer, Finish, Terminate, Clear,
                CleanedUp, Steps, TypeOK
  <2> QED BY <2>2, <2>3, <2>4
<1>4. ASSUME Disable \/ TimePasses \/ UNCHANGED vars
      PROVE  UNCHANGED <<lifecycle, calls, finishing>>
  BY <1>4 DEF Disable, TimePasses, vars
<1> QED BY <1>1, <1>2, <1>3, <1>4, SessionsKeepOut, LoopsKeepOut DEF Next

LEMMA NextPhases ==
    ASSUME TypeOK, Locks, Alone, Phases, [Next]_vars
    PROVE  Phases'
<1> USE DEF Phases, Switched, lifecycle, deadlines, executions, sessions, delivery, calls, finishing
<1>1. ASSUME NEW s \in Sessions, SessionStep(s)
      PROVE  Phases'
  <2>1. UNCHANGED <<stopper, coordinator, redirectionMutex, shutdownState>>
    BY <1>1, SessionsKeepOut
  <2>2. CASE Create(s)
    <3>1. Running \/ UNCHANGED <<history, sessionMutex>>
      BY <2>2 DEF Create
    <3> QED BY <2>1, <3>1 DEF Alone
  <2>3. CASE Insert(s)
    <3>1. sessionMutex = s /\ s # NoOne
      BY <2>3, LifecycleAssumption DEF Insert, Locks
    <3> QED BY <2>1, <3>1
  <2>4. CASE ~Create(s) /\ ~Insert(s)
    <3>1. UNCHANGED <<history, sessionMutex>>
      BY <1>1, <2>4 DEF SessionStep, Execute, Submit, SubmitFails, Claim, Return, Notify, Notified,
                        End
    <3> QED BY <2>1, <3>1
  <2> QED BY <2>2, <2>3, <2>4
<1>2. ASSUME NEW l \in Loops, LoopStep(l)
      PROVE  Phases'
  <2>1. UNCHANGED <<stopper, coordinator, history, sessionMutex, shutdownState>>
    BY <1>2, LoopsKeepOut
  <2>2. Running \/ redirectionMutex' \in {redirectionMutex, NoOne}
    BY <1>2 DEF LoopStep, Call, Called, Leave, EnableLooks, EnableCounts, EnableFails
  <2> QED BY <2>1, <2>2 DEF Alone
<1>3. ASSUME NEW c \in Callers, Begin(c)
      PROVE  Phases'
  <2>1. UNCHANGED <<coordinator, history, sessionMutex, redirectionMutex>>
    BY <1>3 DEF Begin
  <2>2. \A d \in Callers : stopper'[d] \in {"spawning", "inline"} => stopper[d] = stopper'[d]
    BY <1>3 DEF Begin, Steps, TypeOK
  <2>3. shutdownState' = shutdownState \/ \A d \in Callers : coordinator[d] = "none"
    BY <1>3 DEF Begin, Alone
  <2> QED BY <2>1, <2>2, <2>3
<1>4. ASSUME NEW c \in Callers, Proceed(c)
      PROVE  Phases'
  <2>1. UNCHANGED <<history, sessionMutex, redirectionMutex, shutdownState>>
    BY <1>4 DEF Proceed, Stop, Spawn, Throw, Check
  <2>2. \A d \in Callers : coordinator'[d] \in {"cleanup", "cleared", "done"} =>
                             coordinator[d] = coordinator'[d]
    BY <1>4 DEF Proceed, Stop, Spawn, Throw, Check, TypeOK
  <2>3. \A d \in Callers : Switched(d)' => Switched(d) \/ redirectionMutex = NoOne
    BY <1>4 DEF Proceed, Stop, Spawn, Throw, Check, Steps, TypeOK
  <2> QED BY <2>1, <2>2, <2>3
<1>5. ASSUME NEW c \in Callers, Answer(c) \/ Finish(c)
      PROVE  Phases'
  <2>1. CASE Answer(c)
    BY <2>1 DEF Answer, Steps, TypeOK
  <2>2. CASE Terminate(c)
    BY <2>2 DEF Terminate, TypeOK
  <2>3. CASE Clear(c)
    BY <2>3 DEF Clear, TypeOK
  <2>4. CASE CleanedUp(c)
    BY <2>4 DEF CleanedUp, TypeOK
  <2> QED BY <1>5, <2>1, <2>2, <2>3, <2>4 DEF Finish
<1>6. ASSUME Disable \/ TimePasses \/ UNCHANGED vars
      PROVE  Phases'
  BY <1>6 DEF Disable, TimePasses, vars
<1> QED BY <1>1, <1>2, <1>3, <1>4, <1>5, <1>6 DEF Next

\* Once the history is cleared for good, nothing is admitted any more.
LEMMA NextTruth ==
    ASSUME TypeOK, Counts, Locks, Alone, Phases, Truth, [Next]_vars
    PROVE  Truth'
<1> USE DEF lifecycle, deadlines, executions, sessions, delivery, calls, finishing
<1>1. told => /\ shutdownState = "LibraryTerminated"
              /\ \A l \in Loops : redirectionMutex # l
  <2> SUFFICES ASSUME told
               PROVE  /\ shutdownState = "LibraryTerminated"
                      /\ \A l \in Loops : redirectionMutex # l
    OBVIOUS
  <2>1. PICK c \in Callers : coordinator[c] = "done"
    BY DEF Truth, Alone
  <2>2. redirectionMutex = NoOne
    BY <2>1 DEF Phases, Switched
  <2> QED BY <2>1, <2>2, LifecycleAssumption DEF Phases
<1>2. ASSUME UNCHANGED <<lifecycle, calls, finishing, pc, loop>>
      PROVE  Truth'
  BY <1>2 DEF Truth, Running, Executing, Delivering
<1>3. ASSUME NEW s \in Sessions, SessionStep(s)
      PROVE  Truth'
  <2>1. UNCHANGED <<lifecycle, delivery, calls, finishing>>
    BY <1>3, SessionsKeepOut
  <2>2. told /\ Executing = {} => Executing' = {}
    <3> SUFFICES ASSUME told, Executing = {}
                 PROVE  Executing' = {}
      OBVIOUS
    <3>1. \A r \in Sessions : pc[r] \notin Counted
      BY DEF Executing
    <3>2. PICK to \in Places \ Counted : Goes(s, to)
      BY <1>1, <1>3, <3>1 DEF SessionStep, Create, Insert, Execute, Submit, SubmitFails, Claim,
                              Return, Notify, Notified, End, Running, Places, Counted
    <3> QED BY <3>1, <3>2 DEF Executing, Goes, TypeOK
  <2> QED BY <2>1, <2>2 DEF Truth, Running, Delivering
<1>4. ASSUME NEW l \in Loops, LoopStep(l)
      PROVE  Truth'
  <2>1. UNCHANGED <<lifecycle, sessions, calls, finishing>>
    BY <1>4, LoopsKeepOut
  <2>2. told /\ Delivering = {} => Delivering' = {}
    <3> SUFFICES ASSUME told, Delivering = {}
                 PROVE  Delivering' = {}
      OBVIOUS
    <3>1. \A k \in Loops : loop[k] = "off"
      BY DEF Delivering
    <3>2. loop' = loop
      BY <1>1, <1>4, <3>1 DEF LoopStep, Call, Called, Leave, EnableLooks, EnableCounts, EnableFails
    <3> QED BY <3>1, <3>2 DEF Delivering
  <2> QED BY <2>1, <2>2 DEF Truth, Running, Executing
<1>5. ASSUME NEW c \in Callers, Begin(c)
      PROVE  Truth'
  <2>1. UNCHANGED <<coordinator, told, pc, loop>>
    BY <1>5 DEF Begin
  <2>2. \/ Running /\ shutdownCleanupPending' /\ ~told
        \/ ~Running /\ UNCHANGED <<shutdownState, shutdownCleanupPending>>
    BY <1>5 DEF Begin, Alone
  <2> QED BY <2>1, <2>2 DEF Truth, Running, Executing, Delivering
<1>6. ASSUME NEW c \in Callers, Proceed(c)
      PROVE  Truth'
  <2>1. UNCHANGED <<shutdownState, shutdownCleanupPending, told, pc, loop>>
    BY <1>6 DEF Proceed, Stop, Spawn, Throw, Check
  <2>2. \A d \in Callers : coordinator[d] = "done" => coordinator'[d] = "done"
    BY <1>6 DEF Proceed, Stop, Spawn, Throw, Check, Alone, TypeOK
  <2> QED BY <2>1, <2>2 DEF Truth, Running, Executing, Delivering
<1>7. ASSUME NEW c \in Callers, Answer(c)
      PROVE  Truth'
  <2>1. UNCHANGED <<lifecycle, finishing, pc, loop>>
    BY <1>7 DEF Answer
  <2>2. told' => told \/ Stopped
    BY <1>7 DEF Answer
  <2>3. Stopped => Executing = {} /\ Delivering = {} /\ ~shutdownCleanupPending
    BY FiniteThreads, FS_EmptySet DEF Stopped, Quiet, Counts
  <2> QED BY <2>1, <2>2, <2>3 DEF Truth, Running, Executing, Delivering
<1>8. ASSUME NEW c \in Callers, Finish(c)
      PROVE  Truth'
  <2>1. ~Running /\ UNCHANGED <<told, pc, loop>>
    BY <1>8 DEF Finish, Terminate, Clear, CleanedUp, Alone
  <2>2. \/ coordinator'[c] = "done" /\ ~shutdownCleanupPending'
        \/ /\ UNCHANGED shutdownCleanupPending
           /\ \A d \in Callers : coordinator[d] = "done" => coordinator'[d] = "done"
    BY <1>8 DEF Finish, Terminate, Clear, CleanedUp, TypeOK
  <2> QED BY <2>1, <2>2 DEF Truth, Running, Executing, Delivering
<1>9. ASSUME Disable \/ TimePasses \/ UNCHANGED vars
      PROVE  UNCHANGED <<lifecycle, calls, finishing, pc, loop>>
  BY <1>9 DEF Disable, TimePasses, vars
<1> QED BY <1>2, <1>3, <1>4, <1>5, <1>6, <1>7, <1>8, <1>9 DEF Next

-----------------------------------------------------------------------------
(***************************************************************************)
(* Everything together.                                                    *)
(***************************************************************************)
LEMMA InitIInv == Init => IInv
<1> SUFFICES ASSUME Init PROVE IInv
  OBVIOUS
<1>1. TypeOK
  BY DEF Init, TypeOK, Counted
<1>2. Counts
  <2>1. Executing = {} /\ Queued = {} /\ Calling = {}
    BY DEF Init, Executing, Queued, Calling, InCallback, Counted
  <2>2. Delivering = {current}
    BY DEF Init, Delivering
  <2> QED BY <2>1, <2>2, FS_EmptySet, FS_Singleton DEF Init, Counts
<1>3. Locks
  BY LifecycleAssumption DEF Init, Locks
<1>4. Alone /\ Phases /\ Truth
  BY DEF Init, Alone, Phases, Truth, Initiates, Switched, Running
<1> QED BY <1>1, <1>2, <1>3, <1>4 DEF IInv

LEMMA Inductive == Spec => []IInv
<1>1. IInv /\ [Next]_vars => IInv'
  BY NextTypeOK, NextCounts, NextLocks, NextAlone, NextPhases, NextTruth DEF IInv
<1> QED BY InitIInv, <1>1, PTL DEF Spec

\* Every variable has its type.
THEOREM TypeCorrect == Spec => []TypeOK
<1>1. IInv => TypeOK
  BY DEF IInv
<1> QED BY Inductive, <1>1, PTL

\* Any number of threads may call shutdown, from callbacks too: one initiates it
\* and one finishShutdown runs.
THEOREM ShutdownRunsOnce == Spec => []OneCoordinator
<1>1. IInv => OneCoordinator
  BY DEF IInv, Alone, Initiates, OneCoordinator
<1> QED BY Inductive, <1>1, PTL

\* clearSessions at the end of shutdown is the last word: no session that saw the
\* library running enters the history after it.
THEOREM ClearedForGood == Spec => []HistoryStaysEmpty
<1>1. IInv => HistoryStaysEmpty
  BY DEF IInv, Phases, HistoryStaysEmpty
<1> QED BY Inductive, <1>1, PTL

\* When shutdown has returned true, no execution and no loop runs, and none ever
\* will again.
THEOREM TrueIsTrue == Spec => []TrueMeansStopped
<1>1. IInv => TrueMeansStopped
  <2> SUFFICES ASSUME IInv, told PROVE TrueMeansStopped
    BY DEF TrueMeansStopped
  <2>1. Executing = {} /\ Delivering = {}
    BY DEF IInv, Truth
  <2>2. PICK c \in Callers : coordinator[c] = "done"
    BY DEF IInv, Truth, Alone
  <2>3. history = {}
    BY <2>2 DEF IInv, Phases
  <2> QED BY <2>1, <2>3 DEF TrueMeansStopped, Executing, Delivering
<1> QED BY Inductive, <1>1, PTL

\* Once the grace is over no thread enters a callback, whichever kind, and the library
\* never gets back to a state in which one could.
THEOREM GraceIsFinal == Spec => NoCallbackAfterGrace
<1> DEFINE Over == shutdownState = "LibraryTerminated"
           Stays == /\ UNCHANGED shutdownState
                    /\ \A c \in Callers : InCallback(c)' => InCallback(c)
<1> USE DEF lifecycle, deadlines, executions, sessions, delivery, calls, finishing
<1>1. ASSUME TypeOK, Over, [Next]_vars PROVE Stays
  <2>1. ~Running /\ ~CompletionAdmitted /\ ~DeliveryAdmitted
    BY <1>1 DEF Running, CompletionAdmitted, DeliveryAdmitted
  <2>2. ASSUME UNCHANGED <<shutdownState, pc, loop>> PROVE Stays
    BY <2>2 DEF InCallback
  <2>3. ASSUME NEW s \in Sessions, SessionStep(s) PROVE Stays
    <3>1. UNCHANGED <<lifecycle, delivery>>
      BY <2>3, SessionsKeepOut
    <3>2. \E to \in Places \ {"call1", "call2"} : Goes(s, to)
      BY <2>1, <2>3 DEF SessionStep, Create, Insert, Execute, Submit, SubmitFails, Claim,
                        Return, Notify, Notified, End, Places, Counted
    <3>3. \A r \in Sessions : pc'[r] \in {"call1", "call2"} => pc[r] \in {"call1", "call2"}
      BY <1>1, <3>2 DEF Goes, TypeOK
    <3> QED BY <3>1, <3>3 DEF InCallback
  <2>4. ASSUME NEW l \in Loops, LoopStep(l) PROVE Stays
    <3>1. UNCHANGED <<lifecycle, sessions>>
      BY <2>4, LoopsKeepOut
    <3>2. UNCHANGED loop \/ \E to \in {"on", "off"} : loop' = [loop EXCEPT ![l] = to]
      BY <2>1, <2>4 DEF LoopStep, Call, Called, Leave, EnableLooks, EnableCounts, EnableFails
    <3>3. \A k \in Loops : loop'[k] = "call" => loop[k] = "call"
      BY <1>1, <3>2 DEF TypeOK
    <3> QED BY <3>1, <3>3 DEF InCallback
  <2>5. ASSUME NEW c \in Callers, Begin(c) \/ Proceed(c) \/ Answer(c) \/ Finish(c)
        PROVE  UNCHANGED <<shutdownState, pc, loop>>
    BY <1>1, <2>1, <2>5 DEF Begin, Proceed, Stop, Spawn, Throw, Check, Answer,
                            Finish, Terminate, Clear, CleanedUp
  <2>6. ASSUME Disable \/ TimePasses \/ UNCHANGED vars
        PROVE  UNCHANGED <<shutdownState, pc, loop>>
    BY <2>6 DEF Disable, TimePasses, vars
  <2> HIDE DEF Stays
  <2> QED BY <1>1, <2>2, <2>3, <2>4, <2>5, <2>6 DEF Next
<1>2. TypeOK /\ [Next]_vars => [Over => Stays]_vars
  BY <1>1
<1> QED BY TypeCorrect, <1>2, PTL DEF Spec, NoCallbackAfterGrace
=============================================================================
