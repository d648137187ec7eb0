---------------------------- MODULE FFKitHistory ----------------------------
(***************************************************************************)
(* The session history: a list and a map of the latest sessions, which     *)
(* creating a session, a smaller size, deleteSession and clearSessions cut *)
(* down, and the listeners that are told of every session deleted from it. *)
(*                                                                         *)
(* Each critical section on sessionMutex and on sessionDeleteListenerMutex *)
(* is one action.  Listeners are called outside of both, so what one does  *)
(* to the history is what another thread could do.                         *)
(***************************************************************************)
EXTENDS SequencesExt, Sublists

CONSTANTS
    Threads,         \* application threads
    Staying,         \* delete listeners that are there all the time
    Leaving,         \* delete listeners that come and go
    Sizes,           \* arguments of setSessionHistorySize
    InitialSize,     \* the history size at the start
    SESSION_MAP_SIZE,
    MaxSessions      \* bound: the number of sessions created

ASSUME HistoryAssumption ==
    /\ IsFiniteSet(Staying \cup Leaving) /\ Staying \cap Leaving = {}
    /\ Sizes \subseteq Int
    /\ SESSION_MAP_SIZE \in Nat /\ InitialSize \in 1..SESSION_MAP_SIZE - 1
    /\ MaxSessions \in Nat

Listeners == Staying \cup Leaving
Ids == 1..MaxSessions

VARIABLES
    sessionIdGenerator,
    sessionHistoryList, sessionHistoryMap, sessionHistorySize,
    added,                  \* ids that have ever been in the history
    sessionDeleteListeners, \* weak references, in the order they were added
    held,                   \* listeners the application keeps alive
    pc, session,            \* where each thread is, and what it creates
    deleted,                \* ids it still has to tell the listeners of
    telling,                \* listeners it still has to tell of the first of them
    told,                   \* what each listener has been told
    shut                    \* shutdown was called

hist      == <<sessionHistoryList, sessionHistoryMap, sessionHistorySize, added>>
listening == <<sessionDeleteListeners, held>>
calls     == <<pc, session, deleted, telling>>
vars      == <<sessionIdGenerator, hist, listening, calls, told, shut>>

Init ==
    /\ sessionIdGenerator = 1
    /\ sessionHistoryList = <<>> /\ sessionHistoryMap = {} /\ sessionHistorySize = InitialSize
    /\ added = {}
    /\ sessionDeleteListeners \in SetToSeqs(Listeners) /\ held = Listeners
    /\ pc = [t \in Threads |-> "idle"] /\ session = [t \in Threads |-> 0]
    /\ deleted = [t \in Threads |-> <<>>] /\ telling = [t \in Threads |-> <<>>]
    /\ told = [l \in Listeners |-> <<>>]
    /\ shut = FALSE

-----------------------------------------------------------------------------
\* deleteExpiredSessionsLocked: the ids it takes from the front of a list.
Expired(list, n) == SubSeq(list, 1, Len(list) - n)

\* The thread will tell the listeners of these ids, after the history has changed.
Tells(t, ids) ==
    /\ deleted' = [deleted EXCEPT ![t] = ids]
    /\ pc' = [pc EXCEPT ![t] = IF ids = <<>> THEN "idle" ELSE "deleting"]

CutMapOnly(t, list, map, n) ==                                 \* mutant
    /\ sessionHistoryList' = list
    /\ sessionHistoryMap' = map \ ToSet(Expired(list, n))
    /\ Tells(t, Expired(list, n))
Cut(t, list, map, n) ==
    /\ sessionHistoryList' = SubSeq(list, Len(Expired(list, n)) + 1, Len(list))
    /\ sessionHistoryMap' = map \ ToSet(Expired(list, n))
    /\ Tells(t, Expired(list, n))

\* AbstractSession takes an id, and the factory that made it adds it a moment later.
Construct(t) ==
    /\ pc[t] = "idle" /\ sessionIdGenerator <= MaxSessions
    /\ session' = [session EXCEPT ![t] = sessionIdGenerator]
    /\ sessionIdGenerator' = sessionIdGenerator + 1
    /\ pc' = [pc EXCEPT ![t] = "created"]
    /\ UNCHANGED <<hist, listening, deleted, telling, told, shut>>

\* addSessionToSessionHistory.
AddSession(t) ==
    /\ pc[t] = "created"
    /\ IF ~shut /\ session[t] \notin sessionHistoryMap
       THEN /\ Cut(t, Append(sessionHistoryList, session[t]),
                   sessionHistoryMap \cup {session[t]}, sessionHistorySize)
            /\ added' = added \cup {session[t]}
       ELSE Tells(t, <<>>) /\ UNCHANGED <<sessionHistoryList, sessionHistoryMap, added>>
    /\ UNCHANGED <<sessionIdGenerator, sessionHistorySize, listening, session,
                   telling, told, shut>>

\* setSessionHistorySize: a size of SESSION_MAP_SIZE or more throws, and one
\* that is not positive does nothing.
SetSizeUnbounded(t) ==                                         \* mutant
    /\ pc[t] = "idle"
    /\ \E n \in Sizes : /\ 0 < n /\ n <= SESSION_MAP_SIZE
                        /\ sessionHistorySize' = n
                        /\ Cut(t, sessionHistoryList, sessionHistoryMap, n)
    /\ UNCHANGED <<sessionIdGenerator, added, listening, session, telling, told, shut>>
SetSize(t) ==
    /\ pc[t] = "idle"
    /\ \E n \in Sizes : /\ 0 < n /\ n < SESSION_MAP_SIZE
                        /\ sessionHistorySize' = n
                        /\ Cut(t, sessionHistoryList, sessionHistoryMap, n)
    /\ UNCHANGED <<sessionIdGenerator, added, listening, session, telling, told, shut>>

\* deleteSession: remove_if takes every entry with this id.
Others(list, i) == Sublist(list, {k \in 1..Len(list) : list[k] # i})

DeleteUnlocked(t) ==                                           \* mutant
    /\ pc[t] = "idle"
    /\ \E i \in 1..sessionIdGenerator - 1 :
         /\ sessionHistoryMap' = sessionHistoryMap \ {i}
         /\ sessionHistoryList' = Others(sessionHistoryList, i)
         /\ Tells(t, <<i>>)
    /\ UNCHANGED <<sessionIdGenerator, sessionHistorySize, added, listening, session,
                   telling, told, shut>>
Delete(t) ==
    /\ pc[t] = "idle"
    /\ \E i \in sessionHistoryMap :
         /\ sessionHistoryMap' = sessionHistoryMap \ {i}
         /\ sessionHistoryList' = Others(sessionHistoryList, i)
         /\ Tells(t, <<i>>)
    /\ UNCHANGED <<sessionIdGenerator, sessionHistorySize, added, listening, session,
                   telling, told, shut>>

\* clearSessions.
Clear(t) ==
    /\ pc[t] = "idle"
    /\ sessionHistoryList' = <<>> /\ sessionHistoryMap' = {}
    /\ Tells(t, sessionHistoryList)
    /\ UNCHANGED <<sessionIdGenerator, sessionHistorySize, added, listening, session,
                   telling, told, shut>>

-----------------------------------------------------------------------------
\* A weak reference can be locked while someone holds the listener: the
\* application, or a thread that is about to call it.
Alive(l) == l \in held \/ \E t \in Threads : l \in ToSet(telling[t])

\* What one of the walks over the listeners leaves, those in gone taken out.
Live(gone) ==
    Sublist(sessionDeleteListeners,
            {k \in 1..Len(sessionDeleteListeners) :
                /\ Alive(sessionDeleteListeners[k])
                /\ sessionDeleteListeners[k] \notin gone})

\* notifySessionDeleted: a snapshot of the listeners that are alive.
Look(t) ==
    /\ pc[t] = "deleting"
    /\ LET live == Live({}) IN
         /\ sessionDeleteListeners' = live
         /\ telling' = [telling EXCEPT ![t] = live]
    /\ pc' = [pc EXCEPT ![t] = "telling"]
    /\ UNCHANGED <<sessionIdGenerator, hist, held, session, deleted, told, shut>>

\* One listener is called, outside of any lock, if beginCallback lets it.
Tell(t) ==
    /\ pc[t] = "telling" /\ telling[t] # <<>> /\ ~shut
    /\ told' = [told EXCEPT ![Head(telling[t])] = Append(@, Head(deleted[t]))]
    /\ telling' = [telling EXCEPT ![t] = Tail(@)]
    /\ UNCHANGED <<sessionIdGenerator, hist, listening, pc, session, deleted, shut>>

\* notifySessionsDeleted goes on to its next id.
NextId(t) ==
    /\ pc[t] = "telling" /\ (telling[t] = <<>> \/ shut)
    /\ telling' = [telling EXCEPT ![t] = <<>>]
    /\ Tells(t, Tail(deleted[t]))
    /\ UNCHANGED <<sessionIdGenerator, hist, listening, session, told, shut>>

\* addSessionDeleteListener and removeSessionDeleteListener.
AddListener(l) ==
    /\ l \in held
    /\ sessionDeleteListeners' = Append(Live({l}), l)
    /\ UNCHANGED <<sessionIdGenerator, hist, held, calls, told, shut>>

RemoveListener(l) ==
    /\ l \in held
    /\ sessionDeleteListeners' = Live({l})
    /\ UNCHANGED <<sessionIdGenerator, hist, held, calls, told, shut>>

\* The application gives up its reference.
Forget(l) ==
    /\ held' = held \ {l}
    /\ UNCHANGED <<sessionIdGenerator, hist, sessionDeleteListeners, calls, told, shut>>

-----------------------------------------------------------------------------
Shutdown ==
    /\ shut' = TRUE
    /\ UNCHANGED <<sessionIdGenerator, hist, listening, calls, told>>

Next ==
    \/ \E t \in Threads :
         \/ Construct(t) \/ AddSession(t) \/ SetSize(t) \/ Delete(t) \/ Clear(t)
         \/ Look(t) \/ Tell(t) \/ NextId(t)
    \/ \E l \in Leaving : AddListener(l) \/ RemoveListener(l) \/ Forget(l)
    \/ Shutdown

Spec == Init /\ [][Next]_vars

-----------------------------------------------------------------------------
\* Every variable has its type.
TypeOK ==
    /\ sessionIdGenerator \in 1..MaxSessions + 1
    /\ sessionHistoryList \in Seq(Ids) /\ sessionHistoryMap \subseteq Ids
    /\ sessionHistorySize \in 1..SESSION_MAP_SIZE - 1 /\ added \subseteq Ids
    /\ sessionDeleteListeners \in Seq(Listeners) /\ held \subseteq Listeners
    /\ pc \in [Threads -> {"idle", "created", "deleting", "telling"}]
    /\ session \in [Threads -> Ids \cup {0}] /\ deleted \in [Threads -> Seq(Ids)]
    /\ telling \in [Threads -> Seq(Listeners)] /\ told \in [Listeners -> Seq(Ids)]
    /\ shut \in BOOLEAN

\* The list and the map hold the same sessions, each once, and never more of them
\* than the history size, whatever runs concurrently.
MapMatchesList ==
    /\ ToSet(sessionHistoryList) = sessionHistoryMap
    /\ Len(sessionHistoryList) = Cardinality(sessionHistoryMap)
    /\ Len(sessionHistoryList) <= sessionHistorySize

\* However two threads delete, clear and evict the same sessions while listeners
\* come, go and die, a listener is told of each of them once and of none that the
\* history still has; and of every session that has left the history, a listener
\* that stays has been told or some thread has yet to tell it.
ToldOnce ==
    /\ \A l \in Listeners :
        /\ IsInjective(told[l])
        /\ ToSet(told[l]) \cap sessionHistoryMap = {}
    /\ ~shut => \A l \in Staying, i \in added \ sessionHistoryMap :
        \/ i \in ToSet(told[l])
        \/ \E t \in Threads :
             /\ i \in ToSet(deleted[t])
             /\ pc[t] = "telling" /\ i = Head(deleted[t]) => l \in ToSet(telling[t])
=============================================================================
