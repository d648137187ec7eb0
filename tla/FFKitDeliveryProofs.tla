------------------------ MODULE FFKitDeliveryProofs ------------------------
(***************************************************************************)
(* What the delivery of messages guarantees for any number of sessions,    *)
(* messages, switching threads and generations of delivery loops.          *)
(***************************************************************************)
EXTENDS FFKitDelivery, FiniteSetTheorems, TLAPS

-----------------------------------------------------------------------------
(***************************************************************************)
(* Counting the messages of a queue.                                       *)
(***************************************************************************)
Places(q, k) == {i \in DOMAIN q : OfSlot(k, q[i])}

LEMMA PlacesFinite ==
    ASSUME NEW M, NEW q \in Seq(M), NEW k
    PROVE  IsFiniteSet(Places(q, k)) /\ Cardinality(Places(q, k)) \in Nat
<1>1. DOMAIN q = 1..Len(q) /\ Len(q) \in Nat
  OBVIOUS
<1>2. IsFiniteSet(1..Len(q))
  BY <1>1, FS_Interval
<1>3. Places(q, k) \in SUBSET (1..Len(q))
  BY <1>1 DEF Places
<1> QED BY <1>2, <1>3, FS_Subset, FS_CardinalityType

LEMMA PlacesOfEmpty ==
    ASSUME NEW k
    PROVE  Cardinality(Places(<<>>, k)) = 0
BY FS_EmptySet DEF Places

LEMMA PlacesOfAppend ==
    ASSUME NEW M, NEW q \in Seq(M), NEW m \in M, NEW k
    PROVE  Cardinality(Places(Append(q, m), k)) =
             Cardinality(Places(q, k)) + IF OfSlot(k, m) THEN 1 ELSE 0
<1> DEFINE r == Append(q, m)
           n == Len(q) + 1
<1>1. DOMAIN q = 1..Len(q) /\ Len(q) \in Nat
  OBVIOUS
<1>2. DOMAIN r = 1..n /\ r[n] = m /\ \A i \in 1..Len(q) : r[i] = q[i]
  OBVIOUS
<1> HIDE DEF r
<1>3. Places(r, k) = IF OfSlot(k, m) THEN Places(q, k) \cup {n} ELSE Places(q, k)
  BY <1>1, <1>2 DEF Places
<1>4. n \notin Places(q, k)
  BY <1>1 DEF Places
<1>5. IsFiniteSet(Places(q, k)) /\ Cardinality(Places(q, k)) \in Nat
  BY PlacesFinite
<1>6. Cardinality(Places(q, k) \cup {n}) = Cardinality(Places(q, k)) + 1
  BY <1>4, <1>5, FS_AddElement
<1>7. CASE OfSlot(k, m)
  BY <1>3, <1>6, <1>7 DEF r
<1>8. CASE ~OfSlot(k, m)
  BY <1>3, <1>5, <1>8 DEF r
<1> QED BY <1>7, <1>8

LEMMA PlacesOfTail ==
    ASSUME NEW M, NEW q \in Seq(M), q # <<>>, NEW k
    PROVE  Cardinality(Places(q, k)) =
             Cardinality(Places(Tail(q), k)) + IF OfSlot(k, Head(q)) THEN 1 ELSE 0
<1> DEFINE r == Tail(q)
           S == Places(r, k)
           T == Places(q, k) \ {1}
           f == [i \in S |-> i + 1]
<1>1. /\ DOMAIN q = 1..Len(q) /\ Len(q) \in Nat /\ Len(q) > 0
      /\ r \in Seq(M) /\ DOMAIN r = 1..Len(q) - 1
      /\ \A i \in 1..Len(q) - 1 : r[i] = q[i + 1]
      /\ Head(q) = q[1]
  OBVIOUS
<1> HIDE DEF r
<1>2. S \subseteq Nat /\ \A i \in S : i + 1 \in T
  BY <1>1 DEF Places
<1>3. \A j \in T : j - 1 \in S /\ f[j - 1] = j
  <2> SUFFICES ASSUME NEW j \in T PROVE j - 1 \in S /\ f[j - 1] = j
    OBVIOUS
  <2>1. j \in 2..Len(q) /\ OfSlot(k, q[j])
    BY <1>1 DEF Places
  <2>2. j - 1 \in 1..Len(q) - 1 /\ r[j - 1] = q[j]
    BY <1>1, <2>1
  <2>3. j - 1 \in S
    BY <1>1, <2>1, <2>2 DEF Places
  <2> QED BY <2>1, <2>3
<1> HIDE DEF S, T
<1>4. f \in Bijection(S, T)
  <2>1. f \in [S -> T] /\ \A a, b \in S : f[a] = f[b] => a = b
    BY <1>2
  <2>2. \A j \in T : \E i \in S : f[i] = j
    BY <1>3
  <2> QED BY <2>1, <2>2 DEF Bijection, Injection, Surjection, IsInjective
<1>5. ExistsBijection(S, T)
  BY <1>4 DEF ExistsBijection
<1>6. IsFiniteSet(S) /\ Cardinality(S) \in Nat /\ IsFiniteSet(Places(q, k)) /\ Cardinality(Places(q, k)) \in Nat
  BY <1>1, PlacesFinite DEF S
<1>7. Cardinality(T) = Cardinality(S)
  BY <1>5, <1>6, FS_Bijection
<1>8. 1 \in Places(q, k) <=> OfSlot(k, Head(q))
  BY <1>1 DEF Places
<1>9. Cardinality(T) = IF 1 \in Places(q, k) THEN Cardinality(Places(q, k)) - 1 ELSE Cardinality(Places(q, k))
  BY <1>6, FS_RemoveElement DEF T
<1> QED BY <1>6, <1>7, <1>8, <1>9 DEF S, r

-----------------------------------------------------------------------------
(***************************************************************************)
(* The parts of the invariant.                                             *)
(***************************************************************************)
\* Who switches the redirection on keeps redirectionMutex, and the loop it is about
\* to start has a generation of its own; the exit handlers come in between two of
\* them only.
SwitchInv ==
    /\ \A u \in Switchers : switcher[u] \in {"counting", "starting"} => mutex = u
    /\ mutex # Nobody => switcher[mutex] \in {"counting", "starting"}
    /\ \A u \in Switchers : switcher[u] = "counting" => generation < MaxGenerations
    /\ \A u \in Switchers :
          switcher[u] = "starting" => loop[generation] = "none" /\ generation \in callbackThreads
    /\ exiter # Nobody => mutex = Nobody

\* A loop that has been started and has not finished is one that somebody will join.
Counted == {"top", "taking", "waiting", "leaving"} \cup Delivering

LoopInv ==
    /\ \A g \in Generations : g > generation => loop[g] = "none"
    /\ \A g \in Generations : held[g] # <<>> <=> loop[g] \in Delivering
    /\ ~exited => \A g \in Generations : loop[g] \in Counted \cup {"left"} => g \in callbackThreads
    /\ exited => exiter # Nobody

\* activeDeliveryLoops counts a loop from the moment before it is started.
CountedLoops == {g \in Generations : loop[g] \in Counted}
Pending      == IF mutex # Nobody /\ switcher[mutex] = "starting" THEN 1 ELSE 0
CountInv     == activeDeliveryLoops = Cardinality(CountedLoops) + Pending

IInv == TypeOK /\ SwitchInv /\ LoopInv /\ CountInv /\ TransitCounted /\ ExitStopsLoops

-----------------------------------------------------------------------------
LEMMA SlotType == \A id \in Ids : Slot(id) \in Slots
  BY DeliveryAssumption DEF Slot, Slots

LEMMA GenerationsFacts ==
    /\ IsFiniteSet(Generations) /\ 1 \in Generations /\ Generations \subseteq Nat
    /\ \A n \in Generations : n < MaxGenerations => n + 1 \in Generations
<1>1. MaxGenerations \in Nat /\ 1 \in Nat /\ MaxGenerations >= 1
  BY DeliveryAssumption
<1> QED BY <1>1, FS_Interval DEF Generations

LEMMA LoopSetsFinite ==
    /\ IsFiniteSet(CountedLoops) /\ Cardinality(CountedLoops) \in Nat
    /\ \A k : IsFiniteSet(Taken(k)) /\ Cardinality(Taken(k)) \in Nat
<1>1. CountedLoops \in SUBSET Generations /\ \A k : Taken(k) \in SUBSET Generations
  BY DEF CountedLoops, Taken
<1> QED BY <1>1, GenerationsFacts, FS_Subset, FS_CardinalityType

\* A loop that delivers is counted, and so is its message.
LEMMA DelivererCounts ==
    ASSUME IInv, NEW g \in Generations, loop[g] \in Delivering
    PROVE  /\ Head(held[g]) \in Message /\ held[g] = <<Head(held[g])>>
           /\ Slot(Head(held[g]).session) \in Slots
           /\ inTransit[Slot(Head(held[g]).session)] > 0
<1>1. held[g] # <<>> /\ held[g] \in {<<>>} \cup {<<m>> : m \in Message}
  BY DEF IInv, LoopInv, TypeOK
<1>2. PICK m \in Message : held[g] = <<m>>
  BY <1>1
<1>3. Head(held[g]) = m
  BY <1>2
<1>4. Slot(m.session) \in Slots
  BY SlotType DEF Message
<1>5. g \in Taken(Slot(m.session))
  BY <1>1, <1>3 DEF Taken, OfSlot
<1>6. Cardinality(Taken(Slot(m.session))) > 0
  BY <1>5, LoopSetsFinite, FS_EmptySet
<1>7. Cardinality(Waiting(Slot(m.session))) \in Nat
  BY PlacesFinite DEF IInv, TypeOK, Waiting, Places
<1>8. inTransit[Slot(m.session)] > 0
  BY <1>4, <1>6, <1>7, LoopSetsFinite DEF IInv, TransitCounted
<1> QED BY <1>2, <1>3, <1>4, <1>8

\* The number of loops after loop g has gone to a new place.
LEMMA CountAfter ==
    ASSUME TypeOK, NEW g \in Generations, NEW p, loop' = [loop EXCEPT ![g] = p]
    PROVE  /\ p \in Counted /\ loop[g] \in Counted => CountedLoops' = CountedLoops
           /\ p \notin Counted /\ loop[g] \notin Counted => CountedLoops' = CountedLoops
           /\ p \in Counted /\ loop[g] \notin Counted
                => Cardinality(CountedLoops') = Cardinality(CountedLoops) + 1
           /\ p \notin Counted /\ loop[g] \in Counted
                => Cardinality(CountedLoops') = Cardinality(CountedLoops) - 1
<1>1. \A h \in Generations : loop'[h] = IF h = g THEN p ELSE loop[h]
  BY DEF TypeOK
<1>2. CASE p \in Counted
  <2>1. CountedLoops' = CountedLoops \cup {g}
    BY <1>1, <1>2 DEF CountedLoops
  <2> QED BY <1>2, <2>1, LoopSetsFinite, FS_AddElement DEF CountedLoops
<1>3. CASE p \notin Counted
  <2>1. CountedLoops' = CountedLoops \ {g}
    BY <1>1, <1>3 DEF CountedLoops
  <2> QED BY <1>3, <2>1, LoopSetsFinite, FS_RemoveElement DEF CountedLoops
<1> QED BY <1>2, <1>3

\* A loop on its way out, and a start that fails, were counted.
LEMMA StillCounted ==
    ASSUME IInv
    PROVE  /\ \A g \in Generations : loop[g] \in Counted => activeDeliveryLoops > 0
           /\ \A u \in Switchers : switcher[u] = "starting" => activeDeliveryLoops > 0
<1>1. Cardinality(CountedLoops) \in Nat /\ activeDeliveryLoops = Cardinality(CountedLoops) + Pending
  BY LoopSetsFinite DEF IInv, CountInv
<1>2. Pending \in {0, 1}
  BY DEF Pending
<1>3. \A g \in Generations : loop[g] \in Counted => Cardinality(CountedLoops) > 0
  BY <1>1, LoopSetsFinite, FS_EmptySet DEF CountedLoops
<1>4. \A u \in Switchers : switcher[u] = "starting" => Pending = 1
  BY DeliveryAssumption DEF IInv, SwitchInv, Pending
<1> QED BY <1>1, <1>2, <1>3, <1>4

LEMMA DiscardType ==
    ASSUME TypeOK, NEW n, Discard(n)
    PROVE  /\ discarded' \in BOOLEAN /\ callbackDataList' \in Seq(Message)
           /\ inTransit' \in [Slots -> Nat]
<1>1. CASE ~Running /\ n = 0 /\ ~discarded
  <2>1. discarded' = TRUE /\ callbackDataList' = <<>> /\ inTransit' = [k \in Slots |-> 0]
    BY <1>1 DEF Discard
  <2>2. <<>> \in Seq(Message)
    OBVIOUS
  <2> QED BY <2>1, <2>2
<1>2. CASE ~(~Running /\ n = 0 /\ ~discarded)
  BY <1>2 DEF Discard, TypeOK
<1> QED BY <1>1, <1>2

-----------------------------------------------------------------------------
LEMMA NextTypeOK ==
    ASSUME IInv, [Next]_vars
    PROVE  TypeOK'
<1> USE DEF TypeOK, Delivering, Unstarted
<1>i. TypeOK /\ SwitchInv /\ LoopInv
  BY DEF IInv
<1>1. ASSUME NEW id \in Ids, Log(id) PROVE TypeOK'
  BY <1>i, <1>1 DEF Log, levelled, queue, switches, loops, exit
<1>2. ASSUME NEW id \in Ids, NEW level \in LevelsOf[id], Enqueue(id, level) PROVE TypeOK'
  <2>1. CASE Running
    <3> DEFINE m == [session |-> id, number |-> accepted[id] + 1, level |-> level]
    <3>1. m \in Message /\ accepted[id] + 1 \in Nat
      BY <1>i, DeliveryAssumption DEF Message
    <3>2. callbackDataList' = Append(callbackDataList, m)
      BY <1>2, <2>1 DEF Enqueue
    <3> HIDE DEF m
    <3>3. callbackDataList' \in Seq(Message)
      BY <1>i, <3>1, <3>2
    <3>4. accepted' \in [Ids -> Nat]
      BY <1>i, <1>2, <2>1, <3>1 DEF Enqueue
    <3>5. inTransit' \in [Slots -> Nat]
      BY <1>i, <1>2, <2>1, SlotType DEF Enqueue
    <3> QED BY <1>i, <1>2, <3>3, <3>4, <3>5 DEF Enqueue, levelled, switches, loops, exit
  <2>2. CASE ~Running
    BY <1>i, <1>2, <2>2 DEF Enqueue, queue, levelled, switches, loops, exit
  <2> QED BY <2>1, <2>2
<1>3. ASSUME NEW g \in Generations, Check(g) \/ WaitEnds(g) \/ Finished(g) PROVE TypeOK'
  BY <1>i, <1>3 DEF Check, WaitEnds, Finished, levelled, queue, switches, exit
<1>4. ASSUME NEW g \in Generations, Take(g) PROVE TypeOK'
  <2>1. CASE callbackDataList = <<>>
    BY <1>i, <1>4, <2>1 DEF Take, levelled, switches, exit
  <2>2. CASE callbackDataList # <<>>
    <3>1. Head(callbackDataList) \in Message /\ Tail(callbackDataList) \in Seq(Message)
      BY <1>i, <2>2
    <3>2. held' = [held EXCEPT ![g] = <<Head(callbackDataList)>>]
      BY <1>4, <2>2 DEF Take
    <3>3. held' \in [Generations -> {<<>>} \cup {<<m>> : m \in Message}]
      BY <1>i, <3>1, <3>2
    <3> QED BY <1>i, <1>4, <2>2, <3>1, <3>3 DEF Take, levelled, switches, exit
  <2> QED BY <2>1, <2>2
<1>5. ASSUME NEW g \in Generations, Store(g) PROVE TypeOK'
  <2>1. Head(held[g]) \in Message
    BY <1>5, DelivererCounts DEF Store
  <2>2. Head(held[g]).session \in Ids /\ Head(held[g]).number \in Nat \ {0}
    BY <2>1 DEF Message
  <2>3. logs' \in [Ids -> Seq(Nat \ {0})] /\ filtered' \subseteq Message
    <3> DEFINE m == Head(held[g])
    <3>1. CASE AboveLevel(m)
      BY <1>i, <1>5, <2>1, <3>1 DEF Store, Filter
    <3>2. CASE ~AboveLevel(m)
      <4>1. logs' = [logs EXCEPT ![m.session] = Append(@, m.number)] /\ filtered' = filtered
        BY <1>5, <3>2 DEF Store
      <4> HIDE DEF m
      <4>2. m.session \in Ids /\ m.number \in Nat \ {0}
        BY <2>2 DEF m
      <4> QED BY <1>i, <4>1, <4>2
    <3> QED BY <3>1, <3>2
  <2> QED BY <1>i, <1>5, <2>3 DEF Store, Filter, queue, switches, exit
<1>6. ASSUME NEW g \in Generations, Deliver(g) PROVE TypeOK'
  <2> DEFINE k == Slot(Head(held[g]).session)
  <2>1. k \in Slots /\ inTransit[k] > 0 /\ inTransit[k] \in Nat
    BY <1>i, <1>6, DelivererCounts DEF Deliver
  <2>2. inTransit' = [inTransit EXCEPT ![k] = @ - 1]
    BY <1>6 DEF Deliver
  <2> HIDE DEF k
  <2>3. inTransit' \in [Slots -> Nat]
    BY <1>i, <2>1, <2>2
  <2> QED BY <1>i, <1>6, <2>3 DEF Deliver, levelled, switches, exit
<1>7. ASSUME NEW g \in Generations, Leave(g) PROVE TypeOK'
  <2>1. activeDeliveryLoops - 1 \in Nat
    BY <1>i, <1>7, StillCounted DEF Leave, Counted
  <2>2. /\ discarded' \in BOOLEAN /\ callbackDataList' \in Seq(Message)
        /\ inTransit' \in [Slots -> Nat]
    BY <1>i, <1>7, DiscardType DEF Leave
  <2> QED BY <1>i, <1>7, <2>1, <2>2 DEF Leave, levelled, switches, exit
<1>8. ASSUME NEW u \in Switchers, EnableReaps(u) \/ DisableReaps(u) PROVE TypeOK'
  BY <1>i, <1>8 DEF EnableReaps, DisableReaps, Reap, levelled, queue, loops, exit
<1>9. ASSUME NEW u \in Switchers, EnableLooks(u) PROVE TypeOK'
  BY <1>i, <1>9 DEF EnableLooks, levelled, queue, loops, exit
<1>10. ASSUME NEW u \in Switchers, EnableCounts(u) PROVE TypeOK'
  <2>1. generation + 1 \in Generations
    BY <1>i, <1>10, GenerationsFacts DEF EnableCounts, SwitchInv
  <2> QED BY <1>i, <1>10, <2>1 DEF EnableCounts, levelled, queue, loops, exit
<1>11. ASSUME NEW u \in Switchers, EnableStarts(u) PROVE TypeOK'
  BY <1>i, <1>11 DEF EnableStarts, levelled, queue, exit
<1>12. ASSUME NEW u \in Switchers, EnableFails(u) PROVE TypeOK'
  <2>1. activeDeliveryLoops - 1 \in Nat
    BY <1>i, <1>12, StillCounted DEF EnableFails
  <2> QED BY <1>i, <1>12, <2>1 DEF EnableFails, levelled, queue, exit
<1>13. ASSUME NEW u \in Switchers, Disable(u) PROVE TypeOK'
  BY <1>i, <1>13 DEF Disable, SwitchOff, levelled, queue, loops, exit
<1>14. CASE Shutdown
  BY <1>i, <1>14 DEF Shutdown, levelled, queue, switches, loops, exit
<1>15. CASE ShutdownDisables
  BY <1>i, <1>15 DEF ShutdownDisables, SwitchOff, levelled, queue, loops, exit
<1>16. CASE ShutdownDiscards
  <2>1. /\ discarded' \in BOOLEAN /\ callbackDataList' \in Seq(Message)
        /\ inTransit' \in [Slots -> Nat]
    BY <1>i, <1>16, DiscardType DEF ShutdownDiscards
  <2> QED BY <1>i, <1>16, <2>1 DEF ShutdownDiscards, levelled, switches, loops, exit
<1>17. ASSUME NEW x \in Switchers \cup Generations, Exit(x) PROVE TypeOK'
  BY <1>i, <1>17 DEF Exit, levelled, queue, loops
<1>18. CASE ExitJoins
  BY <1>i, <1>18 DEF ExitJoins, levelled, queue, switches, loops
<1>19. ASSUME NEW level \in Levels \cup {LevelAVLogQuiet}, SetLogLevel(level) PROVE TypeOK'
  BY <1>i, <1>19 DEF SetLogLevel, queue, switches, loops, exit
<1>20. CASE UNCHANGED vars
  BY <1>i, <1>20 DEF vars, levelled, queue, switches, loops, exit
<1> QED BY <1>1, <1>2, <1>3, <1>4, <1>5, <1>6, <1>7, <1>8, <1>9, <1>10, <1>11, <1>12, <1>13, <1>14,
           <1>15, <1>16, <1>17, <1>18, <1>19, <1>20 DEF Next, Produce, Loop, Enable

LEMMA NextSwitchInv ==
    ASSUME IInv, [Next]_vars
    PROVE  SwitchInv'
<1> USE DEF SwitchInv
<1>i. TypeOK /\ SwitchInv /\ LoopInv
  BY DEF IInv
<1>s. DOMAIN switcher = Switchers /\ DOMAIN loop = Generations /\ Nobody \notin Switchers
  BY <1>i, DeliveryAssumption DEF TypeOK
<1>0. ASSUME UNCHANGED <<generation, mutex, switcher, loop, callbackThreads, exiter>> PROVE SwitchInv'
  BY <1>i, <1>0
<1>1. ASSUME NEW id \in Ids, Produce(id) PROVE SwitchInv'
  BY <1>0, <1>1 DEF Produce, Log, Enqueue, switches, loops, exit
<1>2. ASSUME NEW g \in Generations, Loop(g) PROVE SwitchInv'
  <2>1. /\ loop[g] # "none" /\ \E p : loop' = [loop EXCEPT ![g] = p]
        /\ UNCHANGED <<generation, mutex, switcher, callbackThreads, exiter>>
    BY <1>2 DEF Loop, Check, Take, WaitEnds, Store, Filter, Deliver, Leave, Finished, switches, exit
  <2>2. \A h \in Generations : loop[h] = "none" => loop'[h] = "none"
    BY <1>s, <2>1
  <2> QED BY <1>i, <2>1, <2>2 DEF TypeOK
<1>3. ASSUME NEW u \in Switchers, EnableReaps(u) \/ DisableReaps(u) PROVE SwitchInv'
  <2>1. /\ \E next \in {"enabling", "idle"} : switcher' = [switcher EXCEPT ![u] = next]
        /\ callbackThreads' = callbackThreads \ Reapable(callbackThreads)
        /\ mutex = Nobody /\ UNCHANGED <<generation, mutex, loop, exiter>>
    BY <1>3 DEF EnableReaps, DisableReaps, Reap, loops, exit
  <2>2. \A v \in Switchers : switcher'[v] \notin {"counting", "starting"}
    BY <1>i, <1>s, <2>1
  <2> QED BY <1>i, <1>s, <2>1, <2>2
<1>4. ASSUME NEW u \in Switchers, EnableLooks(u) PROVE SwitchInv'
  <2>1. /\ mutex = Nobody /\ UNCHANGED <<generation, loop, callbackThreads, exiter>>
        /\ \/ /\ mutex' = u /\ switcher' = [switcher EXCEPT ![u] = "counting"]
              /\ exiter = Nobody /\ generation < MaxGenerations
           \/ mutex' = mutex /\ switcher' = [switcher EXCEPT ![u] = "idle"]
    BY <1>4 DEF EnableLooks, loops, exit
  <2> QED BY <1>i, <1>s, <2>1
<1>5. ASSUME NEW u \in Switchers, EnableCounts(u) PROVE SwitchInv'
  <2>1. /\ switcher[u] = "counting" /\ switcher' = [switcher EXCEPT ![u] = "starting"]
        /\ generation' = generation + 1 /\ callbackThreads' = callbackThreads \cup {generation'}
        /\ UNCHANGED <<mutex, loop, exiter>>
    BY <1>5 DEF EnableCounts, loops, exit
  <2>2. generation' \in Generations /\ generation' > generation
    BY <1>i, <2>1, GenerationsFacts DEF TypeOK
  <2>3. loop[generation'] = "none"
    BY <1>i, <2>2 DEF LoopInv
  <2> QED BY <1>i, <1>s, <2>1, <2>3
<1>6. ASSUME NEW u \in Switchers, EnableStarts(u) \/ EnableFails(u) PROVE SwitchInv'
  <2>1. /\ switcher[u] = "starting" /\ switcher' = [switcher EXCEPT ![u] = "idle"]
        /\ mutex' = Nobody /\ UNCHANGED <<generation, exiter>>
    BY <1>6 DEF EnableStarts, EnableFails, exit
  <2> QED BY <1>i, <1>s, <2>1
<1>7. ASSUME NEW u \in Switchers, Disable(u) PROVE SwitchInv'
  <2>1. /\ mutex = Nobody /\ UNCHANGED <<generation, mutex, loop, callbackThreads, exiter>>
        /\ \E p \in {"reaping", "idle"} : switcher' = [switcher EXCEPT ![u] = p]
    BY <1>7 DEF Disable, loops, exit
  <2> QED BY <1>i, <1>s, <2>1
<1>8. CASE Shutdown \/ ShutdownDiscards
  BY <1>0, <1>8 DEF Shutdown, ShutdownDiscards, switches, loops, exit
<1>9. CASE ShutdownDisables
  <2>1. mutex = Nobody /\ UNCHANGED <<generation, mutex, switcher, loop, exiter>>
    BY <1>9 DEF ShutdownDisables, loops, exit
  <2> QED BY <1>i, <1>s, <2>1
<1>10. ASSUME NEW x \in Switchers \cup Generations, Exit(x) PROVE SwitchInv'
  <2>1. mutex = Nobody /\ UNCHANGED <<generation, mutex, switcher, loop, callbackThreads>>
    BY <1>10 DEF Exit, loops
  <2> QED BY <1>i, <2>1
<1>11. CASE ExitJoins
  <2>1. exiter # Nobody /\ UNCHANGED <<generation, mutex, switcher, loop, exiter>>
    BY <1>11 DEF ExitJoins, switches, loops
  <2> QED BY <1>i, <1>s, <2>1
<1>12. CASE UNCHANGED vars
  BY <1>0, <1>12 DEF vars, switches, loops, exit
<1>13. ASSUME NEW level \in Levels \cup {LevelAVLogQuiet}, SetLogLevel(level) PROVE SwitchInv'
  BY <1>0, <1>13 DEF SetLogLevel, switches, loops, exit
<1> QED BY <1>1, <1>2, <1>3, <1>4, <1>5, <1>6, <1>7, <1>8, <1>9, <1>10, <1>11, <1>12, <1>13 DEF Next, Enable

LEMMA NextLoopInv ==
    ASSUME IInv, [Next]_vars
    PROVE  LoopInv' /\ ExitStopsLoops'
<1> DEFINE Good == LoopInv /\ ExitStopsLoops
<1> USE DEF LoopInv, ExitStopsLoops, Counted, Delivering, Unstarted
<1>i. TypeOK /\ SwitchInv /\ LoopInv /\ ExitStopsLoops
  BY DEF IInv
<1>s. DOMAIN switcher = Switchers /\ DOMAIN loop = Generations /\ DOMAIN held = Generations
      /\ Nobody \notin Switchers \cup Generations
  BY <1>i, DeliveryAssumption DEF TypeOK, Generations
<1>0. ASSUME UNCHANGED <<generation, loop, held, callbackThreads, exiter, exited>> PROVE Good'
  BY <1>i, <1>0
<1>1. ASSUME NEW id \in Ids, Produce(id) PROVE Good'
  BY <1>0, <1>1 DEF Produce, Log, Enqueue, switches, loops, exit
<1>2. ASSUME NEW g \in Generations, Loop(g) PROVE Good'
  <2>1. loop[g] \in Counted \cup {"left"} /\ UNCHANGED <<generation, callbackThreads, exiter, exited>>
    BY <1>2 DEF Loop, Check, Take, WaitEnds, Store, Filter, Deliver, Leave, Finished, switches, exit
  <2>2. /\ \A h \in Generations \ {g} : loop'[h] = loop[h] /\ held'[h] = held[h]
        /\ loop'[g] # "none" /\ (held'[g] # <<>> <=> loop'[g] \in Delivering)
    <3>1. CASE Check(g) \/ WaitEnds(g) \/ Leave(g) \/ Finished(g)
      <4>1. /\ loop[g] \notin Delivering /\ held' = held
            /\ \E p \in {"taking", "leaving", "top", "left", "finished"} : loop' = [loop EXCEPT ![g] = p]
        BY <3>1 DEF Check, WaitEnds, Leave, Finished
      <4> QED BY <1>i, <1>s, <4>1
    <3>2. CASE Take(g)
      <4>1. loop[g] = "taking"
            /\ \/ loop' = [loop EXCEPT ![g] = "waiting"] /\ held' = held
               \/ \E m : loop' = [loop EXCEPT ![g] = "storing"] /\ held' = [held EXCEPT ![g] = <<m>>]
        BY <3>2 DEF Take
      <4> QED BY <1>i, <1>s, <4>1
    <3>3. CASE Store(g)
      BY <1>i, <1>s, <3>3 DEF Store, Filter
    <3>4. CASE Deliver(g)
      BY <1>i, <1>s, <3>4 DEF Deliver
    <3> QED BY <1>2, <3>1, <3>2, <3>3, <3>4 DEF Loop
  <2> QED BY <1>i, <2>1, <2>2
<1>3. ASSUME NEW u \in Switchers, EnableReaps(u) \/ DisableReaps(u) PROVE Good'
  BY <1>i, <1>3 DEF EnableReaps, DisableReaps, Reap, Reapable, loops, exit
<1>4. ASSUME NEW u \in Switchers, EnableLooks(u) \/ Disable(u) PROVE Good'
  BY <1>0, <1>4 DEF EnableLooks, Disable, loops, exit
<1>5. ASSUME NEW u \in Switchers, EnableCounts(u) PROVE Good'
  <2>1. /\ generation' = generation + 1 /\ callbackThreads' = callbackThreads \cup {generation'}
        /\ UNCHANGED <<loop, held, exiter, exited>>
    BY <1>5 DEF EnableCounts, loops, exit
  <2>2. generation \in Nat /\ Generations \subseteq Nat
    BY <1>i, GenerationsFacts DEF TypeOK
  <2>3. \A g \in Generations : g > generation' => g > generation
    BY <2>1, <2>2
  <2>4. /\ \A g \in Generations : g > generation' => loop'[g] = "none"
        /\ \A g : g \in callbackThreads => g \in callbackThreads'
    BY <1>i, <2>1, <2>3
  <2> QED BY <1>i, <2>1, <2>4
<1>6. ASSUME NEW u \in Switchers, EnableStarts(u) \/ EnableFails(u) PROVE Good'
  <2>1. /\ switcher[u] = "starting" /\ UNCHANGED <<generation, held, exiter, exited>>
        /\ \/ loop' = [loop EXCEPT ![generation] = "top"] /\ callbackThreads' = callbackThreads
           \/ loop' = [loop EXCEPT ![generation] = "failed"]
              /\ callbackThreads' = callbackThreads \ {generation}
    BY <1>6 DEF EnableStarts, EnableFails, exit
  <2>2. ~exited /\ generation \in callbackThreads /\ loop[generation] = "none" /\ generation \in Generations
    BY <1>i, <1>s, <2>1 DEF SwitchInv, TypeOK
  <2>3. \A h \in Generations : /\ h # generation => loop'[h] = loop[h]
                               /\ loop'[generation] \in {"top", "failed"}
    BY <1>s, <2>1, <2>2
  <2>4. generation \in Nat /\ Generations \subseteq Nat
    BY <1>i, GenerationsFacts DEF TypeOK
  <2>5. \A h \in Generations : h \in callbackThreads => h \in callbackThreads' \/ loop'[h] = "failed"
    BY <1>s, <2>1, <2>2
  <2> QED BY <1>i, <2>1, <2>2, <2>3, <2>4, <2>5
<1>7. CASE Shutdown \/ ShutdownDiscards
  BY <1>0, <1>7 DEF Shutdown, ShutdownDiscards, switches, loops, exit
<1>8. CASE ShutdownDisables
  BY <1>i, <1>8 DEF ShutdownDisables, Reapable, loops, exit
<1>9. ASSUME NEW x \in Switchers \cup Generations, Exit(x) PROVE Good'
  <2>1. exiter = Nobody /\ UNCHANGED <<generation, loop, held, callbackThreads, exited>>
    BY <1>9 DEF Exit, loops
  <2> QED BY <1>i, <2>1
<1>10. CASE ExitJoins
  <2>1. /\ exiter # Nobody /\ ~exited /\ \A g \in callbackThreads \ {exiter} : loop[g] = "finished"
        /\ UNCHANGED <<generation, loop, held, exiter>> /\ exited'
    BY <1>10 DEF ExitJoins, switches, loops
  <2> QED BY <1>i, <2>1 DEF TypeOK
<1>11. CASE UNCHANGED vars
  BY <1>0, <1>11 DEF vars, switches, loops, exit
<1>12. ASSUME NEW level \in Levels \cup {LevelAVLogQuiet}, SetLogLevel(level) PROVE Good'
  BY <1>0, <1>12 DEF SetLogLevel, switches, loops, exit
<1> QED BY <1>1, <1>2, <1>3, <1>4, <1>5, <1>6, <1>7, <1>8, <1>9, <1>10, <1>11, <1>12 DEF Next, Enable

LEMMA NextCountInv ==
    ASSUME IInv, [Next]_vars
    PROVE  CountInv'
<1>i. TypeOK /\ SwitchInv /\ CountInv
  BY DEF IInv
<1>s. DOMAIN switcher = Switchers /\ Nobody \notin Switchers /\ activeDeliveryLoops \in Nat
      /\ Cardinality(CountedLoops) \in Nat
  BY <1>i, LoopSetsFinite, DeliveryAssumption DEF TypeOK
<1>0. ASSUME UNCHANGED <<mutex, switcher, loop, activeDeliveryLoops>> PROVE CountInv'
  BY <1>i, <1>0 DEF CountInv, CountedLoops, Pending
<1>1. ASSUME NEW id \in Ids, Produce(id) PROVE CountInv'
  BY <1>0, <1>1 DEF Produce, Log, Enqueue, switches, loops
<1>2. ASSUME NEW g \in Generations, Loop(g) PROVE CountInv'
  <2>1. UNCHANGED <<mutex, switcher>>
    BY <1>2 DEF Loop, Check, Take, WaitEnds, Store, Filter, Deliver, Leave, Finished, switches
  <2>2. Pending' = Pending
    BY <2>1 DEF Pending
  <2>3. CASE Leave(g)
    <3>1. /\ activeDeliveryLoops' = activeDeliveryLoops - 1
          /\ loop[g] \in Counted /\ "left" \notin Counted /\ loop' = [loop EXCEPT ![g] = "left"]
      BY <2>3 DEF Leave, Counted, Delivering
    <3>2. Cardinality(CountedLoops') = Cardinality(CountedLoops) - 1
      BY <1>i, <3>1, CountAfter
    <3> QED BY <1>i, <1>s, <2>2, <3>1, <3>2 DEF CountInv, Pending
  <2>4. CASE Finished(g)
    <3>1. /\ activeDeliveryLoops' = activeDeliveryLoops
          /\ loop[g] \notin Counted /\ "finished" \notin Counted /\ loop' = [loop EXCEPT ![g] = "finished"]
      BY <2>4 DEF Finished, Counted, Delivering
    <3>2. CountedLoops' = CountedLoops
      BY <1>i, <3>1, CountAfter
    <3> QED BY <1>i, <2>2, <3>1, <3>2 DEF CountInv
  <2>5. CASE Check(g) \/ Take(g) \/ WaitEnds(g) \/ Store(g) \/ Deliver(g)
    <3>1. /\ activeDeliveryLoops' = activeDeliveryLoops /\ loop[g] \in Counted
          /\ \E p \in Counted : loop' = [loop EXCEPT ![g] = p]
      BY <2>5 DEF Check, Take, WaitEnds, Store, Filter, Deliver, Counted, Delivering
    <3>2. CountedLoops' = CountedLoops
      BY <1>i, <3>1, CountAfter
    <3> QED BY <1>i, <2>2, <3>1, <3>2 DEF CountInv
  <2> QED BY <1>2, <2>3, <2>4, <2>5 DEF Loop
<1>3. ASSUME NEW u \in Switchers, EnableReaps(u) \/ DisableReaps(u) \/ EnableLooks(u) \/ Disable(u)
      PROVE CountInv'
  <2>1. /\ UNCHANGED <<loop, activeDeliveryLoops>> /\ mutex = Nobody
        /\ mutex' = mutex \/ (mutex' = u /\ switcher' = [switcher EXCEPT ![u] = "counting"])
    BY <1>3 DEF EnableReaps, DisableReaps, Reap, EnableLooks, Disable, loops
  <2>2. Pending = 0 /\ Pending' = 0
    BY <1>s, <2>1 DEF Pending
  <2>3. CountedLoops' = CountedLoops
    BY <2>1 DEF CountedLoops
  <2> QED BY <1>i, <2>1, <2>2, <2>3 DEF CountInv
<1>4. ASSUME NEW u \in Switchers, EnableCounts(u) PROVE CountInv'
  <2>1. /\ activeDeliveryLoops' = activeDeliveryLoops + 1 /\ UNCHANGED <<mutex, loop>>
        /\ switcher[u] = "counting" /\ switcher' = [switcher EXCEPT ![u] = "starting"]
    BY <1>4 DEF EnableCounts, loops
  <2>2. mutex = u
    BY <1>i, <2>1 DEF SwitchInv
  <2>3. Pending = 0 /\ Pending' = 1
    BY <1>s, <2>1, <2>2 DEF Pending
  <2>4. CountedLoops' = CountedLoops
    BY <2>1 DEF CountedLoops
  <2> QED BY <1>i, <1>s, <2>1, <2>3, <2>4 DEF CountInv
<1>5. ASSUME NEW u \in Switchers, EnableStarts(u) \/ EnableFails(u) PROVE CountInv'
  <2>1. /\ switcher[u] = "starting" /\ mutex' = Nobody
        /\ \/ /\ loop' = [loop EXCEPT ![generation] = "top"]
              /\ activeDeliveryLoops' = activeDeliveryLoops
           \/ /\ loop' = [loop EXCEPT ![generation] = "failed"]
              /\ activeDeliveryLoops' = activeDeliveryLoops - 1
    BY <1>5 DEF EnableStarts, EnableFails
  <2>2. mutex = u /\ loop[generation] = "none" /\ generation \in Generations
    BY <1>i, <2>1 DEF SwitchInv, TypeOK
  <2>3. Pending = 1 /\ Pending' = 0
    BY <1>s, <2>1, <2>2 DEF Pending
  <2>4. "top" \in Counted /\ "failed" \notin Counted /\ "none" \notin Counted
    BY DEF Counted, Delivering
  <2>5. CASE loop' = [loop EXCEPT ![generation] = "top"] /\ activeDeliveryLoops' = activeDeliveryLoops
    <3>1. Cardinality(CountedLoops') = Cardinality(CountedLoops) + 1
      BY <1>i, <2>2, <2>4, <2>5, CountAfter
    <3> QED BY <1>i, <1>s, <2>3, <2>5, <3>1 DEF CountInv
  <2>6. CASE loop' = [loop EXCEPT ![generation] = "failed"] /\ activeDeliveryLoops' = activeDeliveryLoops - 1
    <3>1. CountedLoops' = CountedLoops
      BY <1>i, <2>2, <2>4, <2>6, CountAfter
    <3> QED BY <1>i, <1>s, <2>3, <2>6, <3>1 DEF CountInv
  <2> QED BY <2>1, <2>5, <2>6
<1>6. CASE Shutdown \/ ShutdownDisables \/ ShutdownDiscards \/ ExitJoins \/ UNCHANGED vars
  BY <1>0, <1>6 DEF Shutdown, ShutdownDisables, ShutdownDiscards, ExitJoins, vars, switches, loops
<1>7. ASSUME NEW x \in Switchers \cup Generations, Exit(x) PROVE CountInv'
  BY <1>0, <1>7 DEF Exit, loops
<1>8. ASSUME NEW level \in Levels \cup {LevelAVLogQuiet}, SetLogLevel(level) PROVE CountInv'
  BY <1>0, <1>8 DEF SetLogLevel, switches, loops
<1> QED BY <1>1, <1>2, <1>3, <1>4, <1>5, <1>6, <1>7, <1>8 DEF Next, Enable

-----------------------------------------------------------------------------
\* When no loop is counted nobody delivers, so the discard leaves no count behind.
LEMMA DiscardKeeps ==
    ASSUME IInv, NEW n, Discard(n), held' = held, n = 0 => \A k : Taken(k) = {}
    PROVE  TransitCounted'
<1>1. \A k : Taken(k)' = Taken(k)
  BY DEF Taken, OfSlot
<1>2. CASE ~Running /\ n = 0 /\ ~discarded
  <2>1. callbackDataList' = <<>> /\ inTransit' = [k \in Slots |-> 0]
    BY <1>2 DEF Discard
  <2>2. \A k : Waiting(k)' = {}
    BY <2>1 DEF Waiting
  <2> QED BY <1>1, <1>2, <2>1, <2>2, FS_EmptySet DEF TransitCounted
<1>3. CASE ~(~Running /\ n = 0 /\ ~discarded)
  <2>1. UNCHANGED <<callbackDataList, inTransit>>
    BY <1>3 DEF Discard
  <2>2. \A k : Waiting(k)' = Waiting(k)
    BY <2>1 DEF Waiting, OfSlot
  <2> QED BY <1>1, <2>1, <2>2 DEF TransitCounted, IInv
<1> QED BY <1>2, <1>3

LEMMA NobodyDelivers ==
    ASSUME IInv, Cardinality(CountedLoops) = 0
    PROVE  \A k : Taken(k) = {}
<1>1. CountedLoops = {}
  BY LoopSetsFinite, FS_EmptySet
<1> QED BY <1>1 DEF CountedLoops, Counted, Taken, IInv, LoopInv

LEMMA NextTransitCounted ==
    ASSUME IInv, [Next]_vars
    PROVE  TransitCounted'
<1>i. TypeOK /\ SwitchInv /\ LoopInv /\ CountInv /\ TransitCounted
  BY DEF IInv
<1>q. callbackDataList \in Seq(Message) /\ DOMAIN inTransit = Slots /\ DOMAIN held = Generations
  BY <1>i DEF TypeOK
<1>w. \A k : /\ Waiting(k) = Places(callbackDataList, k) /\ Waiting(k)' = Places(callbackDataList', k)
             /\ Cardinality(Waiting(k)) \in Nat
  BY <1>q, PlacesFinite DEF Waiting, Places, OfSlot
<1>t. \A k : IsFiniteSet(Taken(k)) /\ Cardinality(Taken(k)) \in Nat
  BY LoopSetsFinite
<1>0. ASSUME UNCHANGED <<callbackDataList, inTransit, held>> PROVE TransitCounted'
  BY <1>i, <1>0 DEF TransitCounted, Waiting, Taken, OfSlot
<1>1. ASSUME NEW id \in Ids, Produce(id) PROVE TransitCounted'
  <2>1. CASE Log(id) \/ ~Running
    BY <1>0, <1>1, <2>1 DEF Produce, Log, Enqueue, queue, loops
  <2>2. ASSUME NEW level \in LevelsOf[id], Enqueue(id, level), Running PROVE TransitCounted'
    <3> DEFINE m == [session |-> id, number |-> accepted[id] + 1, level |-> level]
    <3>1. /\ callbackDataList' = Append(callbackDataList, m) /\ held' = held
          /\ inTransit' = [inTransit EXCEPT ![Slot(id)] = @ + 1]
      BY <2>2 DEF Enqueue, loops
    <3>2. m \in Message /\ m.session = id
      BY <1>i, DeliveryAssumption DEF TypeOK, Message
    <3> HIDE DEF m
    <3>3. ASSUME NEW k \in Slots
          PROVE  inTransit'[k] = Cardinality(Waiting(k)') + Cardinality(Taken(k)')
      <4>1. Taken(k)' = Taken(k)
        BY <3>1 DEF Taken, OfSlot
      <4>2. inTransit[k] = Cardinality(Waiting(k)) + Cardinality(Taken(k))
        BY <1>i DEF TransitCounted
      <4>3. CASE Slot(id) = k
        <5>1. OfSlot(k, m)
          BY <3>2, <4>3 DEF OfSlot
        <5>2. Cardinality(Waiting(k)') = Cardinality(Waiting(k)) + 1
          BY <1>q, <1>w, <3>1, <3>2, <5>1, PlacesOfAppend
        <5> QED BY <1>q, <1>w, <1>t, <3>1, <4>1, <4>2, <4>3, <5>2
      <4>4. CASE Slot(id) # k
        <5>1. ~OfSlot(k, m)
          BY <3>2, <4>4 DEF OfSlot
        <5>2. Cardinality(Waiting(k)') = Cardinality(Waiting(k))
          BY <1>q, <1>w, <3>1, <3>2, <5>1, PlacesOfAppend
        <5> QED BY <1>q, <3>1, <4>1, <4>2, <4>4, <5>2
      <4> QED BY <4>3, <4>4
    <3> QED BY <3>3 DEF TransitCounted
  <2> QED BY <1>1, <2>1, <2>2 DEF Produce
<1>2. ASSUME NEW g \in Generations, Check(g) \/ WaitEnds(g) \/ Store(g) \/ Finished(g) PROVE TransitCounted'
  BY <1>0, <1>2 DEF Check, WaitEnds, Store, Finished, queue
<1>3. ASSUME NEW g \in Generations, Take(g) PROVE TransitCounted'
  <2>1. CASE callbackDataList = <<>>
    BY <1>0, <1>3, <2>1 DEF Take
  <2>2. CASE callbackDataList # <<>>
    <3> DEFINE m == Head(callbackDataList)
    <3>1. /\ callbackDataList' = Tail(callbackDataList) /\ inTransit' = inTransit
          /\ held' = [held EXCEPT ![g] = <<m>>] /\ loop[g] = "taking"
      BY <1>3, <2>2 DEF Take
    <3>2. held[g] = <<>>
      BY <1>i, <3>1 DEF LoopInv, Delivering
    <3>n. \A k : Cardinality(Places(callbackDataList', k)) \in Nat
      <4>1. Tail(callbackDataList) \in Seq(Message)
        BY <1>q, <2>2
      <4> QED BY <3>1, <4>1, PlacesFinite
    <3>3. ASSUME NEW k \in Slots
          PROVE  inTransit'[k] = Cardinality(Waiting(k)') + Cardinality(Taken(k)')
      <4>1. inTransit[k] = Cardinality(Waiting(k)) + Cardinality(Taken(k)) /\ inTransit'[k] = inTransit[k]
        BY <1>i, <3>1 DEF TransitCounted
      <4>2. \A h \in Generations : held'[h] = IF h = g THEN <<m>> ELSE held[h]
        BY <1>q, <3>1
      <4>3. g \notin Taken(k) /\ Head(<<m>>) = m /\ <<m>> # <<>>
        BY <3>2 DEF Taken
      <4>4. CASE OfSlot(k, m)
        <5>1. Taken(k)' = Taken(k) \cup {g}
          BY <3>2, <4>2, <4>3, <4>4 DEF Taken, OfSlot
        <5>2. Cardinality(Waiting(k)) = Cardinality(Places(callbackDataList', k)) + 1
          BY <1>q, <1>w, <2>2, <3>1, <4>4, PlacesOfTail
        <5>3. Cardinality(Waiting(k)') = Cardinality(Places(callbackDataList', k))
          BY <1>w
        <5>4. Cardinality(Taken(k)') = Cardinality(Taken(k)) + 1
          BY <1>t, <4>3, <5>1, FS_AddElement
        <5> QED BY <1>w, <1>t, <3>n, <4>1, <5>2, <5>3, <5>4
      <4>5. CASE ~OfSlot(k, m)
        <5>1. Taken(k)' = Taken(k)
          BY <3>2, <4>2, <4>3, <4>5 DEF Taken, OfSlot
        <5>2. Cardinality(Waiting(k)) = Cardinality(Places(callbackDataList', k))
          BY <1>q, <1>w, <2>2, <3>1, <3>n, <4>5, PlacesOfTail
        <5>3. Cardinality(Waiting(k)') = Cardinality(Places(callbackDataList', k))
          BY <1>w
        <5> QED BY <4>1, <5>1, <5>2, <5>3
      <4> QED BY <4>4, <4>5
    <3> QED BY <3>3 DEF TransitCounted
  <2> QED BY <2>1, <2>2
<1>4. ASSUME NEW g \in Generations, Deliver(g) PROVE TransitCounted'
  <2> DEFINE s == Slot(Head(held[g]).session)
  <2>1. /\ inTransit' = [inTransit EXCEPT ![s] = @ - 1] /\ held' = [held EXCEPT ![g] = <<>>]
        /\ callbackDataList' = callbackDataList /\ loop[g] \in Delivering
    BY <1>4 DEF Deliver, Delivering
  <2>2. held[g] # <<>>
    BY <1>i, <2>1 DEF LoopInv
  <2>3. ASSUME NEW k \in Slots
        PROVE  inTransit'[k] = Cardinality(Waiting(k)') + Cardinality(Taken(k)')
    <3>1. inTransit[k] = Cardinality(Waiting(k)) + Cardinality(Taken(k))
      BY <1>i DEF TransitCounted
    <3>2. Waiting(k)' = Waiting(k)
      BY <2>1 DEF Waiting, OfSlot
    <3>3. Taken(k)' = Taken(k) \ {g}
      BY <1>q, <2>1 DEF Taken, OfSlot
    <3>4. g \in Taken(k) <=> s = k
      BY <2>2 DEF Taken, OfSlot
    <3>5. inTransit'[k] = IF s = k THEN inTransit[k] - 1 ELSE inTransit[k]
      BY <1>q, <2>1
    <3> HIDE DEF s
    <3>6. Cardinality(Taken(k)') = IF g \in Taken(k) THEN Cardinality(Taken(k)) - 1 ELSE Cardinality(Taken(k))
      BY <1>t, <3>3, FS_RemoveElement
    <3> QED BY <1>w, <1>t, <3>1, <3>2, <3>4, <3>5, <3>6
  <2> QED BY <2>3 DEF TransitCounted
<1>5. ASSUME NEW g \in Generations, Leave(g) PROVE TransitCounted'
  <2>1. loop[g] = "leaving" /\ held' = held /\ Discard(activeDeliveryLoops - 1)
    BY <1>5 DEF Leave
  <2>2. ASSUME activeDeliveryLoops - 1 = 0 PROVE \A k : Taken(k) = {}
    <3>1. g \in CountedLoops /\ Cardinality(CountedLoops) \in Nat /\ activeDeliveryLoops \in Nat
      BY <1>i, <2>1, LoopSetsFinite DEF CountedLoops, Counted, TypeOK
    <3>2. Pending \in {0, 1} /\ Cardinality(CountedLoops) # 0
      BY <3>1, LoopSetsFinite, FS_EmptySet DEF Pending
    <3>3. Cardinality(CountedLoops) = 1
      BY <1>i, <2>2, <3>1, <3>2 DEF CountInv
    <3>4. CountedLoops = {g}
      BY <3>1, <3>3, LoopSetsFinite, FS_Singleton
    <3> QED BY <1>i, <2>1, <3>4 DEF CountedLoops, Counted, Delivering, Taken, LoopInv
  <2> QED BY <2>1, <2>2, DiscardKeeps
<1>6. CASE ShutdownDiscards
  <2>1. held' = held /\ Discard(activeDeliveryLoops)
    BY <1>6 DEF ShutdownDiscards, loops
  <2>2. ASSUME activeDeliveryLoops = 0 PROVE Cardinality(CountedLoops) = 0
    BY <1>i, <2>2, LoopSetsFinite DEF CountInv, Pending
  <2> QED BY <2>1, <2>2, NobodyDelivers, DiscardKeeps
<1>7. ASSUME NEW u \in Switchers, EnableReaps(u) \/ Enable(u) \/ Disable(u) \/ DisableReaps(u)
      PROVE TransitCounted'
  BY <1>0, <1>7 DEF EnableReaps, Reap, Enable, EnableLooks, EnableCounts, EnableStarts, EnableFails,
                    Disable, DisableReaps, queue, loops
<1>8. CASE Shutdown \/ ShutdownDisables \/ ExitJoins \/ UNCHANGED vars
  BY <1>0, <1>8 DEF Shutdown, ShutdownDisables, ExitJoins, queue, loops, vars
<1>9. ASSUME NEW x \in Switchers \cup Generations, Exit(x) PROVE TransitCounted'
  BY <1>0, <1>9 DEF Exit, queue, loops
<1>10. ASSUME NEW level \in Levels \cup {LevelAVLogQuiet}, SetLogLevel(level) PROVE TransitCounted'
  BY <1>0, <1>10 DEF SetLogLevel, queue, loops
<1> QED BY <1>1, <1>2, <1>3, <1>4, <1>5, <1>6, <1>7, <1>8, <1>9, <1>10 DEF Next, Loop

-----------------------------------------------------------------------------
LEMMA InitIInv == Init => IInv
<1> SUFFICES ASSUME Init PROVE IInv
  OBVIOUS
<1> USE DEF Init
<1>g. 1 \in Generations /\ IsFiniteSet(Generations) /\ Generations \subseteq Nat
  BY GenerationsFacts
<1>n. Nobody \notin Switchers \cup Generations
  BY DeliveryAssumption DEF Generations
<1>1. TypeOK
  <2>1. callbackDataList \in Seq(Message) /\ inTransit \in [Slots -> Nat]
    OBVIOUS
  <2>2. logs \in [Ids -> Seq(Nat \ {0})] /\ filtered \subseteq Message /\ accepted \in [Ids -> Nat]
    OBVIOUS
  <2>3. loop \in [Generations -> {"top", "none"}] /\ held \in [Generations -> {<<>>}]
    OBVIOUS
  <2>4. callbackThreads \subseteq Generations /\ activeDeliveryLoops \in Nat /\ generation \in Generations
    BY <1>g
  <2> QED BY <2>1, <2>2, <2>3, <2>4 DEF TypeOK, Unstarted
<1>2. SwitchInv
  BY DEF SwitchInv
<1>3. LoopInv /\ ExitStopsLoops
  BY <1>g DEF LoopInv, ExitStopsLoops, Counted, Delivering
<1>4. CountInv
  <2>1. CountedLoops = {1} /\ Pending = 0
    BY <1>g DEF CountedLoops, Counted, Delivering, Pending
  <2>2. Cardinality({1}) = 1
    BY FS_Singleton
  <2> QED BY <2>1, <2>2 DEF CountInv
<1>5. TransitCounted
  <2>1. \A k : Waiting(k) = {} /\ Taken(k) = {}
    BY DEF Waiting, Taken
  <2>2. \A k : Cardinality(Waiting(k)) = 0 /\ Cardinality(Taken(k)) = 0
    BY <2>1, FS_EmptySet
  <2>3. \A k \in Slots : inTransit[k] = 0
    OBVIOUS
  <2> HIDE DEF Init
  <2> QED BY <2>2, <2>3 DEF TransitCounted
<1> QED BY <1>1, <1>2, <1>3, <1>4, <1>5 DEF IInv

LEMMA Inductive == Spec => []IInv
<1>1. IInv /\ [Next]_vars => IInv'
  BY NextTypeOK, NextSwitchInv, NextLoopInv, NextCountInv, NextTransitCounted DEF IInv
<1> QED BY <1>1, InitIInv, PTL DEF Spec

\* Every variable of the delivery keeps its type: neither activeDeliveryLoops nor a
\* count of messages in transit falls below zero (callbackThreadFunction,
\* MessageInTransit).
THEOREM TypeCorrect == Spec => []TypeOK
<1>1. IInv => TypeOK
  BY DEF IInv
<1> QED BY <1>1, Inductive, PTL

\* For any number of sessions, slots, loops and switching threads, the count of a
\* slot is the number of its messages that wait or are being delivered, through
\* the discard of shutdown as well (sessionInTransitMessageCountMap).
THEOREM TransitIsExact == Spec => []TransitCounted
<1>1. IInv => TransitCounted
  BY DEF IInv
<1> QED BY <1>1, Inductive, PTL

\* When the exit handlers are done, none of any number of delivery loops runs but
\* the one below which exit was called (CallbackThreadShutdown).
THEOREM ExitLeavesNoLoop == Spec => []ExitStopsLoops
<1>1. IInv => ExitStopsLoops
  BY DEF IInv
<1> QED BY <1>1, Inductive, PTL

-----------------------------------------------------------------------------
(***************************************************************************)
(* What is delivered.  Messages of a session are queued, taken and stored  *)
(* by ascending numbers, as long as one loop stores at a time; more may    *)
(* after the redirection was switched on again.  Those that were above the *)
(* level are missing from the logs and from nowhere else.                  *)
(***************************************************************************)
Storing  == {g \in Generations : loop[g] = "storing"}
Hand(g)  == Head(held[g])
Done(id) == Range(logs[id]) \cup Dropped(id)

Queued ==
    \A i \in DOMAIN callbackDataList :
        /\ callbackDataList[i].number <= accepted[callbackDataList[i].session]
        /\ \A j \in DOMAIN callbackDataList :
              i < j /\ callbackDataList[i].session = callbackDataList[j].session
                => callbackDataList[i].number < callbackDataList[j].number

InHand ==
    \A g \in Storing :
        /\ Hand(g).number <= accepted[Hand(g).session]
        /\ \A i \in DOMAIN callbackDataList :
              callbackDataList[i].session = Hand(g).session => Hand(g).number < callbackDataList[i].number
        /\ \A h \in Storing \ {g} : Hand(g).session = Hand(h).session => Hand(g).number # Hand(h).number

Before ==
    \A id \in Ids : \A n \in Done(id) :
        /\ n <= accepted[id]
        /\ \A i \in DOMAIN callbackDataList :
              callbackDataList[i].session = id => n < callbackDataList[i].number
        /\ \A g \in Storing : Hand(g).session = id => Hand(g).number # n

Once == \A id \in Ids : IsInjective(logs[id]) /\ Range(logs[id]) \cap Dropped(id) = {}

\* Until shutdown discards them, no message that was accepted gets lost.
Complete ==
    ~discarded => \A id \in Ids : \A n \in 1..accepted[id] :
        \/ n \in Done(id)
        \/ \E i \in DOMAIN callbackDataList :
              callbackDataList[i].session = id /\ callbackDataList[i].number = n
        \/ \E g \in Storing : Hand(g).session = id /\ Hand(g).number = n

Ascending(id) ==
    /\ \A a, b \in DOMAIN logs[id] : a < b => logs[id][a] < logs[id][b]
    /\ \A g \in Storing : Hand(g).session = id =>
          \A a \in DOMAIN logs[id] : logs[id][a] < Hand(g).number
InOrder == generation = 1 => \A id \in Ids : Ascending(id)

Spared == \A m \in filtered : m.level # LevelAVLogStdErr

Numbered == Queued /\ InHand /\ Before /\ Once /\ Complete /\ InOrder /\ Spared

LEMMA HandType ==
    ASSUME IInv, NEW g \in Storing
    PROVE  Hand(g) \in Message /\ Hand(g).session \in Ids /\ Hand(g).number \in Nat \ {0}
BY DelivererCounts DEF Storing, Delivering, Hand, Message

LEMMA LogsType ==
    ASSUME TypeOK, NEW id \in Ids
    PROVE  /\ DOMAIN logs[id] = 1..Len(logs[id]) /\ Len(logs[id]) \in Nat
           /\ \A a \in DOMAIN logs[id] : logs[id][a] \in Nat \ {0} /\ logs[id][a] \in Done(id)
           /\ Done(id) \subseteq Nat \ {0}
<1>1. logs[id] \in Seq(Nat \ {0})
  BY DEF TypeOK
<1>2. /\ DOMAIN logs[id] = 1..Len(logs[id]) /\ Len(logs[id]) \in Nat
      /\ \A a \in DOMAIN logs[id] : logs[id][a] \in Nat \ {0}
  BY <1>1
<1>3. Dropped(id) \subseteq Nat \ {0}
  BY DEF TypeOK, Dropped, Message
<1> QED BY <1>2, <1>3 DEF Done, Range

\* What is not disturbed while no message moves.
LEMMA QuietKeepsNumbered ==
    ASSUME Numbered, UNCHANGED <<callbackDataList, accepted, logs, filtered, discarded>>,
           generation' = 1 => generation = 1,
           Storing' = Storing, \A g \in Storing : held'[g] = held[g]
    PROVE  Numbered'
<1>1. \A g \in Storing : Hand(g)' = Hand(g)
  BY DEF Hand
<1>2. \A id : Done(id)' = Done(id) /\ Dropped(id)' = Dropped(id)
  BY DEF Done, Dropped
<1>3. Queued' /\ Spared'
  BY DEF Numbered, Queued, Spared
<1>4. InHand'
  BY <1>1 DEF Numbered, InHand
<1>5. Before'
  BY <1>1, <1>2 DEF Numbered, Before
<1>6. Complete'
  BY <1>1, <1>2 DEF Numbered, Complete
<1>7. Once'
  BY <1>2 DEF Numbered, Once
<1>8. InOrder'
  BY <1>1 DEF Numbered, InOrder, Ascending
<1> QED BY <1>3, <1>4, <1>5, <1>6, <1>7, <1>8 DEF Numbered

LEMMA DiscardKeepsNumbered ==
    ASSUME Numbered, NEW n, Discard(n), UNCHANGED <<accepted, logs, filtered, generation, held>>,
           Storing' = Storing
    PROVE  Numbered'
<1>1. \A g : Hand(g)' = Hand(g)
  BY DEF Hand
<1>2. CASE ~Running /\ n = 0 /\ ~discarded
  <2>1. callbackDataList' = <<>> /\ discarded'
    BY <1>2 DEF Discard
  <2>2. DOMAIN callbackDataList' = {}
    BY <2>1
  <2>3. \A id : Done(id)' = Done(id) /\ Dropped(id)' = Dropped(id)
    BY DEF Done, Dropped
  <2>4. Queued' /\ InHand' /\ Before'
    BY <1>1, <2>2, <2>3 DEF Numbered, Queued, InHand, Before
  <2>5. Once' /\ Complete' /\ Spared'
    BY <2>1, <2>3 DEF Numbered, Once, Complete, Spared
  <2>6. InOrder'
    BY <1>1 DEF Numbered, InOrder, Ascending
  <2> QED BY <2>4, <2>5, <2>6 DEF Numbered
<1>3. CASE ~(~Running /\ n = 0 /\ ~discarded)
  BY <1>3, QuietKeepsNumbered DEF Discard
<1> QED BY <1>2, <1>3

LEMMA EnqueueKeepsNumbered ==
    ASSUME IInv, Numbered, NEW id \in Ids, NEW level \in LevelsOf[id], Enqueue(id, level), Running
    PROVE  Numbered'
<1> DEFINE q == callbackDataList
           m == [session |-> id, number |-> accepted[id] + 1, level |-> level]
           n == Len(q) + 1
<1>1. /\ callbackDataList' = Append(q, m) /\ accepted' = [accepted EXCEPT ![id] = @ + 1]
      /\ UNCHANGED <<logs, filtered, loop, held, discarded, generation>>
  BY DEF Enqueue, levelled, switches, loops
<1>2. q \in Seq(Message) /\ DOMAIN accepted = Ids /\ \A j \in Ids : accepted[j] \in Nat
  BY DEF IInv, TypeOK
<1>3. m \in Message /\ m.session = id /\ m.number = accepted[id] + 1
  BY <1>2, DeliveryAssumption DEF Message
<1>4. /\ DOMAIN q = 1..Len(q) /\ Len(q) \in Nat /\ DOMAIN callbackDataList' = 1..n
      /\ callbackDataList'[n] = m /\ \A i \in DOMAIN q : callbackDataList'[i] = q[i]
  <2> HIDE DEF m
  <2> QED BY <1>1, <1>2, <1>3
<1>5. \A i \in DOMAIN q : q[i].session \in Ids /\ q[i].number \in Nat
  <2>1. \A i \in DOMAIN q : q[i] \in Message
    BY <1>2, <1>4
  <2> QED BY <2>1 DEF Message
<1>6. \A j \in Ids : accepted'[j] = IF j = id THEN accepted[id] + 1 ELSE accepted[j]
  BY <1>1, <1>2
<1>7. Storing' = Storing /\ (\A g : Hand(g)' = Hand(g)) /\ (\A j : Done(j)' = Done(j) /\ Dropped(j)' = Dropped(j))
  BY <1>1 DEF Storing, Hand, Done, Dropped
<1>8. \A g \in Storing : Hand(g).session \in Ids /\ Hand(g).number \in Nat
  BY HandType
<1>9. \A j \in Ids : Done(j) \subseteq Nat
  BY LogsType DEF IInv
<1> HIDE DEF m, n
<1>10. Queued'
  <2>1. \A i \in 1..n : i \in DOMAIN q \/ i = n
    BY <1>4 DEF n
  <2>2. \A i \in DOMAIN q : i < n /\ ~(n < i)
    BY <1>4 DEF n
  <2>3. ~(n < n)
    BY <1>4 DEF n
  <2>4. \A i \in DOMAIN q : q[i].number <= accepted[q[i].session]
    BY DEF Numbered, Queued
  <2>5. \A i \in DOMAIN q : q[i].session = id => q[i].number < m.number
    BY <1>2, <1>3, <1>5, <2>4
  <2>6. \A i \in DOMAIN q : q[i].number <= accepted'[q[i].session]
    BY <1>2, <1>5, <1>6, <2>4
  <2>7. m.number <= accepted'[m.session]
    BY <1>2, <1>3, <1>6
  <2>8. \A i, j \in DOMAIN q : i < j /\ q[i].session = q[j].session => q[i].number < q[j].number
    BY DEF Numbered, Queued
  <2> QED BY <1>3, <1>4, <2>1, <2>2, <2>3, <2>5, <2>6, <2>7, <2>8 DEF Queued
<1>11. InHand'
  <2>1. \A i \in DOMAIN callbackDataList' : i \in DOMAIN q \/ i = n
    BY <1>4 DEF n
  <2>2. ASSUME NEW g \in Storing
        PROVE  /\ Hand(g).number <= accepted'[Hand(g).session]
               /\ Hand(g).session = id => Hand(g).number < m.number
    <3>1. Hand(g).number <= accepted[Hand(g).session]
      BY DEF Numbered, InHand
    <3> QED BY <1>2, <1>3, <1>6, <1>8, <3>1
  <2> QED BY <1>3, <1>4, <1>7, <2>1, <2>2 DEF Numbered, InHand
<1>12. Before'
  <2>1. \A i \in DOMAIN callbackDataList' : i \in DOMAIN q \/ i = n
    BY <1>4 DEF n
  <2>2. ASSUME NEW j \in Ids, NEW x \in Done(j)
        PROVE  x <= accepted'[j] /\ (j = id => x < m.number)
    <3>1. x <= accepted[j] /\ x \in Nat
      BY <1>9 DEF Numbered, Before
    <3> QED BY <1>2, <1>3, <1>6, <3>1
  <2> QED BY <1>3, <1>4, <1>7, <2>1, <2>2 DEF Numbered, Before
<1>13. Complete'
  <2> SUFFICES ASSUME ~discarded', NEW j \in Ids, NEW x \in 1..accepted'[j]
               PROVE  \/ x \in Done(j)
                      \/ \E i \in DOMAIN callbackDataList' :
                            callbackDataList'[i].session = j /\ callbackDataList'[i].number = x
                      \/ \E g \in Storing : Hand(g).session = j /\ Hand(g).number = x
    BY <1>7 DEF Complete
  <2>1. CASE x \in 1..accepted[j]
    <3>1. \/ x \in Done(j)
          \/ \E i \in DOMAIN q : q[i].session = j /\ q[i].number = x
          \/ \E g \in Storing : Hand(g).session = j /\ Hand(g).number = x
      BY <1>1, <2>1 DEF Numbered, Complete
    <3>2. \A i \in DOMAIN q : i \in DOMAIN callbackDataList' /\ callbackDataList'[i] = q[i]
      BY <1>4 DEF n
    <3> QED BY <3>1, <3>2
  <2>2. CASE x \notin 1..accepted[j]
    <3>1. j = id /\ x = m.number
      BY <1>2, <1>3, <1>6, <2>2
    <3>2. n \in DOMAIN callbackDataList'
      BY <1>4 DEF n
    <3> QED BY <1>3, <1>4, <3>1, <3>2
  <2> QED BY <2>1, <2>2
<1>14. Once' /\ InOrder' /\ Spared'
  BY <1>1, <1>7 DEF Numbered, Once, InOrder, Ascending, Spared
<1> QED BY <1>10, <1>11, <1>12, <1>13, <1>14 DEF Numbered

LEMMA TakeKeepsNumbered ==
    ASSUME IInv, Numbered, NEW g \in Generations, Take(g), callbackDataList # <<>>
    PROVE  Numbered'
<1> DEFINE q == callbackDataList
           r == callbackDataList'
<1>1. /\ loop[g] = "taking" /\ loop' = [loop EXCEPT ![g] = "storing"]
      /\ held' = [held EXCEPT ![g] = <<Head(q)>>] /\ r = Tail(q)
      /\ UNCHANGED <<accepted, logs, filtered, generation, discarded>>
  BY DEF Take, levelled, switches
<1>2. q \in Seq(Message) /\ DOMAIN loop = Generations /\ DOMAIN held = Generations
  BY DEF IInv, TypeOK
<1>3. /\ DOMAIN q = 1..Len(q) /\ Len(q) \in Nat /\ 1 \in DOMAIN q /\ Head(q) = q[1]
      /\ DOMAIN r = 1..Len(q) - 1
      /\ \A i \in DOMAIN r : i + 1 \in DOMAIN q /\ r[i] = q[i + 1] /\ i + 1 > 1
      /\ \A j \in DOMAIN q : j = 1 \/ (j - 1 \in DOMAIN r /\ r[j - 1] = q[j])
  BY <1>1, <1>2
<1>4. \A i \in DOMAIN q : q[i].session \in Ids /\ q[i].number \in Nat
  <2>1. \A i \in DOMAIN q : q[i] \in Message
    BY <1>2, <1>3
  <2> QED BY <2>1 DEF Message
<1>5. /\ g \notin Storing /\ Storing' = Storing \cup {g} /\ Hand(g)' = q[1]
      /\ \A h \in Storing : Hand(h)' = Hand(h)
      /\ \A id : Done(id)' = Done(id) /\ Dropped(id)' = Dropped(id)
  BY <1>1, <1>2, <1>3 DEF Storing, Hand, Done, Dropped
<1>6. \A h \in Storing : Hand(h).session \in Ids /\ Hand(h).number \in Nat
  BY HandType
<1>d. \A id \in Ids : Done(id) \subseteq Nat /\ \A a \in DOMAIN logs[id] : logs[id][a] \in Done(id)
  BY LogsType DEF IInv
<1> HIDE DEF q, r
<1>n. Queued /\ InHand /\ Before /\ Complete /\ InOrder
  BY DEF Numbered
<1>7. /\ \A i \in DOMAIN q : q[i].number <= accepted[q[i].session]
      /\ \A i, j \in DOMAIN q : i < j /\ q[i].session = q[j].session => q[i].number < q[j].number
  BY <1>n DEF Queued, q
<1>8. Queued'
  <2>1. \A i, j \in DOMAIN r : i < j => i + 1 < j + 1
    BY <1>3
  <2>2. /\ \A i \in DOMAIN r : r[i].number <= accepted[r[i].session]
        /\ \A i, j \in DOMAIN r : i < j /\ r[i].session = r[j].session => r[i].number < r[j].number
    BY <1>3, <1>7, <2>1
  <2> QED BY <1>1, <2>2 DEF Queued, r
<1>9. InHand'
  <2>1. /\ q[1].number <= accepted[q[1].session]
        /\ \A i \in DOMAIN r : r[i].session = q[1].session => q[1].number < r[i].number
    BY <1>3, <1>7
  <2>2. \A h \in Storing :
          /\ Hand(h).number <= accepted[Hand(h).session]
          /\ \A i \in DOMAIN q : q[i].session = Hand(h).session => Hand(h).number < q[i].number
          /\ \A f \in Storing \ {h} : Hand(h).session = Hand(f).session => Hand(h).number # Hand(f).number
    BY <1>n DEF InHand, q
  <2>3. \A h \in Storing : Hand(h).session = q[1].session => Hand(h).number # q[1].number
    BY <1>3, <1>4, <1>6, <2>2
  <2> QED BY <1>1, <1>3, <1>5, <2>1, <2>2, <2>3 DEF InHand, r
<1>b. \A id \in Ids : \A n \in Done(id) :
        /\ n <= accepted[id]
        /\ \A i \in DOMAIN q : q[i].session = id => n < q[i].number
        /\ \A h \in Storing : Hand(h).session = id => Hand(h).number # n
  BY <1>n DEF Before, q
<1>10. Before'
  <2>1. \A id \in Ids : \A n \in Done(id) :
          /\ \A i \in DOMAIN r : r[i].session = id => n < r[i].number
          /\ q[1].session = id => q[1].number # n
    BY <1>3, <1>4, <1>b, <1>d
  <2> QED BY <1>1, <1>5, <1>b, <2>1 DEF Before, r
<1>11. Complete'
  <2> SUFFICES ASSUME ~discarded, NEW id \in Ids, NEW n \in 1..accepted[id]
               PROVE  \/ n \in Done(id)
                      \/ \E i \in DOMAIN r : r[i].session = id /\ r[i].number = n
                      \/ \E h \in Storing' : Hand(h)'.session = id /\ Hand(h)'.number = n
    BY <1>1, <1>5 DEF Complete, r
  <2>1. \/ n \in Done(id)
        \/ \E i \in DOMAIN q : q[i].session = id /\ q[i].number = n
        \/ \E h \in Storing : Hand(h).session = id /\ Hand(h).number = n
    BY <1>n DEF Complete, q
  <2> QED BY <1>3, <1>5, <2>1
<1>12. InOrder'
  <2> SUFFICES ASSUME generation = 1, NEW id \in Ids PROVE Ascending(id)'
    BY <1>1 DEF InOrder
  <2>1. Ascending(id)
    BY <1>n DEF InOrder
  <2>2. q[1].session = id => \A a \in DOMAIN logs[id] : logs[id][a] < q[1].number
    BY <1>3, <1>b, <1>d
  <2> QED BY <1>1, <1>5, <2>1, <2>2 DEF Ascending
<1>13. Once' /\ Spared'
  BY <1>1, <1>5 DEF Numbered, Once, Spared
<1> QED BY <1>8, <1>9, <1>10, <1>11, <1>12, <1>13 DEF Numbered

\* A message that is stored joins its session's logs, one that is above the level
\* what has been dropped, whichever it is.
LEMMA StoreIsDone ==
    ASSUME IInv, Numbered, NEW g \in Generations, Store(g)
    PROVE  /\ g \in Storing /\ Storing' = Storing \ {g} /\ \A h : Hand(h)' = Hand(h)
           /\ UNCHANGED <<callbackDataList, accepted, generation, discarded>>
           /\ \A id \in Ids :
                 Done(id)' = IF id = Hand(g).session THEN Done(id) \cup {Hand(g).number} ELSE Done(id)
           /\ Once' /\ Spared'
<1> DEFINE m == Hand(g)
<1>1. /\ loop[g] = "storing" /\ held' = held
      /\ loop' = [loop EXCEPT ![g] = IF AboveLevel(m) THEN "dropping" ELSE "calling"]
      /\ UNCHANGED <<callbackDataList, accepted, generation, discarded>>
      /\ IF AboveLevel(m) THEN filtered' = filtered \cup {m} /\ logs' = logs
         ELSE logs' = [logs EXCEPT ![m.session] = Append(@, m.number)] /\ filtered' = filtered
  BY DEF Store, Filter, Hand, queue, switches
<1>2. TypeOK /\ DOMAIN loop = Generations /\ DOMAIN logs = Ids
  BY DEF IInv, TypeOK
<1>3. g \in Storing /\ Storing' = Storing \ {g} /\ \A h : Hand(h)' = Hand(h)
  BY <1>1, <1>2 DEF Storing, Hand
<1>4. m.session \in Ids /\ m.number \in Nat \ {0}
  BY <1>3, HandType
<1>5. m.number \notin Done(m.session)
  BY <1>3, <1>4 DEF Numbered, Before
<1> HIDE DEF m
<1>6. CASE AboveLevel(m)
  <2>1. \A id : Dropped(id)' = IF id = m.session THEN Dropped(id) \cup {m.number} ELSE Dropped(id)
    BY <1>1, <1>6 DEF Dropped
  <2>2. m.level # LevelAVLogStdErr
    BY <1>2, <1>6, DeliveryAssumption DEF AboveLevel, TypeOK, LevelAVLogStdErr, LevelAVLogQuiet
  <2>3. \A id : Done(id)' = IF id = m.session THEN Done(id) \cup {m.number} ELSE Done(id)
    BY <1>1, <1>6, <2>1 DEF Done
  <2>4. Once'
    BY <1>1, <1>5, <1>6, <2>1 DEF Numbered, Once, Done
  <2>5. Spared'
    BY <1>1, <1>6, <2>2 DEF Numbered, Spared
  <2> QED BY <1>1, <1>3, <2>3, <2>4, <2>5 DEF m
<1>7. CASE ~AboveLevel(m)
  <2> DEFINE s == logs[m.session]
             r == logs'[m.session]
             n == Len(s) + 1
  <2>1. /\ \A id \in Ids \ {m.session} : logs'[id] = logs[id]
        /\ \A id : Dropped(id)' = Dropped(id)
    BY <1>1, <1>2, <1>7 DEF Dropped
  <2>2. /\ DOMAIN s = 1..n - 1 /\ DOMAIN r = 1..n /\ n \in Nat /\ n >= 1
        /\ r[n] = m.number /\ \A a \in 1..n - 1 : r[a] = s[a]
    <3>1. s \in Seq(Nat \ {0}) /\ r = Append(s, m.number)
      BY <1>1, <1>2, <1>4, <1>7 DEF TypeOK
    <3> HIDE DEF s, r
    <3> QED BY <1>4, <3>1
  <2> HIDE DEF s, r, n
  <2>3. \A a \in 1..n : a = n \/ a \in 1..n - 1
    BY <2>2
  <2>4. Range(r) = Range(s) \cup {m.number}
    BY <2>2, <2>3 DEF Range
  <2>5. \A id : id = m.session => Done(id)' = Done(id) \cup {m.number}
    BY <2>1, <2>4 DEF Done, r, s
  <2>6. \A id \in Ids \ {m.session} : Done(id)' = Done(id)
    BY <2>1 DEF Done
  <2>7. IsInjective(s) /\ Range(s) \cap Dropped(m.session) = {}
    BY <1>4 DEF Numbered, Once, s
  <2>8. IsInjective(r)
    <3>1. \A a \in 1..n - 1 : s[a] # m.number
      BY <1>5, <2>2 DEF Done, Range, s
    <3> QED BY <2>2, <2>3, <2>7, <3>1 DEF IsInjective
  <2>9. Range(r) \cap Dropped(m.session) = {}
    BY <1>5, <2>4, <2>7 DEF Done
  <2>10. Once'
    BY <2>1, <2>8, <2>9 DEF Numbered, Once, r
  <2>11. Spared'
    BY <1>1, <1>7 DEF Numbered, Spared
  <2> QED BY <1>1, <1>3, <2>5, <2>6, <2>10, <2>11 DEF m
<1> QED BY <1>6, <1>7

LEMMA StoreKeepsNumbered ==
    ASSUME IInv, Numbered, NEW g \in Generations, Store(g)
    PROVE  Numbered'
<1> DEFINE s == Hand(g).session
           x == Hand(g).number
<1>1. /\ g \in Storing /\ Storing' = Storing \ {g} /\ \A h : Hand(h)' = Hand(h)
      /\ UNCHANGED <<callbackDataList, accepted, generation, discarded>>
      /\ \A id \in Ids : Done(id)' = IF id = s THEN Done(id) \cup {x} ELSE Done(id)
      /\ Once' /\ Spared'
  BY StoreIsDone
<1>2. s \in Ids /\ x \in Nat \ {0}
  BY <1>1, HandType
<1>3. /\ x <= accepted[s]
      /\ \A i \in DOMAIN callbackDataList :
            callbackDataList[i].session = s => x < callbackDataList[i].number
      /\ \A h \in Storing \ {g} : Hand(h).session = s => Hand(h).number # x
  BY <1>1 DEF Numbered, InHand
<1>n. Queued /\ InHand /\ Before /\ Complete /\ InOrder
  BY DEF Numbered
<1>4. Hand(g).session = s /\ Hand(g).number = x
  OBVIOUS
<1> HIDE DEF s, x
<1>5. Queued'
  BY <1>1, <1>n DEF Queued
<1>6. InHand'
  BY <1>1, <1>n DEF InHand
<1>7. Before'
  BY <1>1, <1>3, <1>n DEF Before
<1>8. Complete'
  BY <1>1, <1>4, <1>n DEF Complete
<1>9. InOrder'
  <2> SUFFICES ASSUME generation = 1, NEW id \in Ids PROVE Ascending(id)'
    BY <1>1 DEF InOrder
  <2>1. Storing' = {}
    <3>1. \A h \in Generations : h > 1 => loop[h] = "none"
      BY DEF IInv, LoopInv
    <3>2. \A h \in Storing : h \in Nat /\ h >= 1 /\ ~(h > 1)
      BY <3>1 DEF Storing, Generations
    <3> QED BY <1>1, <3>2
  <2>2. Ascending(id)
    BY <1>n DEF InOrder
  <2>3. \/ logs'[id] = logs[id]
        \/ s = id /\ logs'[id] = Append(logs[id], x)
    BY DEF Store, Filter, Hand, s, x, IInv, TypeOK
  <2>4. CASE s = id /\ logs'[id] = Append(logs[id], x)
    <3> DEFINE l == logs[id]
               r == logs'[id]
    <3>1. \A a \in DOMAIN l : l[a] < x
      BY <1>1, <1>4, <2>2, <2>4 DEF Ascending
    <3>2. l \in Seq(Nat \ {0})
      BY DEF IInv, TypeOK
    <3>3. r = Append(l, x)
      BY <2>4
    <3>4. \A a, b \in DOMAIN l : a < b => l[a] < l[b]
      BY <2>2 DEF Ascending
    <3> HIDE DEF l, r
    <3>5. /\ Len(l) \in Nat /\ DOMAIN l = 1..Len(l) /\ DOMAIN r = 1..Len(l) + 1
          /\ r[Len(l) + 1] = x /\ \A a \in 1..Len(l) : r[a] = l[a]
      BY <1>2, <3>2, <3>3
    <3>6. \A a, b \in 1..Len(l) + 1 : a < b => a \in 1..Len(l) /\ (b \in 1..Len(l) \/ b = Len(l) + 1)
      BY <3>5
    <3>7. \A a, b \in DOMAIN r : a < b => r[a] < r[b]
      BY <3>1, <3>4, <3>5, <3>6
    <3> QED BY <2>1, <3>7 DEF Ascending, r
  <2> QED BY <2>1, <2>2, <2>3, <2>4 DEF Ascending
<1> QED BY <1>1, <1>5, <1>6, <1>7, <1>8, <1>9 DEF Numbered

LEMMA NextNumbered ==
    ASSUME IInv, Numbered, [Next]_vars
    PROVE  Numbered'
<1>i. TypeOK /\ SwitchInv /\ LoopInv /\ DOMAIN loop = Generations /\ DOMAIN held = Generations
  BY DEF IInv, TypeOK
<1> DEFINE Same == UNCHANGED <<callbackDataList, accepted, logs, filtered, discarded>>
<1>0. ASSUME Same, UNCHANGED generation, UNCHANGED loops PROVE Numbered'
  BY <1>0, QuietKeepsNumbered DEF loops, Storing
<1>1. ASSUME NEW id \in Ids, Produce(id) PROVE Numbered'
  <2>1. ASSUME NEW level \in LevelsOf[id], Enqueue(id, level), Running PROVE Numbered'
    BY <2>1, EnqueueKeepsNumbered
  <2>2. CASE Log(id) \/ ~Running
    BY <1>0, <1>1, <2>2 DEF Produce, Log, Enqueue, queue, levelled, switches
  <2> QED BY <1>1, <2>1, <2>2 DEF Produce
<1>2. ASSUME NEW g \in Generations, Check(g) \/ WaitEnds(g) \/ Deliver(g) \/ Finished(g)
      PROVE  Numbered'
  <2>1. /\ Same /\ UNCHANGED generation /\ loop[g] # "storing"
        /\ \E v \in {"taking", "leaving", "top", "finished"} : loop' = [loop EXCEPT ![g] = v]
        /\ \A h \in Generations \ {g} : held'[h] = held[h]
    BY <1>2, <1>i DEF Check, WaitEnds, Deliver, Finished, queue, levelled, switches
  <2>2. Storing' = Storing /\ g \notin Storing
    BY <1>i, <2>1 DEF Storing
  <2>3. \A h \in Storing : held'[h] = held[h]
    BY <2>1, <2>2 DEF Storing
  <2> QED BY <2>1, <2>2, <2>3, QuietKeepsNumbered
<1>3. ASSUME NEW g \in Generations, Take(g) PROVE Numbered'
  <2>1. CASE callbackDataList = <<>>
    <3>1. Same /\ UNCHANGED <<generation, held>> /\ loop[g] = "taking" /\ loop' = [loop EXCEPT ![g] = "waiting"]
      BY <1>3, <2>1 DEF Take, levelled, switches
    <3>2. Storing' = Storing
      BY <1>i, <3>1 DEF Storing
    <3> QED BY <3>1, <3>2, QuietKeepsNumbered
  <2>2. CASE callbackDataList # <<>>
    BY <1>3, <2>2, TakeKeepsNumbered
  <2> QED BY <2>1, <2>2
<1>4. ASSUME NEW g \in Generations, Store(g) PROVE Numbered'
  BY <1>4, StoreKeepsNumbered
<1>5. ASSUME NEW g \in Generations, Leave(g) PROVE Numbered'
  <2>1. /\ Discard(activeDeliveryLoops - 1) /\ UNCHANGED <<accepted, logs, filtered, generation, held>>
        /\ loop[g] = "leaving" /\ loop' = [loop EXCEPT ![g] = "left"]
    BY <1>5 DEF Leave, levelled, switches
  <2>2. Storing' = Storing
    BY <1>i, <2>1 DEF Storing
  <2> QED BY <2>1, <2>2, DiscardKeepsNumbered
<1>6. ASSUME NEW u \in Switchers,
             EnableReaps(u) \/ EnableLooks(u) \/ Disable(u) \/ DisableReaps(u)
      PROVE  Numbered'
  BY <1>0, <1>6 DEF EnableReaps, EnableLooks, Disable, DisableReaps, Reap, queue, levelled
<1>7. ASSUME NEW u \in Switchers, EnableCounts(u) PROVE Numbered'
  <2>1. Same /\ UNCHANGED <<loop, held>> /\ generation' = generation + 1
    BY <1>7 DEF EnableCounts, queue, levelled, loops
  <2>2. generation' # 1
    BY <1>i, <2>1 DEF TypeOK, Generations
  <2> QED BY <2>1, <2>2, QuietKeepsNumbered DEF Storing
<1>8. ASSUME NEW u \in Switchers, EnableStarts(u) \/ EnableFails(u) PROVE Numbered'
  <2>1. /\ Same /\ UNCHANGED <<generation, held>> /\ switcher[u] = "starting"
        /\ \E v \in {"top", "failed"} : loop' = [loop EXCEPT ![generation] = v]
    BY <1>8 DEF EnableStarts, EnableFails, queue, levelled
  <2>2. loop[generation] = "none"
    BY <1>i, <2>1 DEF SwitchInv
  <2>3. Storing' = Storing
    BY <1>i, <2>1, <2>2 DEF Storing
  <2> QED BY <2>1, <2>3, QuietKeepsNumbered
<1>9. CASE Shutdown \/ ShutdownDisables \/ ExitJoins \/ UNCHANGED vars
  BY <1>0, <1>9 DEF Shutdown, ShutdownDisables, ExitJoins, vars, queue, levelled, switches
<1>10. CASE ShutdownDiscards
  <2>1. /\ Discard(activeDeliveryLoops)
        /\ UNCHANGED <<accepted, logs, filtered, generation, held, loop>>
    BY <1>10 DEF ShutdownDiscards, levelled, switches, loops
  <2> QED BY <2>1, DiscardKeepsNumbered DEF Storing
<1>11. ASSUME NEW x \in Switchers \cup Generations, Exit(x) PROVE Numbered'
  BY <1>0, <1>11 DEF Exit, queue, levelled
<1>12. ASSUME NEW level \in Levels \cup {LevelAVLogQuiet}, SetLogLevel(level) PROVE Numbered'
  BY <1>0, <1>12 DEF SetLogLevel, queue, switches
<1> QED BY <1>1, <1>2, <1>3, <1>4, <1>5, <1>6, <1>7, <1>8, <1>9, <1>10, <1>11, <1>12 DEF Next, Loop, Enable

LEMMA InitNumbered == Init => Numbered
<1> SUFFICES ASSUME Init PROVE Numbered
  OBVIOUS
<1>1. /\ DOMAIN callbackDataList = {} /\ filtered = {}
      /\ \A id \in Ids : DOMAIN logs[id] = {} /\ accepted[id] = 0
  BY DEF Init
<1>2. Storing = {}
  BY DEF Init, Storing
<1>3. \A id \in Ids : 1..accepted[id] = {}
  BY <1>1
<1>4. \A id \in Ids : Range(logs[id]) = {} /\ Dropped(id) = {} /\ Done(id) = {}
  BY <1>1 DEF Range, Dropped, Done
<1>5. \A id \in Ids : IsInjective(logs[id]) /\ Ascending(id)
  BY <1>1, <1>2 DEF IsInjective, Ascending
<1> QED BY <1>1, <1>2, <1>3, <1>4, <1>5
        DEF Numbered, Queued, InHand, Before, Once, Complete, InOrder, Spared

LEMMA ZeroFromNumbered ==
    ASSUME IInv, Numbered
    PROVE  ZeroMeansDelivered
<1> SUFFICES ASSUME ~discarded, NEW id \in Ids, inTransit[Slot(id)] = 0
             PROVE  /\ Range(logs[id]) = 1..accepted[id] \ Dropped(id) /\ IsInjective(logs[id])
                    /\ generation = 1 => \A i, j \in DOMAIN logs[id] : i < j => logs[id][i] < logs[id][j]
                    /\ \A m \in filtered : m.session = id => m.level # LevelAVLogStdErr
  BY DEF ZeroMeansDelivered
<1> DEFINE k == Slot(id)
<1>1. k \in Slots /\ TypeOK
  BY SlotType DEF IInv
<1>2. Waiting(k) = {} /\ Taken(k) = {}
  <2>1. callbackDataList \in Seq(Message) /\ Waiting(k) = Places(callbackDataList, k)
    BY <1>1 DEF TypeOK, Waiting, Places, OfSlot
  <2>2. /\ IsFiniteSet(Waiting(k)) /\ Cardinality(Waiting(k)) \in Nat
        /\ IsFiniteSet(Taken(k)) /\ Cardinality(Taken(k)) \in Nat
    BY <2>1, PlacesFinite, LoopSetsFinite
  <2>3. Cardinality(Waiting(k)) + Cardinality(Taken(k)) = 0
    BY <1>1 DEF IInv, TransitCounted
  <2>4. Cardinality(Waiting(k)) = 0 /\ Cardinality(Taken(k)) = 0
    BY <2>2, <2>3
  <2> QED BY <2>2, <2>4, FS_EmptySet
<1>3. \A i \in DOMAIN callbackDataList : callbackDataList[i].session # id
  BY <1>2 DEF Waiting, OfSlot
<1>4. \A g \in Storing : Hand(g).session # id
  <2>1. \A g \in Storing : g \in Generations /\ held[g] # <<>>
    BY DEF Storing, Delivering, IInv, LoopInv
  <2> QED BY <1>2, <2>1 DEF Taken, OfSlot, Hand
<1>5. \A n \in 1..accepted[id] : n \in Done(id)
  BY <1>3, <1>4 DEF Numbered, Complete
<1>6. \A n \in Done(id) : n \in 1..accepted[id]
  <2>1. Done(id) \subseteq Nat \ {0} /\ accepted[id] \in Nat
    BY <1>1, LogsType DEF TypeOK
  <2>2. \A n \in Done(id) : n <= accepted[id]
    BY DEF Numbered, Before
  <2> QED BY <2>1, <2>2
<1>7. IsInjective(logs[id]) /\ Range(logs[id]) \cap Dropped(id) = {}
  BY DEF Numbered, Once
<1>8. Range(logs[id]) = 1..accepted[id] \ Dropped(id)
  BY <1>5, <1>6, <1>7 DEF Done
<1> QED BY <1>7, <1>8 DEF Numbered, InOrder, Ascending, Spared

\* Once the count of a session is zero, every message it queued is in its logs, once,
\* or was above the level when its turn came, never both and never one of level
\* stderr; in order unless the redirection was switched on again.  For any number
\* of sessions that log at a time, share a slot or not, of levels, of times the
\* application sets one, and of loops that are switched on and off meanwhile
\* (getAllLogs, process_log, callbackThreadFunction).
THEOREM ZeroIsDelivered == Spec => []ZeroMeansDelivered
<1>1. Init => IInv /\ Numbered
  BY InitIInv, InitNumbered
<1>2. IInv /\ Numbered /\ [Next]_vars => Numbered'
  BY NextNumbered
<1>3. IInv /\ Numbered => ZeroMeansDelivered
  BY ZeroFromNumbered
<1> QED BY <1>1, <1>2, <1>3, Inductive, PTL DEF Spec
=============================================================================
