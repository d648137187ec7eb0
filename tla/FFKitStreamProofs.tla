------------------------- MODULE FFKitStreamProofs -------------------------
(***************************************************************************)
(* Theorems about FFKitStream for every set of threads, every capacity and *)
(* every request size.                                                     *)
(***************************************************************************)
EXTENDS FFKitStream, FiniteSetTheorems, SequenceTheorems, TLAPS

\* Smallest is what its name says on the three-element sets it is used on.
LEMMA SmallestIsLeast ==
    ASSUME NEW a \in Nat, NEW b \in Nat, NEW c \in Nat
    PROVE  LET n == Smallest({a, b, c})
           IN  n \in {a, b, c} /\ n <= a /\ n <= b /\ n <= c
<1>1. \E n \in {a, b, c} : \A m \in {a, b, c} : n <= m
  <2>1. CASE a <= b /\ a <= c BY <2>1
  <2>2. CASE b <= a /\ b <= c BY <2>2
  <2>3. CASE c <= a /\ c <= b BY <2>3
  <2> QED BY <2>1, <2>2, <2>3
<1> QED BY <1>1 DEF Smallest

\* One turn of the ring at most: what % capacity does to a position.
LEMMA WrapOnce ==
    ASSUME NEW c \in Nat \ {0}, NEW x \in 0..c - 1, NEW n \in 0..c
    PROVE  (x + n) % c = IF x + n < c THEN x + n ELSE x + n - c
<1>1. CASE x + n < c
  BY <1>1
<1>2. CASE ~(x + n < c)
  <2>1. x + n - c \in 0..c - 1
    BY <1>2
  <2>2. (x + n) % c = (x + n - c) % c
    OBVIOUS
  <2> QED BY <1>2, <2>1, <2>2
<1> QED BY <1>1, <1>2

-----------------------------------------------------------------------------
(***************************************************************************)
(* References.  The induction needs more than NoUseAfterFree says: that    *)
(* openCount counts the holders exactly, that a resource is listed, about  *)
(* to be marked or marked, and that whoever frees it is alone with it.     *)
(***************************************************************************)
Removing == {o \in Owners : pc[o] = "removed"}

PcOK ==
    /\ \A o \in Owners : pc[o] \in {Idle, "removed", "freeing"}
    /\ \A t \in Threads : pc[t] # "removed"

References ==
    /\ allocated => openCount = Cardinality(Holders)
    /\ ~allocated => Holders = {} /\ Freeing = {} /\ Removing = {} /\ ~registered
    /\ allocated => registered \/ unregistered \/ Removing # {}
    /\ registered => ~unregistered /\ Removing = {}
    /\ Removing # {} => ~unregistered
    /\ \A o, p \in Removing : o = p
    /\ Freeing # {} => unregistered /\ Holders = {}
    /\ \A t, u \in Freeing : t = u
    /\ ~MallocMayFail /\ allocated /\ unregistered /\ Holders = {} => Freeing # {}

Places == {Idle, "opening", "open", "call", "waiting", "release", "removed", "freeing"}
Held   == {"opening", "open", "call", "waiting", "release"}

\* The part of TypeOK the flags and the places need.
RefTypes ==
    /\ allocated \in BOOLEAN /\ registered \in BOOLEAN /\ unregistered \in BOOLEAN
    /\ pc \in [Threads \cup Owners -> Places]

RefInv == RefTypes /\ PcOK /\ References

LEMMA HoldersAreFinite == IsFiniteSet(Holders)
<1>1. Holders \subseteq Threads
  BY DEF Holders
<1>2. IsFiniteSet(Threads)
  BY ThreadsAssumption, FS_Union DEF Threads
<1> QED BY <1>1, <1>2, FS_Subset

\* A step that moves no thread into or out of the sets References is about, and
\* changes none of its flags, keeps it.
LEMMA ReferencesKept ==
    ASSUME References,
           Holders' = Holders, Freeing' = Freeing, Removing' = Removing,
           UNCHANGED <<allocated, registered, unregistered, openCount>>
    PROVE  References'
BY DEF References

\* Broadcast, thread by thread.
LEMMA BroadcastAt ==
    ASSUME NEW p, NEW S, NEW u \in DOMAIN p
    PROVE  /\ Broadcast(S, p)[u] = IF u \in S /\ p[u] = "waiting" THEN "call" ELSE p[u]
           /\ DOMAIN Broadcast(S, p) = DOMAIN p
BY DEF Broadcast

\* A step whose every thread stays on its side of Held, and in or out of the two
\* other sets, keeps all three.
LEMMA SetsKept ==
    ASSUME \A u \in Threads : pc[u] \in Held <=> pc'[u] \in Held,
           \A u \in Threads \cup Owners : pc[u] = "freeing" <=> pc'[u] = "freeing",
           \A o \in Owners : pc[o] = "removed" <=> pc'[o] = "removed"
    PROVE  Holders' = Holders /\ Freeing' = Freeing /\ Removing' = Removing
BY DEF Holders, Freeing, Removing, Held

\* A thread that moves within Held, together with any broadcast.
LEMMA MoveWithinHeld ==
    ASSUME pc \in [Threads \cup Owners -> Places], PcOK,
           NEW S \in SUBSET Threads, NEW t \in Threads, NEW q \in Held,
           pc[t] \in Held,
           pc' = [Broadcast(S, pc) EXCEPT ![t] = q]
    PROVE  /\ Holders' = Holders /\ Freeing' = Freeing /\ Removing' = Removing
           /\ pc' \in [Threads \cup Owners -> Places]
           /\ PcOK'
<1> DEFINE p == Broadcast(S, pc)
<1>1. DOMAIN p = Threads \cup Owners
  BY DEF Broadcast
<1>2. \A u \in Threads \cup Owners :
         p[u] = IF u \in S /\ pc[u] = "waiting" THEN "call" ELSE pc[u]
  BY DEF Broadcast
<1>3. p \in [Threads \cup Owners -> Places]
  BY <1>1, <1>2 DEF Places, Broadcast
<1> HIDE DEF p
<1>4. \A u \in Threads \cup Owners : pc'[u] = IF u = t THEN q ELSE p[u]
  BY <1>3 DEF p
<1>5. pc' \in [Threads \cup Owners -> Places]
  BY <1>3 DEF p, Places, Held
<1>6. \A u \in Threads : pc[u] \in Held <=> pc'[u] \in Held
  BY <1>2, <1>4 DEF Held
<1>7. \A u \in Threads \cup Owners : pc[u] = "freeing" <=> pc'[u] = "freeing"
  BY <1>2, <1>4 DEF Held
<1>8. \A o \in Owners : pc'[o] = pc[o]
  BY <1>2, <1>4, ThreadsAssumption DEF Threads
<1>9. PcOK'
  BY <1>2, <1>4, <1>8 DEF PcOK, Held
<1> QED BY <1>5, <1>6, <1>7, <1>8, <1>9, SetsKept

\* What a step that only moves t within Held and broadcasts does to RefInv.
LEMMA MoveKeepsRefInv ==
    ASSUME RefInv,
           NEW S \in SUBSET Threads, NEW t \in Threads, NEW q \in Held,
           pc[t] \in Held,
           pc' = [Broadcast(S, pc) EXCEPT ![t] = q],
           UNCHANGED <<allocated, registered, unregistered, openCount>>
    PROVE  RefInv'
<1>1. /\ Holders' = Holders /\ Freeing' = Freeing /\ Removing' = Removing
      /\ pc' \in [Threads \cup Owners -> Places]
      /\ PcOK'
  BY MoveWithinHeld DEF RefInv, RefTypes
<1>2. References'
  BY <1>1, ReferencesKept DEF RefInv
<1> QED BY <1>1, <1>2 DEF RefInv, RefTypes

\* The same without a broadcast.
LEMMA StepKeepsRefInv ==
    ASSUME RefInv, NEW t \in Threads, NEW q \in Held, pc[t] \in Held,
           pc' = [pc EXCEPT ![t] = q],
           UNCHANGED <<allocated, registered, unregistered, openCount>>
    PROVE  RefInv'
<1>1. Broadcast({}, pc) = pc
  BY DEF Broadcast, RefInv, RefTypes
<1> QED BY <1>1, MoveKeepsRefInv

\* A step that moves nobody and changes no flag.
LEMMA StutterKeepsRefInv ==
    ASSUME RefInv, UNCHANGED <<pc, allocated, registered, unregistered, openCount>>
    PROVE  RefInv'
<1>1. Holders' = Holders /\ Freeing' = Freeing /\ Removing' = Removing /\ PcOK'
  BY DEF Holders, Freeing, Removing, RefInv, PcOK
<1>2. References'
  BY <1>1, ReferencesKept DEF RefInv
<1> QED BY <1>1, <1>2 DEF RefInv, RefTypes

\* Whoever holds a reference keeps the count above zero.
LEMMA HolderCounts ==
    ASSUME RefInv, NEW t \in Threads, pc[t] \in Held
    PROVE  openCount \in Nat /\ openCount > 0 /\ allocated
<1>1. Holders # {} /\ allocated
  BY DEF Holders, Held, RefInv, RefTypes, References
<1>2. openCount = Cardinality(Holders)
  BY <1>1 DEF RefInv, References
<1> QED BY <1>1, <1>2, HoldersAreFinite, FS_CardinalityType, FS_EmptySet

\* A broadcast alone.
LEMMA BroadcastKeepsRefInv ==
    ASSUME RefInv, NEW S \in SUBSET Threads, pc' = Broadcast(S, pc),
           UNCHANGED <<allocated, registered, unregistered, openCount>>
    PROVE  RefInv'
<1>1. pc' \in [Threads \cup Owners -> Places]
  BY DEF RefInv, RefTypes, Broadcast, Places
<1>2. \A u \in Threads \cup Owners :
         pc'[u] = IF u \in S /\ pc[u] = "waiting" THEN "call" ELSE pc[u]
  BY DEF Broadcast, RefInv, RefTypes
<1>3. Holders' = Holders /\ Freeing' = Freeing /\ Removing' = Removing
  <2>1. \A u \in Threads : pc[u] \in Held <=> pc'[u] \in Held
    BY <1>2 DEF Held
  <2>2. \A u \in Threads \cup Owners : pc[u] = "freeing" <=> pc'[u] = "freeing"
    BY <1>2
  <2>3. \A o \in Owners : pc[o] = "removed" <=> pc'[o] = "removed"
    BY <1>2
  <2> QED BY <2>1, <2>2, <2>3, SetsKept
<1>4. PcOK'
  BY <1>2, ThreadsAssumption DEF PcOK, RefInv, Threads
<1>5. References'
  BY <1>3, ReferencesKept DEF RefInv
<1> QED BY <1>1, <1>4, <1>5 DEF RefInv, RefTypes

\* A thread that is let in: the stream is listed, so nobody frees it.
LEMMA EnterKeepsRefInv ==
    ASSUME RefInv, NEW t \in Threads, NEW q \in Held,
           pc[t] = Idle, registered,
           openCount' = openCount + 1, pc' = [pc EXCEPT ![t] = q],
           UNCHANGED <<allocated, registered, unregistered>>
    PROVE  RefInv'
<1>1. /\ allocated /\ ~unregistered /\ Removing = {} /\ Freeing = {}
      /\ openCount = Cardinality(Holders)
  BY DEF RefInv, RefTypes, References
<1>2. pc' \in [Threads \cup Owners -> Places]
  BY DEF RefInv, RefTypes, Held, Places
<1>3. \A u \in Threads \cup Owners : pc'[u] = IF u = t THEN q ELSE pc[u]
  BY DEF RefInv, RefTypes, Threads
<1>4. Holders' = Holders \cup {t} /\ t \notin Holders
  BY <1>3 DEF Holders, Held, Idle, Threads
<1>5. Freeing' = {}
  BY <1>1, <1>3 DEF Freeing, Held
<1>6. Removing' = {} /\ PcOK'
  BY <1>1, <1>3, ThreadsAssumption DEF Removing, PcOK, Held, RefInv, Threads
<1>7. openCount' = Cardinality(Holders')
  BY <1>1, <1>4, HoldersAreFinite, FS_AddElement
<1> QED BY <1>1, <1>2, <1>4, <1>5, <1>6, <1>7 DEF RefInv, RefTypes, References

\* A thread that leaves.  The last one out of an unregistered stream frees it; the
\* one that cannot allocate its handle does not look.
LEMMA LeaveKeepsRefInv ==
    ASSUME RefInv, NEW S \in SUBSET Threads, NEW t \in Threads, NEW q \in {Idle, "freeing"},
           pc[t] \in Held, openCount' = openCount - 1,
           q = "freeing" => unregistered /\ openCount' = 0,
           q = Idle => MallocMayFail \/ ~unregistered \/ openCount' # 0,
           pc' = [Broadcast(S, pc) EXCEPT ![t] = q],
           UNCHANGED <<allocated, registered, unregistered>>
    PROVE  RefInv'
<1> DEFINE p == Broadcast(S, pc)
<1>1. t \in Holders /\ Holders # {}
  BY DEF Holders, Held
<1>2. /\ allocated /\ Freeing = {} /\ openCount = Cardinality(Holders)
  BY <1>1 DEF RefInv, RefTypes, References
<1>3. DOMAIN p = Threads \cup Owners
  BY DEF Broadcast, RefInv, RefTypes
<1>4. \A u \in Threads \cup Owners :
         p[u] = IF u \in S /\ pc[u] = "waiting" THEN "call" ELSE pc[u]
  BY DEF Broadcast, RefInv, RefTypes
<1>5. p \in [Threads \cup Owners -> Places]
  BY <1>3, <1>4 DEF Places, Broadcast, RefInv, RefTypes
<1> HIDE DEF p
<1>6. \A u \in Threads \cup Owners : pc'[u] = IF u = t THEN q ELSE p[u]
  BY <1>5 DEF p
<1>7. pc' \in [Threads \cup Owners -> Places]
  BY <1>5 DEF p, Places, Idle
<1>8. Holders' = Holders \ {t}
  BY <1>4, <1>6 DEF Holders, Idle, Threads
<1>9. openCount' = Cardinality(Holders') /\ IsFiniteSet(Holders')
  BY <1>1, <1>2, <1>8, HoldersAreFinite, FS_RemoveElement
<1>10. Freeing' = IF q = "freeing" THEN {t} ELSE {}
  BY <1>2, <1>4, <1>6 DEF Freeing, Idle
<1>11. Removing' = Removing /\ PcOK'
  BY <1>4, <1>6, ThreadsAssumption DEF Removing, PcOK, RefInv, Threads, Idle
<1>12. openCount' = 0 <=> Holders' = {}
  BY <1>9, FS_EmptySet
<1>13. References'
  BY <1>2, <1>9, <1>10, <1>11, <1>12 DEF RefInv, RefTypes, References, Idle
<1> QED BY <1>7, <1>11, <1>13 DEF RefInv, RefTypes

\* The last user, or unregister, frees.
LEMMA FreeKeepsRefInv ==
    ASSUME RefInv, NEW t \in Threads \cup Owners, Free(t)
    PROVE  RefInv'
<1>1. Freeing = {t} /\ Holders = {} /\ unregistered /\ ~registered /\ Removing = {}
  BY DEF RefInv, References, Free, Freeing
<1>2. \A u \in Threads \cup Owners : pc'[u] = IF u = t THEN Idle ELSE pc[u]
  BY DEF Free, RefInv, RefTypes
<1>3. pc' \in [Threads \cup Owners -> Places]
  BY DEF Free, RefInv, RefTypes, Places
<1>4. Holders' = {} /\ Freeing' = {} /\ Removing' = {}
  BY <1>1, <1>2 DEF Holders, Freeing, Removing, Idle
<1>5. PcOK'
  BY <1>2 DEF PcOK, RefInv, Idle
<1>6. ~allocated' /\ ~registered' /\ ~unregistered'
  BY <1>1 DEF Free
<1>7. References'
  BY <1>4, <1>6 DEF References
<1>8. RefTypes'
  BY <1>3 DEF Free, RefInv, RefTypes
<1> QED BY <1>5, <1>7, <1>8 DEF RefInv

LEMMA UnregisterKeepsRefInv ==
    ASSUME RefInv, NEW o \in Owners, Unregister(o)
    PROVE  RefInv'
<1>1. /\ allocated /\ ~unregistered /\ Removing = {} /\ Freeing = {}
  BY DEF RefInv, RefTypes, References, Unregister
<1>2. \A u \in Threads \cup Owners : pc'[u] = IF u = o THEN "removed" ELSE pc[u]
  BY DEF Unregister, RefInv, RefTypes
<1>3. pc' \in [Threads \cup Owners -> Places]
  BY DEF Unregister, RefInv, RefTypes, Places
<1>4. Holders' = Holders /\ Freeing' = {} /\ Removing' = {o}
  BY <1>1, <1>2, ThreadsAssumption DEF Holders, Freeing, Removing, Threads
<1>5. PcOK'
  BY <1>2, ThreadsAssumption DEF PcOK, RefInv, Threads
<1>6. allocated' /\ ~registered' /\ ~unregistered' /\ openCount' = openCount
  BY <1>1 DEF Unregister, flags
<1>7. References'
  BY <1>1, <1>4, <1>6 DEF RefInv, References
<1>8. RefTypes'
  BY <1>3 DEF Unregister, RefInv, RefTypes, flags
<1> QED BY <1>5, <1>7, <1>8 DEF RefInv

LEMMA MarkKeepsRefInv ==
    ASSUME RefInv, NEW o \in Owners, MarkUnregistered(o)
    PROVE  RefInv'
<1> DEFINE p == Broadcast(Threads, pc)
<1> DEFINE q == IF openCount = 0 THEN "freeing" ELSE Idle
<1>1. /\ Removing = {o} /\ allocated /\ ~registered /\ ~unregistered /\ Freeing = {}
      /\ openCount = Cardinality(Holders)
  BY DEF RefInv, RefTypes, References, MarkUnregistered, Removing
<1>2. \A u \in Threads \cup Owners :
         p[u] = IF u \in Threads /\ pc[u] = "waiting" THEN "call" ELSE pc[u]
  BY DEF Broadcast, RefInv, RefTypes
<1>3. p \in [Threads \cup Owners -> Places]
  BY <1>2 DEF Places, Broadcast, RefInv, RefTypes
<1>4. pc' = [p EXCEPT ![o] = q]
  BY DEF MarkUnregistered
<1> HIDE DEF p
<1>5. \A u \in Threads \cup Owners : pc'[u] = IF u = o THEN q ELSE p[u]
  BY <1>3, <1>4
<1>6. pc' \in [Threads \cup Owners -> Places]
  BY <1>3, <1>4 DEF Places, Idle
<1>7. Holders' = Holders
  BY <1>2, <1>5, ThreadsAssumption DEF Holders, Threads
<1>8. Freeing' = IF openCount = 0 THEN {o} ELSE {}
  BY <1>1, <1>2, <1>5 DEF Freeing, Idle
<1>9. Removing' = {}
  BY <1>1, <1>2, <1>5 DEF Removing, Idle
<1>10. PcOK'
  BY <1>2, <1>5, ThreadsAssumption DEF PcOK, RefInv, Threads, Idle
<1>11. openCount = 0 <=> Holders = {}
  BY <1>1, HoldersAreFinite, FS_EmptySet
<1>12. allocated' /\ ~registered' /\ unregistered' /\ openCount' = openCount
  BY <1>1 DEF MarkUnregistered, resource
<1>13. References'
  BY <1>1, <1>7, <1>8, <1>9, <1>11, <1>12 DEF RefInv, References
<1>14. RefTypes'
  BY <1>6 DEF MarkUnregistered, RefInv, RefTypes, resource
<1> QED BY <1>10, <1>13, <1>14 DEF RefInv

LEMMA InitRefInv == Init => RefInv
<1> SUFFICES ASSUME Init PROVE RefInv
  OBVIOUS
<1>1. \A u \in Threads \cup Owners : pc[u] = Idle
  BY DEF Init
<1>2. Holders = {} /\ Freeing = {} /\ Removing = {}
  BY <1>1 DEF Holders, Freeing, Removing, Idle
<1>3. References
  BY <1>2 DEF References, Init
<1>4. RefTypes
  BY DEF RefTypes, Places, Init
<1>5. PcOK
  BY <1>1 DEF PcOK, Idle
<1> QED BY <1>3, <1>4, <1>5 DEF RefInv

\* No action disturbs the references.
LEMMA NextRefInv ==
    ASSUME RefInv, [Next]_vars
    PROVE  RefInv'
<1> USE DEF flags, cancels, calls, ring, resource
<1>1. ASSUME NEW ty \in Types, NEW cap \in Capacities, Register(ty, cap)
      PROVE  RefInv'
  <2>1. Holders = {} /\ Freeing = {} /\ Removing = {} /\ pc' = pc
    BY <1>1 DEF Register, RefInv, References
  <2>2. Holders' = {} /\ Freeing' = {} /\ Removing' = {} /\ PcOK'
    BY <2>1 DEF Holders, Freeing, Removing, PcOK, RefInv
  <2>3. openCount' = Cardinality(Holders')
    BY <1>1, <2>2, FS_EmptySet DEF Register
  <2>4. References'
    BY <1>1, <2>2, <2>3 DEF Register, References
  <2> QED BY <1>1, <2>1, <2>2, <2>4 DEF Register, RefInv, RefTypes
<1>2. ASSUME NEW s \in Sessions, SessionStep(s)
      PROVE  RefInv'
  <2> s \in Threads
    BY DEF Threads
  <2>1. CASE Open(s)
    BY <2>1, EnterKeepsRefInv DEF Open, Held
  <2>2. CASE OpenSucceeds(s)
    BY <2>2, StepKeepsRefInv DEF OpenSucceeds, Held
  <2>3. CASE OpenFails(s)
    <3>1. Broadcast({}, pc) = pc
      BY DEF Broadcast, RefInv, RefTypes
    <3> QED BY <2>3, <3>1, LeaveKeepsRefInv DEF OpenFails, Held, Idle
  <2>4. CASE NotFound(s) \/ Cancel(s) \/ NextExecution(s)
    BY <2>4, StutterKeepsRefInv DEF NotFound, Cancel, NextExecution, vars
  <2>5. CASE Begin(s)
    BY <2>5, StepKeepsRefInv DEF Begin, Held
  <2>6. CASE Close(s)
    <3>1. pc[s] \in Held /\ Threads \in SUBSET Threads
      BY <2>6 DEF Close, Held
    <3>2. openCount > 0
      BY <3>1, HolderCounts
    <3>3. openCount' = openCount - 1 /\ UNCHANGED <<allocated, registered, unregistered>>
      BY <2>6, <3>2 DEF Close, Drop
    <3> DEFINE q == IF unregistered /\ openCount' = 0 THEN "freeing" ELSE Idle
    <3>4. pc' = [Broadcast(Threads, pc) EXCEPT ![s] = q]
      BY <2>6 DEF Close, Drop
    <3> QED BY <3>1, <3>3, <3>4, LeaveKeepsRefInv DEF Idle
  <2>7. CASE WakeSessions(s)
    <3>1. SessionSide \in SUBSET Threads
      BY DEF SessionSide, Writers, Readers, Threads
    <3>2. CASE registered
      BY <2>7, <3>1, <3>2, BroadcastKeepsRefInv DEF WakeSessions
    <3>3. CASE ~registered
      BY <2>7, <3>3, StutterKeepsRefInv DEF WakeSessions
    <3> QED BY <3>2, <3>3
  <2> QED BY <1>2, <2>1, <2>2, <2>3, <2>4, <2>5, <2>6, <2>7 DEF SessionStep
<1>3. ASSUME NEW a \in Apps, AppStep(a)
      PROVE  RefInv'
  <2> a \in Threads
    BY DEF Threads
  <2>1. CASE Enter(a)
    BY <2>1, EnterKeepsRefInv DEF Enter, Held
  <2>2. CASE NotFound(a)
    BY <2>2, StutterKeepsRefInv DEF NotFound, vars
  <2>3. CASE Release(a)
    <3>1. pc[a] \in Held /\ {} \in SUBSET Threads /\ Broadcast({}, pc) = pc
      BY <2>3 DEF Release, Held, Broadcast, RefInv, RefTypes
    <3>2. openCount > 0
      BY <3>1, HolderCounts
    <3>3. openCount' = openCount - 1 /\ UNCHANGED <<allocated, registered, unregistered>>
      BY <2>3, <3>2 DEF Release, Drop
    <3> DEFINE q == IF unregistered /\ openCount' = 0 THEN "freeing" ELSE Idle
    <3>4. pc' = [Broadcast({}, pc) EXCEPT ![a] = q]
      BY <2>3, <3>1 DEF Release, Drop
    <3> QED BY <3>1, <3>3, <3>4, LeaveKeepsRefInv DEF Idle
  <2> QED BY <1>3, <2>1, <2>2, <2>3 DEF AppStep
<1>4. ASSUME NEW t \in Threads, Advance(t) \/ TimesOut(t) \/ SpuriousWakeup(t)
      PROVE  RefInv'
  <2> Readers \in SUBSET Threads /\ Writers \in SUBSET Threads
    BY DEF Readers, Writers, Threads
  <2>1. CASE WriteReturns(t) \/ ReadReturns(t) \/ TimesOut(t)
    BY <2>1, StepKeepsRefInv DEF WriteReturns, ReadReturns, TimesOut, Return, Held
  <2>2. CASE WriteWaits(t) \/ ReadWaits(t)
    BY <2>2, StepKeepsRefInv DEF WriteWaits, ReadWaits, Wait, Held
  <2>3. CASE WriteChunk(t)
    BY <2>3, BroadcastKeepsRefInv DEF WriteChunk
  <2>4. CASE ReadChunk(t)
    BY <2>4, BroadcastKeepsRefInv DEF ReadChunk
  <2>5. CASE SpuriousWakeup(t)
    BY <2>5, StepKeepsRefInv DEF SpuriousWakeup, Held
  <2> QED BY <1>4, <2>1, <2>2, <2>3, <2>4, <2>5 DEF Advance
<1>5. ASSUME NEW o \in Owners, OwnerStep(o)
      PROVE  RefInv'
  BY <1>5, UnregisterKeepsRefInv, MarkKeepsRefInv DEF OwnerStep
<1>6. ASSUME NEW t \in Threads \cup Owners, Free(t)
      PROVE  RefInv'
  BY <1>6, FreeKeepsRefInv
<1>7. CASE CloseInput \/ CloseAll
  BY <1>7, BroadcastKeepsRefInv DEF CloseInput, CloseAll
<1>8. CASE UNCHANGED vars
  BY <1>8, StutterKeepsRefInv DEF vars
<1> QED BY <1>1, <1>2, <1>3, <1>4, <1>5, <1>6, <1>7, <1>8 DEF Next

-----------------------------------------------------------------------------
(***************************************************************************)
(* The ring.                                                               *)
(***************************************************************************)
RingInv == RingInStep /\ (allocated => capacity \in Capacities)

\* The length of a chunk is positive and stays within the buffer, the free space
\* (or the contents) and the end of the ring.
LEMMA WriteLengthFits ==
    ASSUME TypeOK, RingInv, allocated, NEW t \in Threads, out[t] # <<>>, size # capacity
    PROVE  /\ WriteLength(t) \in Nat \ {0}
           /\ WriteLength(t) <= Len(out[t])
           /\ WriteLength(t) <= capacity - size
           /\ WriteLength(t) <= capacity - writePosition
<1>1. capacity \in Nat \ {0} /\ size \in 0..capacity /\ writePosition \in 0..capacity - 1
  BY DataAssumption DEF TypeOK, RingInv, RingInStep
<1>2. Len(out[t]) \in Nat \ {0}
  BY DEF TypeOK
<1>3. capacity - size \in Nat \ {0} /\ capacity - writePosition \in Nat \ {0}
  BY <1>1
<1> QED BY <1>2, <1>3, SmallestIsLeast DEF WriteLength

LEMMA ReadLengthFits ==
    ASSUME TypeOK, RingInv, allocated, NEW t \in Threads, want[t] > 0, size > 0
    PROVE  /\ ReadLength(t) \in Nat \ {0}
           /\ ReadLength(t) <= want[t]
           /\ ReadLength(t) <= size
           /\ ReadLength(t) <= capacity - readPosition
<1>1. capacity \in Nat \ {0} /\ size \in Nat \ {0} /\ readPosition \in 0..capacity - 1
  BY DataAssumption DEF TypeOK, RingInv, RingInStep
<1>2. want[t] \in Nat \ {0}
  BY DEF TypeOK
<1>3. capacity - readPosition \in Nat \ {0}
  BY <1>1
<1> QED BY <1>1, <1>2, <1>3, SmallestIsLeast DEF ReadLength

\* The positions and the size move together.
LEMMA WriteChunkKeepsRing ==
    ASSUME TypeOK, RingInv, allocated, NEW t \in Threads, WriteChunk(t)
    PROVE  RingInv' /\ size' \in Nat /\ writePosition' \in Nat
<1> DEFINE n == WriteLength(t)
<1>1. capacity \in Nat \ {0} /\ size \in 0..capacity
      /\ writePosition \in 0..capacity - 1 /\ readPosition \in 0..capacity - 1
  BY DataAssumption DEF TypeOK, RingInv, RingInStep
<1>2. n \in Nat \ {0} /\ n <= capacity - size /\ n <= capacity - writePosition
  BY WriteLengthFits DEF WriteChunk
<1>3. /\ size' = size + n /\ writePosition' = (writePosition + n) % capacity
      /\ UNCHANGED <<allocated, capacity, readPosition>>
  BY DEF WriteChunk, resource
<1> HIDE DEF n
<1>4. writePosition = (readPosition + size) % capacity
  BY DEF RingInv, RingInStep
<1>5. writePosition = IF readPosition + size < capacity THEN readPosition + size
                      ELSE readPosition + size - capacity
  BY <1>1, <1>4, WrapOnce
<1>6. writePosition' = IF writePosition + n < capacity THEN writePosition + n
                       ELSE writePosition + n - capacity
  <2>1. n \in 0..capacity
    BY <1>1, <1>2
  <2> QED BY <1>1, <1>3, <2>1, WrapOnce
<1>7. size + n \in 0..capacity
  BY <1>1, <1>2
<1>8. (readPosition + size') % capacity
        = IF readPosition + (size + n) < capacity THEN readPosition + (size + n)
          ELSE readPosition + (size + n) - capacity
  BY <1>1, <1>3, <1>7, WrapOnce
<1>9. writePosition' = (readPosition + size') % capacity
  BY <1>1, <1>2, <1>5, <1>6, <1>7, <1>8
<1>10. writePosition' \in Nat /\ writePosition' < capacity
  BY <1>1, <1>2, <1>6
<1> QED BY <1>1, <1>3, <1>7, <1>9, <1>10 DEF RingInv, RingInStep

LEMMA ReadChunkKeepsRing ==
    ASSUME TypeOK, RingInv, allocated, NEW t \in Threads, ReadChunk(t)
    PROVE  RingInv' /\ size' \in Nat /\ readPosition' \in Nat
<1> DEFINE n == ReadLength(t)
<1>1. capacity \in Nat \ {0} /\ size \in 0..capacity
      /\ writePosition \in 0..capacity - 1 /\ readPosition \in 0..capacity - 1
  BY DataAssumption DEF TypeOK, RingInv, RingInStep
<1>2. n \in Nat \ {0} /\ n <= size /\ n <= capacity - readPosition
  BY ReadLengthFits DEF ReadChunk
<1>3. /\ size' = size - n /\ readPosition' = (readPosition + n) % capacity
      /\ UNCHANGED <<allocated, capacity, writePosition>>
  BY DEF ReadChunk, resource
<1> HIDE DEF n
<1>4. writePosition = (readPosition + size) % capacity
  BY DEF RingInv, RingInStep
<1>5. writePosition = IF readPosition + size < capacity THEN readPosition + size
                      ELSE readPosition + size - capacity
  BY <1>1, <1>4, WrapOnce
<1>6. readPosition' = IF readPosition + n < capacity THEN readPosition + n
                      ELSE readPosition + n - capacity
  <2>1. n \in 0..capacity
    BY <1>1, <1>2
  <2> QED BY <1>1, <1>3, <2>1, WrapOnce
<1>7. readPosition' \in 0..capacity - 1 /\ size - n \in 0..capacity
  BY <1>1, <1>2, <1>6
<1>8. (readPosition' + size') % capacity
        = IF readPosition' + (size - n) < capacity THEN readPosition' + (size - n)
          ELSE readPosition' + (size - n) - capacity
  BY <1>1, <1>3, <1>7, WrapOnce
<1>9. writePosition = (readPosition' + size') % capacity
  BY <1>1, <1>2, <1>5, <1>6, <1>7, <1>8
<1> QED BY <1>1, <1>3, <1>7, <1>9 DEF RingInv, RingInStep

-----------------------------------------------------------------------------
(***************************************************************************)
(* Everything together.                                                    *)
(***************************************************************************)
IInv == TypeOK /\ RefInv /\ RingInv /\ NoLostWakeup

LEMMA InitIInv == Init => IInv
<1> SUFFICES ASSUME Init PROVE IInv
  OBVIOUS
<1>1. TypeOK
  <2>1. data \in [0..capacity - 1 -> Byte]
    BY DEF Init
  <2>2. pc \in [Threads \cup Owners -> Places]
    BY DEF Init, Places
  <2>3. /\ out \in [Threads -> Seq(Byte)] /\ in \in [Threads -> Seq(Byte)]
        /\ want \in [Threads -> Nat] /\ timed \in [Threads -> BOOLEAN]
    <3>1. <<>> \in Seq(Byte)
      OBVIOUS
    <3> QED BY <3>1 DEF Init
  <2> QED BY <2>1, <2>2, <2>3 DEF Init, TypeOK, Types, Places
<1>2. RefInv
  BY InitRefInv
<1>3. RingInv
  BY DEF Init, RingInv, RingInStep
<1>4. NoLostWakeup
  BY DEF Init, NoLostWakeup, Idle
<1> QED BY <1>1, <1>2, <1>3, <1>4 DEF IInv

\* A step that copies nothing leaves the ring as it is.
LEMMA NextRingInv ==
    ASSUME TypeOK, RefInv, RingInv, [Next]_vars
    PROVE  RingInv'
<1> USE DEF ring, resource
<1>1. ASSUME NEW t \in Threads, WriteChunk(t)
      PROVE  RingInv'
  <2>1. allocated
    BY <1>1, HolderCounts DEF WriteChunk, Held
  <2> QED BY <1>1, <2>1, WriteChunkKeepsRing
<1>2. ASSUME NEW t \in Threads, ReadChunk(t)
      PROVE  RingInv'
  <2>1. allocated
    BY <1>2, HolderCounts DEF ReadChunk, Held
  <2> QED BY <1>2, <2>1, ReadChunkKeepsRing
<1>3. ASSUME NEW ty \in Types, NEW cap \in Capacities, Register(ty, cap)
      PROVE  RingInv'
  <2>1. cap \in Nat \ {0}
    BY DataAssumption
  <2>2. (0 + 0) % cap = 0
    BY <2>1
  <2> QED BY <1>3, <2>1, <2>2 DEF Register, RingInv, RingInStep
<1>4. ASSUME NEW t \in Threads \cup Owners, Free(t)
      PROVE  RingInv'
  BY <1>4 DEF Free, RingInv, RingInStep
<1>5. ASSUME UNCHANGED <<allocated, capacity, size, readPosition, writePosition>>
      PROVE  RingInv'
  BY <1>5 DEF RingInv, RingInStep
<1>6. ASSUME NEW s \in Sessions, SessionStep(s)
      PROVE  RingInv'
  BY <1>5, <1>6 DEF SessionStep, Open, OpenSucceeds, OpenFails, NotFound, Begin, Close,
                    Cancel, WakeSessions, NextExecution, vars
<1>7. ASSUME NEW a \in Apps, AppStep(a)
      PROVE  RingInv'
  BY <1>5, <1>7 DEF AppStep, Enter, NotFound, Release, vars
<1>8. ASSUME NEW t \in Threads, Advance(t) \/ TimesOut(t) \/ SpuriousWakeup(t)
      PROVE  RingInv'
  BY <1>1, <1>2, <1>5, <1>8 DEF Advance, WriteReturns, ReadReturns, WriteWaits, ReadWaits,
                               TimesOut, SpuriousWakeup
<1>9. ASSUME NEW o \in Owners, OwnerStep(o)
      PROVE  RingInv'
  BY <1>5, <1>9 DEF OwnerStep, Unregister, MarkUnregistered
<1>10. CASE CloseInput \/ CloseAll
  BY <1>5, <1>10 DEF CloseInput, CloseAll
<1>11. CASE UNCHANGED vars
  BY <1>5, <1>11 DEF vars
<1> QED BY <1>3, <1>4, <1>6, <1>7, <1>8, <1>9, <1>10, <1>11 DEF Next

\* The parts of TypeOK that different steps disturb.
FlagTypes == /\ allocated \in BOOLEAN /\ registered \in BOOLEAN /\ type \in Types
             /\ closed \in BOOLEAN /\ writeClosed \in BOOLEAN /\ unregistered \in BOOLEAN
             /\ lock \in Threads \cup {NoOne}
RingTypes == /\ capacity \in Capacities \cup {0}
             /\ data \in [0..capacity - 1 -> Byte]
             /\ size \in Nat /\ readPosition \in Nat /\ writePosition \in Nat
CallTypes == /\ out \in [Threads -> Seq(Byte)] /\ in \in [Threads -> Seq(Byte)]
             /\ want \in [Threads -> Nat] /\ timed \in [Threads -> BOOLEAN]
CancelTypes == cancelled \in [Sessions -> BOOLEAN] /\ waking \subseteq Sessions

LEMMA TypeParts ==
    TypeOK <=> /\ FlagTypes /\ RingTypes /\ CallTypes /\ CancelTypes
               /\ openCount \in Nat /\ pc \in [Threads \cup Owners -> Places]
BY DEF TypeOK, FlagTypes, RingTypes, CallTypes, CancelTypes, Places

\* The count is a natural number wherever it means something.
LEMMA CountIsNatural ==
    ASSUME TypeOK, RefInv, [Next]_vars
    PROVE  openCount' \in Nat
<1> USE DEF TypeOK
<1>1. ASSUME NEW s \in Sessions, SessionStep(s)
      PROVE  openCount' \in Nat
  <2>1. CASE OpenFails(s)
    <3>1. pc[s] \in Held /\ s \in Threads
      BY <2>1 DEF OpenFails, Held, Threads
    <3> QED BY <2>1, <3>1, HolderCounts DEF OpenFails
  <2> QED BY <1>1, <2>1 DEF SessionStep, Open, OpenSucceeds, NotFound, Begin, Close, Drop,
                            Cancel, WakeSessions, NextExecution, vars
<1>2. ASSUME NEW a \in Apps, AppStep(a)
      PROVE  openCount' \in Nat
  BY <1>2 DEF AppStep, Enter, NotFound, Release, Drop, vars
<1>3. ASSUME NEW t \in Threads, Advance(t) \/ TimesOut(t) \/ SpuriousWakeup(t)
      PROVE  openCount' \in Nat
  BY <1>3 DEF Advance, WriteReturns, ReadReturns, WriteWaits, ReadWaits, WriteChunk,
              ReadChunk, TimesOut, SpuriousWakeup
<1>4. ASSUME NEW o \in Owners, OwnerStep(o)
      PROVE  openCount' \in Nat
  BY <1>4 DEF OwnerStep, Unregister, MarkUnregistered
<1>5. ASSUME NEW ty \in Types, NEW cap \in Capacities, Register(ty, cap)
      PROVE  openCount' \in Nat
  BY <1>5 DEF Register
<1>6. ASSUME NEW t \in Threads \cup Owners, Free(t)
      PROVE  openCount' \in Nat
  BY <1>6 DEF Free
<1>7. CASE CloseInput \/ CloseAll \/ UNCHANGED vars
  BY <1>7 DEF CloseInput, CloseAll, vars
<1> QED BY <1>1, <1>2, <1>3, <1>4, <1>5, <1>6, <1>7 DEF Next

LEMMA FlagTypesStep ==
    ASSUME TypeOK, [Next]_vars
    PROVE  FlagTypes'
<1> USE DEF TypeOK, FlagTypes, resource, flags
<1>1. ASSUME NEW s \in Sessions, SessionStep(s)
      PROVE  FlagTypes'
  BY <1>1 DEF SessionStep, Open, OpenSucceeds, OpenFails, NotFound, Begin, Close, Drop,
              Cancel, WakeSessions, NextExecution, vars
<1>2. ASSUME NEW a \in Apps, AppStep(a)
      PROVE  FlagTypes'
  BY <1>2 DEF AppStep, Enter, NotFound, Release, Drop, vars
<1>3. ASSUME NEW t \in Threads, Advance(t) \/ TimesOut(t) \/ SpuriousWakeup(t)
      PROVE  FlagTypes'
  BY <1>3 DEF Advance, WriteReturns, ReadReturns, WriteWaits, ReadWaits, WriteChunk,
              ReadChunk, TimesOut, SpuriousWakeup, Return, Wait
<1>4. ASSUME NEW o \in Owners, OwnerStep(o)
      PROVE  FlagTypes'
  BY <1>4 DEF OwnerStep, Unregister, MarkUnregistered
<1>5. ASSUME NEW ty \in Types, NEW cap \in Capacities, Register(ty, cap)
      PROVE  FlagTypes'
  BY <1>5 DEF Register
<1>6. ASSUME NEW t \in Threads \cup Owners, Free(t)
      PROVE  FlagTypes'
  BY <1>6 DEF Free
<1>7. CASE CloseInput \/ CloseAll \/ UNCHANGED vars
  BY <1>7 DEF CloseInput, CloseAll, vars
<1> QED BY <1>1, <1>2, <1>3, <1>4, <1>5, <1>6, <1>7 DEF Next

\* What a chunk does to the data and to the two buffers.
LEMMA ChunkTypes ==
    ASSUME TypeOK, RefInv, RingInv, NEW t \in Threads, WriteChunk(t) \/ ReadChunk(t)
    PROVE  RingTypes' /\ CallTypes'
<1>1. allocated
  BY HolderCounts DEF WriteChunk, ReadChunk, Held
<1>2. capacity \in Nat \ {0}
  BY <1>1, DataAssumption DEF RingInv
<1>3. CASE WriteChunk(t)
  <2> DEFINE n == WriteLength(t)
  <2>1. n \in Nat \ {0} /\ n <= Len(out[t])
    BY <1>1, <1>3, WriteLengthFits DEF WriteChunk
  <2>2. size' \in Nat /\ writePosition' \in Nat
    BY <1>1, <1>3, WriteChunkKeepsRing
  <2>3. /\ data' = [i \in 0..capacity - 1 |->
                     IF i \in writePosition..writePosition + n - 1
                     THEN out[t][i - writePosition + 1] ELSE data[i]]
        /\ out' = [out EXCEPT ![t] = SubSeq(@, n + 1, Len(@))]
        /\ UNCHANGED <<capacity, readPosition, in, want, timed>>
    BY <1>3 DEF WriteChunk, resource
  <2> HIDE DEF n
  <2>4. out[t] \in Seq(Byte) /\ writePosition \in Nat
    BY DEF TypeOK
  <2>5. \A i \in writePosition..writePosition + n - 1 : out[t][i - writePosition + 1] \in Byte
    <3> TAKE i \in writePosition..writePosition + n - 1
    <3>1. i - writePosition + 1 \in 1..Len(out[t])
      BY <2>1, <2>4
    <3> QED BY <2>4, <3>1
  <2>6. data' \in [0..capacity - 1 -> Byte]
    BY <2>3, <2>5 DEF TypeOK
  <2>7. SubSeq(out[t], n + 1, Len(out[t])) \in Seq(Byte)
    BY <2>1, <2>4
  <2>8. out' \in [Threads -> Seq(Byte)]
    BY <2>3, <2>7 DEF TypeOK
  <2> QED BY <2>2, <2>3, <2>6, <2>8 DEF TypeOK, RingTypes, CallTypes
<1>4. CASE ReadChunk(t)
  <2> DEFINE n == ReadLength(t)
  <2>1. n \in Nat \ {0} /\ n <= want[t] /\ n <= capacity - readPosition
    BY <1>1, <1>4, ReadLengthFits DEF ReadChunk
  <2>2. size' \in Nat /\ readPosition' \in Nat
    BY <1>1, <1>4, ReadChunkKeepsRing
  <2>3. /\ in' = [in EXCEPT ![t] = @ \o [i \in 1..n |-> data[readPosition + i - 1]]]
        /\ want' = [want EXCEPT ![t] = @ - n]
        /\ UNCHANGED <<capacity, data, writePosition, out, timed>>
    BY <1>4 DEF ReadChunk, resource
  <2> HIDE DEF n
  <2>4. [i \in 1..n |-> data[readPosition + i - 1]] \in Seq(Byte)
    <3>1. \A i \in 1..n : readPosition + i - 1 \in 0..capacity - 1
      BY <1>2, <2>1 DEF TypeOK
    <3>2. \A i \in 1..n : data[readPosition + i - 1] \in Byte
      BY <3>1 DEF TypeOK
    <3> QED BY <2>1, <3>2
  <2>5. in[t] \o [i \in 1..n |-> data[readPosition + i - 1]] \in Seq(Byte)
    <3>1. in[t] \in Seq(Byte)
      BY DEF TypeOK
    <3>2. \A x, y \in Seq(Byte) : x \o y \in Seq(Byte)
      OBVIOUS
    <3> QED BY <2>4, <3>1, <3>2
  <2>6. in' \in [Threads -> Seq(Byte)] /\ want' \in [Threads -> Nat]
    BY <2>1, <2>3, <2>5 DEF TypeOK
  <2> QED BY <2>2, <2>3, <2>6 DEF TypeOK, RingTypes, CallTypes
<1> QED BY <1>3, <1>4

LEMMA ArgumentTypes ==
    ASSUME CallTypes, NEW t \in Threads, Arguments(t),
           NEW f \in BOOLEAN, timed' = [timed EXCEPT ![t] = f]
    PROVE  CallTypes'
<1>1. \A b \in Buffers : b \in Seq(Byte)
  <2>1. \A n \in 0..MaxRequest : \A b \in [1..n -> Byte] : b \in Seq(Byte)
    BY DataAssumption
  <2> QED BY <2>1 DEF Buffers
<1>2. <<>> \in Seq(Byte)
  OBVIOUS
<1>3. timed' \in [Threads -> BOOLEAN]
  BY DEF CallTypes
<1>4. CASE /\ \E b \in Buffers : out' = [out EXCEPT ![t] = b]
           /\ UNCHANGED <<in, want>>
  BY <1>1, <1>3, <1>4 DEF CallTypes
<1>5. CASE /\ \E n \in 0..MaxRequest : want' = [want EXCEPT ![t] = n]
           /\ in' = [in EXCEPT ![t] = <<>>]
           /\ UNCHANGED out
  <2>1. want' \in [Threads -> Nat]
    BY <1>5, DataAssumption DEF CallTypes
  <2>2. in' \in [Threads -> Seq(Byte)]
    BY <1>2, <1>5 DEF CallTypes
  <2> QED BY <1>3, <1>5, <2>1, <2>2 DEF CallTypes
<1> QED BY <1>4, <1>5 DEF Arguments

LEMMA ReturnTypes ==
    ASSUME CallTypes, NEW t \in Threads, Return(t)
    PROVE  CallTypes'
<1>1. <<>> \in Seq(Byte)
  OBVIOUS
<1> QED BY <1>1 DEF CallTypes, Return

LEMMA DataTypesStep ==
    ASSUME TypeOK, RefInv, RingInv, [Next]_vars
    PROVE  RingTypes' /\ CallTypes'
<1>a. RingTypes /\ CallTypes
  BY TypeParts
<1>b. ASSUME UNCHANGED <<capacity, ring>>
      PROVE  RingTypes'
  BY <1>a, <1>b DEF RingTypes, ring
<1>c. ASSUME UNCHANGED calls
      PROVE  CallTypes'
  BY <1>a, <1>c DEF CallTypes, calls
<1> USE DEF resource
<1>1. ASSUME NEW s \in Sessions, SessionStep(s)
      PROVE  RingTypes' /\ CallTypes'
  <2>1. CASE Begin(s)
    <3>1. s \in Threads
      BY DEF Threads
    <3> QED BY <1>a, <1>b, <2>1, <3>1, ArgumentTypes DEF Begin
  <2> QED BY <1>b, <1>c, <1>1, <2>1 DEF SessionStep, Open, OpenSucceeds, OpenFails, NotFound,
                                       Close, Cancel, WakeSessions, NextExecution, vars
<1>2. ASSUME NEW a \in Apps, AppStep(a)
      PROVE  RingTypes' /\ CallTypes'
  <2>1. CASE Enter(a)
    <3>1. a \in Threads
      BY DEF Threads
    <3> QED BY <1>a, <1>b, <2>1, <3>1, ArgumentTypes DEF Enter
  <2> QED BY <1>b, <1>c, <1>2, <2>1 DEF AppStep, NotFound, Release, vars
<1>3. ASSUME NEW t \in Threads, Advance(t) \/ TimesOut(t) \/ SpuriousWakeup(t)
      PROVE  RingTypes' /\ CallTypes'
  <2>1. CASE WriteChunk(t) \/ ReadChunk(t)
    BY <2>1, ChunkTypes
  <2>2. CASE WriteReturns(t) \/ ReadReturns(t) \/ TimesOut(t)
    BY <1>a, <1>b, <2>2, ReturnTypes DEF WriteReturns, ReadReturns, TimesOut
  <2>3. CASE WriteWaits(t) \/ ReadWaits(t) \/ SpuriousWakeup(t)
    BY <1>b, <1>c, <2>3 DEF WriteWaits, ReadWaits, SpuriousWakeup
  <2> QED BY <1>3, <2>1, <2>2, <2>3 DEF Advance
<1>4. ASSUME NEW o \in Owners, OwnerStep(o)
      PROVE  RingTypes' /\ CallTypes'
  BY <1>b, <1>c, <1>4 DEF OwnerStep, Unregister, MarkUnregistered
<1>5. ASSUME NEW ty \in Types, NEW cap \in Capacities, Register(ty, cap)
      PROVE  RingTypes' /\ CallTypes'
  BY <1>c, <1>5 DEF Register, RingTypes
<1>6. ASSUME NEW t \in Threads \cup Owners, Free(t)
      PROVE  RingTypes' /\ CallTypes'
  <2>1. <<>> \in [0..0 - 1 -> Byte]
    OBVIOUS
  <2> QED BY <1>c, <1>6, <2>1 DEF Free, RingTypes
<1>7. CASE CloseInput \/ CloseAll \/ UNCHANGED vars
  BY <1>b, <1>c, <1>7 DEF CloseInput, CloseAll, vars
<1> QED BY <1>1, <1>2, <1>3, <1>4, <1>5, <1>6, <1>7 DEF Next

LEMMA CancelTypesStep ==
    ASSUME TypeOK, [Next]_vars
    PROVE  CancelTypes'
<1> USE DEF CancelTypes, cancels, TypeOK
<1>1. ASSUME NEW s \in Sessions, SessionStep(s)
      PROVE  CancelTypes'
  BY <1>1 DEF SessionStep, Open, OpenSucceeds, OpenFails, NotFound, Begin, Close,
              Cancel, WakeSessions, NextExecution, vars
<1>2. ASSUME NEW a \in Apps, AppStep(a)
      PROVE  CancelTypes'
  BY <1>2 DEF AppStep, Enter, NotFound, Release, vars
<1>3. ASSUME NEW t \in Threads, Advance(t) \/ TimesOut(t) \/ SpuriousWakeup(t)
      PROVE  CancelTypes'
  BY <1>3 DEF Advance, WriteReturns, ReadReturns, WriteWaits, ReadWaits, WriteChunk,
              ReadChunk, TimesOut, SpuriousWakeup
<1>4. ASSUME NEW o \in Owners, OwnerStep(o)
      PROVE  CancelTypes'
  BY <1>4 DEF OwnerStep, Unregister, MarkUnregistered
<1>5. ASSUME NEW ty \in Types, NEW cap \in Capacities, Register(ty, cap)
      PROVE  CancelTypes'
  BY <1>5 DEF Register
<1>6. ASSUME NEW t \in Threads \cup Owners, Free(t)
      PROVE  CancelTypes'
  BY <1>6 DEF Free
<1>7. CASE CloseInput \/ CloseAll \/ UNCHANGED vars
  BY <1>7 DEF CloseInput, CloseAll, vars
<1> QED BY <1>1, <1>2, <1>3, <1>4, <1>5, <1>6, <1>7 DEF Next

LEMMA NextTypeOK ==
    ASSUME TypeOK, RefInv, RingInv, [Next]_vars
    PROVE  TypeOK'
<1>1. RefInv'
  BY NextRefInv
<1>2. FlagTypes' /\ RingTypes' /\ CallTypes' /\ CancelTypes' /\ openCount' \in Nat
  BY FlagTypesStep, DataTypesStep, CancelTypesStep, CountIsNatural
<1>3. pc' \in [Threads \cup Owners -> Places]
  BY <1>1 DEF RefInv, RefTypes
<1> QED BY <1>2, <1>3 DEF TypeOK, FlagTypes, RingTypes, CallTypes, CancelTypes, Places

-----------------------------------------------------------------------------
(***************************************************************************)
(* Waits.                                                                  *)
(***************************************************************************)
\* What NoLostWakeup asks of one waiting thread.
WaitsRightly(t) ==
    /\ ~closed /\ ~writeClosed
    /\ t \in Writers => size = capacity
    /\ t \in Readers => size = 0
    /\ Cancelled(t) => t \in waking \/ ~registered

\* A step that makes nobody wait and changes nothing a wait depends on.
LEMMA WaitsKept ==
    ASSUME NoLostWakeup,
           \A t \in Threads : pc'[t] = "waiting" => pc[t] = "waiting",
           UNCHANGED <<closed, writeClosed, type, size, capacity, cancelled, waking>>,
           ~registered => ~registered'
    PROVE  NoLostWakeup'
BY DEF NoLostWakeup, Writers, Readers, Cancelled

\* One thread moves, to waiting only if it waits rightly.
LEMMA MoveKeepsWaits ==
    ASSUME NoLostWakeup, RefTypes, NEW t \in Threads \cup Owners, NEW q,
           pc' = [pc EXCEPT ![t] = q],
           q = "waiting" => WaitsRightly(t),
           UNCHANGED <<closed, writeClosed, type, size, capacity, cancelled, waking>>,
           ~registered => ~registered'
    PROVE  NoLostWakeup'
<1>1. \A u \in Threads : pc'[u] = IF u = t THEN q ELSE pc[u]
  BY DEF RefTypes
<1>2. \A u \in Threads : pc'[u] = "waiting" => WaitsRightly(u)
  BY <1>1 DEF NoLostWakeup, WaitsRightly
<1> QED BY <1>2 DEF NoLostWakeup, WaitsRightly, Writers, Readers, Cancelled

\* A broadcast to everybody leaves nobody waiting.
LEMMA WakeAllKeepsWaits ==
    ASSUME RefTypes, NEW t \in Threads \cup Owners, NEW q, q # "waiting",
           \/ pc' = Broadcast(Threads, pc)
           \/ pc' = [Broadcast(Threads, pc) EXCEPT ![t] = q]
    PROVE  NoLostWakeup'
<1>1. \A u \in Threads : Broadcast(Threads, pc)[u] # "waiting"
  BY DEF Broadcast, RefTypes
<1>2. \A u \in Threads : pc'[u] # "waiting"
  BY <1>1 DEF Broadcast, RefTypes
<1> QED BY <1>2 DEF NoLostWakeup

LEMMA NextNoLostWakeup ==
    ASSUME TypeOK, RefInv, RingInv, NoLostWakeup, [Next]_vars
    PROVE  NoLostWakeup'
<1> USE DEF flags, resource, ring, cancels
<1> RefTypes
  BY DEF RefInv
<1>1. ASSUME NEW s \in Sessions, SessionStep(s)
      PROVE  NoLostWakeup'
  <2> s \in Threads
    BY DEF Threads
  <2>1. CASE Open(s) \/ OpenSucceeds(s) \/ OpenFails(s) \/ Begin(s)
    BY <2>1, MoveKeepsWaits DEF Open, OpenSucceeds, OpenFails, Begin, Idle
  <2>2. CASE NotFound(s)
    BY <2>2, WaitsKept DEF NotFound, vars
  <2>3. CASE Close(s)
    BY <2>3, WakeAllKeepsWaits DEF Close, Drop, Idle
  <2>4. CASE Cancel(s)
    <3>1. \A t \in Threads : Cancelled(t)' => Cancelled(t) \/ t = s
      BY <2>4 DEF Cancel, Cancelled, TypeOK
    <3> QED BY <2>4, <3>1 DEF Cancel, NoLostWakeup, Writers, Readers
  <2>5. CASE WakeSessions(s)
    <3>1. CASE registered
      <4>1. pc' = Broadcast(SessionSide, pc)
        BY <2>5, <3>1 DEF WakeSessions
      <4>2. \A t \in Threads : pc'[t] = "waiting" => pc[t] = "waiting" /\ t \notin SessionSide
        BY <4>1 DEF Broadcast, RefTypes
      <4>3. Sessions = SessionSide
        BY DEF SessionSide, Writers, Readers, TypeOK, Types
      <4>4. \A t \in Threads : pc'[t] = "waiting" => ~Cancelled(t)
        BY <4>2, <4>3 DEF Cancelled
      <4> QED BY <2>5, <4>2, <4>4 DEF WakeSessions, NoLostWakeup, Writers, Readers, Cancelled
    <3>2. CASE ~registered
      BY <2>5, <3>2 DEF WakeSessions, NoLostWakeup, Writers, Readers, Cancelled
    <3> QED BY <3>1, <3>2
  <2>6. CASE NextExecution(s)
    <3>1. \A t \in Threads : Cancelled(t)' => Cancelled(t)
      BY <2>6 DEF NextExecution, Cancelled, TypeOK
    <3> QED BY <2>6, <3>1 DEF NextExecution, NoLostWakeup, Writers, Readers
  <2> QED BY <1>1, <2>1, <2>2, <2>3, <2>4, <2>5, <2>6 DEF SessionStep
<1>2. ASSUME NEW a \in Apps, AppStep(a)
      PROVE  NoLostWakeup'
  <2> a \in Threads
    BY DEF Threads
  <2>1. CASE Enter(a) \/ Release(a)
    BY <2>1, MoveKeepsWaits DEF Enter, Release, Drop, Idle
  <2>2. CASE NotFound(a)
    BY <2>2, WaitsKept DEF NotFound, vars
  <2> QED BY <1>2, <2>1, <2>2 DEF AppStep
<1>3. ASSUME NEW t \in Threads, Advance(t) \/ TimesOut(t) \/ SpuriousWakeup(t)
      PROVE  NoLostWakeup'
  <2>1. CASE WriteReturns(t) \/ ReadReturns(t) \/ TimesOut(t) \/ SpuriousWakeup(t)
    <3>1. \E q : q # "waiting" /\ pc' = [pc EXCEPT ![t] = q]
      <4>1. CASE SpuriousWakeup(t)
        BY <4>1 DEF SpuriousWakeup
      <4>2. CASE WriteReturns(t) \/ ReadReturns(t) \/ TimesOut(t)
        <5> DEFINE q == IF t \in Sessions THEN "open" ELSE "release"
        <5>1. pc' = [pc EXCEPT ![t] = q]
          BY <4>2 DEF WriteReturns, ReadReturns, TimesOut, Return
        <5>2. q # "waiting"
          OBVIOUS
        <5> QED BY <5>1, <5>2
      <4> QED BY <2>1, <4>1, <4>2
    <3>2. UNCHANGED <<resource, ring, flags, cancels>>
      BY <2>1 DEF WriteReturns, ReadReturns, TimesOut, SpuriousWakeup
    <3> QED BY <3>1, <3>2, MoveKeepsWaits
  <2>2. CASE WriteWaits(t)
    <3>1. t \notin Readers
      BY <2>2, ThreadsAssumption DEF WriteWaits, Writers, Readers
    <3>2. WaitsRightly(t)
      BY <2>2, <3>1 DEF WriteWaits, WriteMustWait, Ended, WaitsRightly
    <3> QED BY <2>2, <3>2, MoveKeepsWaits DEF WriteWaits, Wait
  <2>3. CASE ReadWaits(t)
    <3>1. t \notin Writers
      BY <2>3, ThreadsAssumption DEF ReadWaits, Writers, Readers
    <3>2. WaitsRightly(t)
      BY <2>3, <3>1 DEF ReadWaits, ReadMustWait, WaitsRightly
    <3> QED BY <2>3, <3>2, MoveKeepsWaits DEF ReadWaits, Wait
  <2>4. CASE WriteChunk(t)
    <3>1. \A u \in Threads : pc'[u] = "waiting" => pc[u] = "waiting" /\ u \notin Readers
      BY <2>4 DEF WriteChunk, Broadcast, RefTypes
    <3>2. \A u \in Threads : u \in Readers \/ u \in Writers
      BY DEF Readers, Writers, Threads
    <3>3. \A u \in Threads : pc'[u] # "waiting"
      BY <2>4, <3>1, <3>2 DEF WriteChunk, NoLostWakeup
    <3> QED BY <3>3 DEF NoLostWakeup
  <2>5. CASE ReadChunk(t)
    <3>1. \A u \in Threads : pc'[u] = "waiting" => pc[u] = "waiting" /\ u \notin Writers
      BY <2>5 DEF ReadChunk, Broadcast, RefTypes
    <3>2. \A u \in Threads : u \in Readers \/ u \in Writers
      BY DEF Readers, Writers, Threads
    <3>3. \A u \in Threads : pc'[u] # "waiting"
      BY <2>5, <3>1, <3>2 DEF ReadChunk, NoLostWakeup
    <3> QED BY <3>3 DEF NoLostWakeup
  <2> QED BY <1>3, <2>1, <2>2, <2>3, <2>4, <2>5 DEF Advance
<1>4. ASSUME NEW o \in Owners, OwnerStep(o)
      PROVE  NoLostWakeup'
  <2>1. CASE Unregister(o)
    BY <2>1, MoveKeepsWaits DEF Unregister
  <2>2. CASE MarkUnregistered(o)
    BY <2>2, WakeAllKeepsWaits DEF MarkUnregistered, Idle
  <2> QED BY <1>4, <2>1, <2>2 DEF OwnerStep
<1>5. ASSUME NEW ty \in Types, NEW cap \in Capacities, Register(ty, cap)
      PROVE  NoLostWakeup'
  <2>1. \A t \in Threads : pc'[t] # "waiting"
    BY <1>5 DEF Register, RefInv, References, Holders
  <2> QED BY <2>1 DEF NoLostWakeup
<1>6. ASSUME NEW t \in Threads \cup Owners, Free(t)
      PROVE  NoLostWakeup'
  <2>1. t \in Freeing /\ Holders = {}
    BY <1>6 DEF Free, Freeing, RefInv, References
  <2>2. \A u \in Threads : pc'[u] # "waiting"
    BY <1>6, <2>1 DEF Free, Holders, RefTypes, Idle
  <2> QED BY <2>2 DEF NoLostWakeup
<1>7. CASE CloseInput \/ CloseAll
  <2>1. \A u \in Threads : Broadcast(Threads, pc)[u] # "waiting"
    BY DEF Broadcast, RefTypes
  <2> QED BY <1>7, <2>1 DEF CloseInput, CloseAll, NoLostWakeup
<1>8. CASE UNCHANGED vars
  BY <1>8, WaitsKept DEF vars
<1> QED BY <1>1, <1>2, <1>3, <1>4, <1>5, <1>6, <1>7, <1>8 DEF Next

-----------------------------------------------------------------------------
\* The induction, once for all the theorems below.
LEMMA Inductive == Spec => []IInv
<1>1. IInv /\ [Next]_vars => IInv'
  BY NextTypeOK, NextRefInv, NextRingInv, NextNoLostWakeup DEF IInv
<1> QED BY InitIInv, <1>1, PTL DEF Spec

\* Every variable keeps its type whatever the threads, capacities and requests.
THEOREM TypeCorrect == Spec => []TypeOK
<1>1. IInv => TypeOK
  BY DEF IInv
<1> QED BY <1>1, Inductive, PTL

\* The ring never gets out of step, for every capacity: the chunks that
\* ffkit_stream_write_bytes and ffkit_stream_read_bytes copy stay inside it.
THEOREM RingStaysInStep == Spec => []RingInStep
<1>1. IInv => RingInStep
  BY DEF IInv, RingInv
<1> QED BY <1>1, Inductive, PTL

\* However many sessions, callers and owners race, the stream is never freed
\* under one of them, nor by two of them.
THEOREM NeverUsedAfterFree == Spec => []NoUseAfterFree
<1>1. IInv => NoUseAfterFree
  BY DEF IInv, RefInv, References, Removing, NoUseAfterFree
<1> QED BY <1>1, Inductive, PTL

\* When handles can be allocated, the last user of an unregistered stream, or
\* unregister itself, frees it.
THEOREM NeverLeaks == Spec => []NothingLeaks
<1>1. IInv => NothingLeaks
  BY DEF IInv, RefInv, References, Removing, NothingLeaks
<1> QED BY <1>1, Inductive, PTL

\* No wait outlives its cause: closes, chunks and cancel requests signal whoever
\* they concern, whatever the order in which the mutexes are taken.
THEOREM NoWakeupIsLost == Spec => []NoLostWakeup
<1>1. IInv => NoLostWakeup
  BY DEF IInv
<1> QED BY <1>1, Inductive, PTL

-----------------------------------------------------------------------------
(***************************************************************************)
(* Action properties.                                                      *)
(***************************************************************************)
\* The wake-up of a cancelled session signals the condition of its side alone, so no
\* reader or writer of the application is woken by it.
THEOREM CancelWakesSessionsOnly == Spec => CancelSparesApps
<1>1. ASSUME TypeOK, [Next]_vars, waking' # waking, NEW a \in Apps, pc[a] = "waiting"
      PROVE  pc'[a] = "waiting"
  <2> USE DEF resource, ring, flags, cancels
  <2>1. PICK s \in Sessions : Cancel(s) \/ WakeSessions(s)
    BY <1>1 DEF Next, SessionStep, AppStep, OwnerStep, Advance, vars, Register, Open,
         OpenSucceeds, OpenFails, NotFound, Begin, Close, NextExecution, Enter, Release,
         WriteReturns, ReadReturns, WriteWaits, ReadWaits, WriteChunk, ReadChunk, TimesOut,
         SpuriousWakeup, Unregister, MarkUnregistered, Free, CloseInput, CloseAll
  <2>2. a \notin SessionSide
    BY <1>1, ThreadsAssumption DEF SessionSide, Writers, Readers, TypeOK, Types
  <2>3. a \in DOMAIN pc
    BY <1>1 DEF TypeOK, Threads
  <2>4. Broadcast(SessionSide, pc)[a] = pc[a]
    BY <2>2, <2>3, BroadcastAt
  <2> QED BY <1>1, <2>1, <2>4 DEF Cancel, WakeSessions
<1>2. TypeOK /\ [Next]_vars => (waking' # waking => \A a \in Apps : pc[a] = "waiting" => pc'[a] = "waiting")
  BY <1>1
<1> QED BY <1>2, TypeCorrect, PTL DEF Spec, CancelSparesApps

\* Once a stream is ended for writing and drained it stays so until it is freed.
THEOREM EndStaysFinal == Spec => EndIsFinal
<1>1. ASSUME [Next]_vars, allocated, allocated', writeClosed, size = 0
      PROVE  writeClosed' /\ size' = 0
  <2> USE DEF resource, ring, flags
  <2>1. ASSUME NEW s \in Sessions, SessionStep(s)
        PROVE  writeClosed' /\ size' = 0
    BY <1>1, <2>1 DEF SessionStep, Open, OpenSucceeds, OpenFails, NotFound, Begin, Close,
                      Cancel, WakeSessions, NextExecution, vars
  <2>2. ASSUME NEW t \in Threads, Advance(t) \/ TimesOut(t) \/ SpuriousWakeup(t)
        PROVE  writeClosed' /\ size' = 0
    <3>1. ~WriteChunk(t)
      BY <1>1 DEF WriteChunk, Ended
    <3>2. ~ReadChunk(t)
      BY <1>1 DEF ReadChunk
    <3>3. UNCHANGED ring /\ UNCHANGED flags
      BY <2>2, <3>1, <3>2 DEF Advance, WriteReturns, ReadReturns, WriteWaits, ReadWaits,
                              TimesOut, SpuriousWakeup
    <3> QED BY <1>1, <3>3
  <2>3. ASSUME NEW a \in Apps, AppStep(a)
        PROVE  writeClosed' /\ size' = 0
    BY <1>1, <2>3 DEF AppStep, Enter, NotFound, Release, vars
  <2>4. ASSUME NEW o \in Owners, OwnerStep(o)
        PROVE  writeClosed' /\ size' = 0
    BY <1>1, <2>4 DEF OwnerStep, Unregister, MarkUnregistered
  <2>5. CASE CloseInput \/ CloseAll \/ UNCHANGED vars
    BY <1>1, <2>5 DEF CloseInput, CloseAll, vars
  <2>6. ASSUME NEW ty \in Types, NEW cap \in Capacities
        PROVE  ~Register(ty, cap)
    BY <1>1 DEF Register
  <2>7. ASSUME NEW t \in Threads \cup Owners
        PROVE  ~Free(t)
    BY <1>1 DEF Free
  <2> QED BY <1>1, <2>1, <2>2, <2>3, <2>4, <2>5, <2>6, <2>7 DEF Next
<1>2. [Next]_vars => (allocated /\ allocated' /\ writeClosed /\ size = 0 => writeClosed' /\ size' = 0)
  BY <1>1
<1> QED BY <1>2, PTL DEF Spec, EndIsFinal

-----------------------------------------------------------------------------
(***************************************************************************)
(* The refinement of StreamFifo needs two more facts: the buffers of a     *)
(* thread that is in no call are empty, and what is unregistered is ended. *)
(***************************************************************************)
BuffersOK ==
    \A t \in Threads :
        /\ pc[t] \notin InCall => out[t] = <<>> /\ in[t] = <<>>
        /\ t \notin Writers => out[t] = <<>>
        /\ t \notin Readers => in[t] = <<>>

EndedOK == allocated /\ unregistered => closed /\ writeClosed

CallInv == BuffersOK /\ EndedOK

\* A step that takes nobody out of a call and leaves the buffers alone.
LEMMA BuffersKept ==
    ASSUME BuffersOK,
           \A u \in Threads : pc'[u] \notin InCall => pc[u] \notin InCall,
           UNCHANGED <<out, in, type>>
    PROVE  BuffersOK'
BY DEF BuffersOK, Writers, Readers

\* The same, where one thread moves between places outside of its calls or into one.
LEMMA MoveKeepsBuffers ==
    ASSUME TypeOK, BuffersOK, NEW t \in Threads \cup Owners, NEW q, NEW S,
           t \in Threads => q \in InCall \/ pc[t] \notin InCall,
           \/ pc' = [pc EXCEPT ![t] = q]
           \/ pc' = [Broadcast(S, pc) EXCEPT ![t] = q],
           UNCHANGED <<out, in, type>>
    PROVE  BuffersOK'
<1>1. DOMAIN pc = Threads \cup Owners
  BY DEF TypeOK
<1>2. \A u \in Threads \cup Owners :
         Broadcast(S, pc)[u] = IF u \in S /\ pc[u] = "waiting" THEN "call" ELSE pc[u]
  BY <1>1 DEF Broadcast
<1>3. DOMAIN Broadcast(S, pc) = Threads \cup Owners
  BY <1>1 DEF Broadcast
<1>4. \A u \in Threads : \/ u = t /\ pc'[u] = q
                         \/ u # t /\ pc'[u] \in {pc[u], Broadcast(S, pc)[u]}
  BY <1>1, <1>3
<1>5. \A u \in Threads : pc'[u] \notin InCall => pc[u] \notin InCall
  BY <1>2, <1>4 DEF InCall
<1> QED BY <1>5, BuffersKept

\* A broadcast takes nobody out of a call.
LEMMA BroadcastKeepsBuffers ==
    ASSUME TypeOK, BuffersOK, NEW S, pc' = Broadcast(S, pc), UNCHANGED <<out, in, type>>
    PROVE  BuffersOK'
<1>1. \A u \in Threads : pc'[u] = IF u \in S /\ pc[u] = "waiting" THEN "call" ELSE pc[u]
  BY DEF Broadcast, TypeOK
<1>2. \A u \in Threads : pc'[u] \notin InCall => pc[u] \notin InCall
  BY <1>1 DEF InCall
<1> QED BY <1>2, BuffersKept

\* Who writes does not read.
LEMMA OneSide == \A t \in Threads : ~(t \in Writers /\ t \in Readers)
BY ThreadsAssumption DEF Writers, Readers

\* A call begins with the buffers of its side alone.
LEMMA ArgumentsKeepBuffers ==
    ASSUME TypeOK, BuffersOK, NEW t \in Threads, Arguments(t), pc[t] \notin InCall,
           pc' = [pc EXCEPT ![t] = "call"], UNCHANGED type
    PROVE  BuffersOK'
<1>1. /\ Writers' = Writers /\ Readers' = Readers
      /\ \A u \in Threads : pc'[u] = IF u = t THEN "call" ELSE pc[u]
      /\ DOMAIN out = Threads /\ DOMAIN in = Threads
  BY DEF TypeOK, Writers, Readers
<1>2. CASE /\ t \in Writers /\ \E b \in Buffers : out' = [out EXCEPT ![t] = b]
           /\ UNCHANGED <<in, want>>
  <2>1. \A u \in Threads : u # t => out'[u] = out[u]
    BY <1>1, <1>2
  <2> QED BY <1>1, <1>2, <2>1, OneSide DEF BuffersOK, InCall
<1>3. CASE /\ t \in Readers /\ in' = [in EXCEPT ![t] = <<>>]
           /\ UNCHANGED out
  <2>1. \A u \in Threads : in'[u] = IF u = t THEN <<>> ELSE in[u]
    BY <1>1, <1>3
  <2> QED BY <1>1, <1>3, <2>1, OneSide DEF BuffersOK, InCall
<1> QED BY <1>2, <1>3 DEF Arguments

LEMMA ReturnKeepsBuffers ==
    ASSUME TypeOK, BuffersOK, NEW t \in Threads, Return(t), UNCHANGED type
    PROVE  BuffersOK'
<1>1. /\ Writers' = Writers /\ Readers' = Readers
      /\ \A u \in Threads : u # t => pc'[u] = pc[u]
      /\ \A u \in Threads : out'[u] = IF u = t THEN <<>> ELSE out[u]
      /\ \A u \in Threads : in'[u] = IF u = t THEN <<>> ELSE in[u]
  BY DEF Return, TypeOK, Writers, Readers
<1> QED BY <1>1 DEF BuffersOK

LEMMA ChunkKeepsBuffers ==
    ASSUME TypeOK, BuffersOK, NEW t \in Threads, WriteChunk(t) \/ ReadChunk(t)
    PROVE  BuffersOK'
<1>1. Writers' = Writers /\ Readers' = Readers /\ pc[t] = "call"
  BY DEF WriteChunk, ReadChunk, Writers, Readers, resource
<1>2. pc' \in {Broadcast(Readers, pc), Broadcast(Writers, pc)}
  BY DEF WriteChunk, ReadChunk
<1>3. \A u \in Threads : pc'[u] = pc[u] \/ (pc[u] = "waiting" /\ pc'[u] = "call")
  <2>1. DOMAIN pc = Threads \cup Owners
    BY DEF TypeOK
  <2>2. \A u \in Threads : \/ pc'[u] = Broadcast(Readers, pc)[u]
                           \/ pc'[u] = Broadcast(Writers, pc)[u]
    BY <1>2
  <2> QED BY <2>1, <2>2 DEF Broadcast
<1>4. \A u \in Threads : pc'[u] \notin InCall => pc[u] \notin InCall /\ u # t
  BY <1>1, <1>3 DEF InCall
<1>5. CASE WriteChunk(t)
  <2>1. t \in Writers /\ in' = in /\ \A u \in Threads : u # t => out'[u] = out[u]
    BY <1>5 DEF WriteChunk, TypeOK
  <2> QED BY <1>1, <1>4, <2>1 DEF BuffersOK
<1>6. CASE ReadChunk(t)
  <2>1. t \in Readers /\ out' = out /\ \A u \in Threads : u # t => in'[u] = in[u]
    BY <1>6 DEF ReadChunk, TypeOK
  <2> QED BY <1>1, <1>4, <2>1 DEF BuffersOK
<1> QED BY <1>5, <1>6

LEMMA NextBuffers ==
    ASSUME IInv, CallInv, [Next]_vars
    PROVE  BuffersOK'
<1>0. TypeOK /\ BuffersOK
  BY DEF IInv, CallInv
<1>1. ASSUME NEW ty \in Types, NEW cap \in Capacities, Register(ty, cap)
      PROVE  BuffersOK'
  <2>1. Holders = {}
    BY <1>1 DEF Register, IInv, RefInv, References
  <2>2. \A t \in Threads : pc[t] \notin InCall
    BY <2>1 DEF Holders, InCall
  <2>3. UNCHANGED <<pc, out, in>>
    BY <1>1 DEF Register, calls
  <2> QED BY <1>0, <2>2, <2>3 DEF BuffersOK
<1>2. ASSUME NEW s \in Sessions, SessionStep(s)
      PROVE  BuffersOK'
  <2>0. s \in Threads
    BY DEF Threads
  <2>1. CASE Open(s)
    BY <1>0, <2>0, <2>1, MoveKeepsBuffers DEF Open, calls, resource, Idle, InCall
  <2>2. CASE OpenSucceeds(s)
    BY <1>0, <2>0, <2>2, MoveKeepsBuffers DEF OpenSucceeds, calls, resource, InCall
  <2>3. CASE OpenFails(s)
    BY <1>0, <2>0, <2>3, MoveKeepsBuffers DEF OpenFails, calls, resource, InCall
  <2>4. CASE NotFound(s)
    BY <1>0, <2>4, BuffersKept DEF NotFound, vars, calls, resource
  <2>5. CASE Begin(s)
    BY <1>0, <2>0, <2>5, ArgumentsKeepBuffers DEF Begin, resource, InCall
  <2>6. CASE Close(s)
    <3>1. PICK q : pc' = [Broadcast(Threads, pc) EXCEPT ![s] = q]
      BY <2>6 DEF Close, Drop
    <3>2. pc[s] \notin InCall /\ UNCHANGED <<out, in, type>>
      BY <2>6 DEF Close, InCall, calls, resource
    <3> QED BY <1>0, <2>0, <3>1, <3>2, MoveKeepsBuffers
  <2>7. CASE Cancel(s) \/ NextExecution(s)
    BY <1>0, <2>7, BuffersKept DEF Cancel, NextExecution, calls, resource
  <2>8. CASE WakeSessions(s)
    <3>1. UNCHANGED <<out, in, type>>
      BY <2>8 DEF WakeSessions, calls, resource
    <3>2. pc' = pc \/ pc' = Broadcast(SessionSide, pc)
      BY <2>8 DEF WakeSessions
    <3> QED BY <1>0, <3>1, <3>2, BuffersKept, BroadcastKeepsBuffers
  <2> QED BY <1>2, <2>1, <2>2, <2>3, <2>4, <2>5, <2>6, <2>7, <2>8 DEF SessionStep
<1>3. ASSUME NEW a \in Apps, AppStep(a)
      PROVE  BuffersOK'
  <2>0. a \in Threads
    BY DEF Threads
  <2>1. CASE Enter(a)
    BY <1>0, <2>0, <2>1, ArgumentsKeepBuffers DEF Enter, resource, Idle, InCall
  <2>2. CASE NotFound(a)
    BY <1>0, <2>2, BuffersKept DEF NotFound, vars, calls, resource
  <2>3. CASE Release(a)
    <3>1. PICK q : pc' = [pc EXCEPT ![a] = q]
      BY <2>3 DEF Release, Drop
    <3>2. pc[a] \notin InCall /\ UNCHANGED <<out, in, type>>
      BY <2>3 DEF Release, InCall, calls, resource
    <3> QED BY <1>0, <2>0, <3>1, <3>2, MoveKeepsBuffers
  <2> QED BY <1>3, <2>1, <2>2, <2>3 DEF AppStep
<1>4. ASSUME NEW t \in Threads, Advance(t) \/ TimesOut(t) \/ SpuriousWakeup(t)
      PROVE  BuffersOK'
  <2>1. CASE WriteReturns(t) \/ ReadReturns(t) \/ TimesOut(t)
    <3>1. Return(t) /\ UNCHANGED type
      BY <2>1 DEF WriteReturns, ReadReturns, TimesOut, resource
    <3> QED BY <1>0, <3>1, ReturnKeepsBuffers
  <2>2. CASE WriteChunk(t) \/ ReadChunk(t)
    BY <1>0, <2>2, ChunkKeepsBuffers
  <2>3. CASE WriteWaits(t) \/ ReadWaits(t) \/ SpuriousWakeup(t)
    <3>1. PICK q \in InCall : pc' = [pc EXCEPT ![t] = q]
      BY <2>3 DEF WriteWaits, ReadWaits, SpuriousWakeup, Wait, InCall
    <3>2. UNCHANGED <<out, in, type>>
      BY <2>3 DEF WriteWaits, ReadWaits, SpuriousWakeup, calls, resource
    <3> QED BY <1>0, <3>1, <3>2, MoveKeepsBuffers
  <2> QED BY <1>4, <2>1, <2>2, <2>3 DEF Advance
<1>5. ASSUME NEW o \in Owners, OwnerStep(o)
      PROVE  BuffersOK'
  <2>0. o \notin Threads
    BY ThreadsAssumption DEF Threads
  <2>1. PICK q : \/ pc' = [pc EXCEPT ![o] = q]
                 \/ pc' = [Broadcast(Threads, pc) EXCEPT ![o] = q]
    BY <1>5 DEF OwnerStep, Unregister, MarkUnregistered
  <2>2. UNCHANGED <<out, in, type>>
    BY <1>5 DEF OwnerStep, Unregister, MarkUnregistered, calls, resource
  <2> QED BY <1>0, <2>0, <2>1, <2>2, MoveKeepsBuffers
<1>6. ASSUME NEW t \in Threads \cup Owners, Free(t)
      PROVE  BuffersOK'
  BY <1>0, <1>6, MoveKeepsBuffers DEF Free, calls, InCall
<1>7. CASE CloseInput \/ CloseAll
  <2>1. pc' = Broadcast(Threads, pc) /\ UNCHANGED <<out, in, type>>
    BY <1>7 DEF CloseInput, CloseAll, calls, resource
  <2> QED BY <1>0, <2>1, BroadcastKeepsBuffers
<1>8. CASE UNCHANGED vars
  BY <1>0, <1>8, BuffersKept DEF vars, calls, resource
<1> QED BY <1>1, <1>2, <1>3, <1>4, <1>5, <1>6, <1>7, <1>8 DEF Next

\* closed and writeClosed only rise, and unregistered rises with them both.
LEMMA NextEnded ==
    ASSUME IInv, CallInv, [Next]_vars
    PROVE  EndedOK'
<1>0. EndedOK
  BY DEF CallInv
<1>1. ASSUME NEW ty \in Types, NEW cap \in Capacities, Register(ty, cap)
      PROVE  ~unregistered'
  BY <1>1 DEF Register
<1>2. ASSUME UNCHANGED <<allocated, unregistered>>, closed => closed', writeClosed => writeClosed'
      PROVE  EndedOK'
  BY <1>0, <1>2 DEF EndedOK
<1>3. ASSUME NEW s \in Sessions, SessionStep(s)
      PROVE  EndedOK'
  <2>1. CASE Close(s)
    BY <1>2, <2>1 DEF Close, resource
  <2>2. CASE \/ Open(s) \/ OpenSucceeds(s) \/ OpenFails(s) \/ NotFound(s) \/ Begin(s)
             \/ Cancel(s) \/ WakeSessions(s) \/ NextExecution(s)
    <3>1. UNCHANGED <<allocated, unregistered, closed, writeClosed>>
      BY <2>2 DEF Open, OpenSucceeds, OpenFails, NotFound, Begin, Cancel, WakeSessions,
           NextExecution, flags, resource, vars
    <3> QED BY <1>2, <3>1
  <2> QED BY <1>3, <2>1, <2>2 DEF SessionStep
<1>4. ASSUME NEW a \in Apps, AppStep(a)
      PROVE  EndedOK'
  <2>1. UNCHANGED <<allocated, unregistered, closed, writeClosed>>
    BY <1>4 DEF AppStep, Enter, NotFound, Release, flags, resource, vars
  <2> QED BY <1>2, <2>1
<1>5. ASSUME NEW t \in Threads, Advance(t) \/ TimesOut(t) \/ SpuriousWakeup(t)
      PROVE  EndedOK'
  <2>1. UNCHANGED <<allocated, unregistered, closed, writeClosed>>
    BY <1>5 DEF Advance, TimesOut, SpuriousWakeup, WriteReturns, WriteWaits, WriteChunk,
         ReadReturns, ReadWaits, ReadChunk, flags, resource
  <2> QED BY <1>2, <2>1
<1>6. ASSUME NEW o \in Owners, OwnerStep(o)
      PROVE  EndedOK'
  <2>1. CASE Unregister(o)
    BY <1>2, <2>1 DEF Unregister, flags
  <2>2. CASE MarkUnregistered(o)
    BY <2>2 DEF MarkUnregistered, EndedOK
  <2> QED BY <1>6, <2>1, <2>2 DEF OwnerStep
<1>7. ASSUME NEW t \in Threads \cup Owners, Free(t)
      PROVE  ~allocated'
  BY <1>7 DEF Free
<1>8. CASE CloseInput \/ CloseAll
  BY <1>2, <1>8 DEF CloseInput, CloseAll, resource
<1>9. CASE UNCHANGED vars
  BY <1>2, <1>9 DEF vars, resource, flags
<1> QED BY <1>1, <1>3, <1>4, <1>5, <1>6, <1>7, <1>8, <1>9 DEF Next, EndedOK

LEMMA CallsInductive == Spec => []CallInv
<1>1. Init => CallInv
  BY DEF Init, CallInv, BuffersOK, EndedOK
<1>2. IInv /\ CallInv /\ [Next]_vars => CallInv'
  BY NextBuffers, NextEnded DEF CallInv
<1> QED BY <1>1, <1>2, Inductive, PTL DEF Spec

-----------------------------------------------------------------------------
(***************************************************************************)
(* The refinement.                                                         *)
(***************************************************************************)
\* The bytes of a ring of c cells from cell r on are a sequence; the i-th is where
\* the i-th after r is, with one turn of the ring at most.
FromCell(d, c, r, k) == [i \in 1..k |-> d[(r + i - 1) % c]]

LEMMA RingAt ==
    ASSUME NEW c \in Nat \ {0}, NEW k \in 0..c, NEW r \in 0..c - 1,
           NEW d \in [0..c - 1 -> Byte]
    PROVE  /\ FromCell(d, c, r, k) \in Seq(Byte)
           /\ Len(FromCell(d, c, r, k)) = k
           /\ \A i \in 1..k :
                FromCell(d, c, r, k)[i]
                  = d[IF r + i - 1 < c THEN r + i - 1 ELSE r + i - 1 - c]
<1> DEFINE s == FromCell(d, c, r, k)
<1>1. ASSUME NEW i \in 1..k
      PROVE  (r + i - 1) % c = IF r + i - 1 < c THEN r + i - 1 ELSE r + i - 1 - c
  <2>1. PICK j : j = i - 1
    OBVIOUS
  <2>2. j \in 0..c /\ r + i - 1 = r + j
    BY <2>1
  <2>3. (r + j) % c = IF r + j < c THEN r + j ELSE r + j - c
    BY <2>2, WrapOnce
  <2> QED BY <2>2, <2>3
<1>2. \A i \in 1..k : (r + i - 1) % c \in 0..c - 1
  BY <1>1
<1>3. s \in [1..k -> Byte]
  BY <1>2 DEF FromCell
<1>4. s \in Seq(Byte) /\ Len(s) = k
  BY <1>3
<1>5. \A i \in 1..k : s[i] = d[(r + i - 1) % c]
  BY DEF FromCell
<1> QED BY <1>1, <1>4, <1>5

\* A written chunk is appended.
LEMMA WriteChunkPuts ==
    ASSUME IInv, allocated, NEW t \in Threads, WriteChunk(t)
    PROVE  Fifo!Put(t)
<1> DEFINE n == WriteLength(t)
<1>0. TypeOK /\ RingInv
  BY DEF IInv
<1>1. /\ capacity \in Nat \ {0} /\ size \in 0..capacity
      /\ readPosition \in 0..capacity - 1 /\ writePosition \in 0..capacity - 1
      /\ data \in [0..capacity - 1 -> Byte]
      /\ out[t] \in Seq(Byte)
  BY <1>0, DataAssumption DEF TypeOK, RingInv, RingInStep
<1>2. n \in Nat \ {0} /\ n <= Len(out[t]) /\ n <= capacity - size /\ n <= capacity - writePosition
  BY <1>0, WriteLengthFits DEF WriteChunk
<1>3. /\ data' = [i \in 0..capacity - 1 |->
                    IF i \in writePosition..writePosition + n - 1
                    THEN out[t][i - writePosition + 1] ELSE data[i]]
      /\ size' = size + n
      /\ out' = [out EXCEPT ![t] = SubSeq(@, n + 1, Len(@))]
      /\ UNCHANGED <<allocated, capacity, readPosition, closed, writeClosed, in>>
      /\ ~closed /\ ~writeClosed
  BY DEF WriteChunk, resource, flags, Ended
<1>4. writePosition = IF readPosition + size < capacity THEN readPosition + size
                      ELSE readPosition + size - capacity
  BY <1>0, <1>1, WrapOnce DEF RingInv, RingInStep
<1>5. TypeOK' /\ RingInv'
  <2>1. RingInv'
    BY <1>0, WriteChunkKeepsRing
  <2>2. TypeOK'
    <3>1. [Next]_vars
      BY DEF Next, Advance
    <3> QED BY <3>1, NextTypeOK DEF IInv
  <2> QED BY <2>1, <2>2
<1> HIDE DEF n
<1>6. /\ Contents \in Seq(Byte) /\ Len(Contents) = size
      /\ \A i \in 1..size :
            Contents[i] = data[IF readPosition + i - 1 < capacity THEN readPosition + i - 1
                               ELSE readPosition + i - 1 - capacity]
  <2>1. Contents = FromCell(data, capacity, readPosition, size)
    BY DEF Contents, FromCell
  <2> QED BY <1>1, <2>1, RingAt
<1>7. /\ Contents' \in Seq(Byte) /\ Len(Contents') = size + n
      /\ \A i \in 1..size + n :
            Contents'[i] = data'[IF readPosition + i - 1 < capacity THEN readPosition + i - 1
                                 ELSE readPosition + i - 1 - capacity]
  <2>1. size + n \in 0..capacity
    BY <1>1, <1>2
  <2>2. data' \in [0..capacity - 1 -> Byte]
    BY <1>3, <1>5 DEF TypeOK
  <2>3. PICK d : d = data'
    OBVIOUS
  <2>4. Contents' = FromCell(d, capacity, readPosition, size + n)
    BY <1>3, <2>3 DEF Contents, FromCell
  <2> DEFINE k == size + n
  <2>5. k \in 0..capacity /\ d \in [0..capacity - 1 -> Byte]
    BY <2>1, <2>2, <2>3
  <2> HIDE DEF k
  <2>6. /\ FromCell(d, capacity, readPosition, k) \in Seq(Byte)
        /\ Len(FromCell(d, capacity, readPosition, k)) = k
        /\ \A i \in 1..k :
             FromCell(d, capacity, readPosition, k)[i]
               = d[IF readPosition + i - 1 < capacity THEN readPosition + i - 1
                   ELSE readPosition + i - 1 - capacity]
    BY <1>1, <2>5, RingAt
  <2> QED BY <2>3, <2>4, <2>6 DEF k
<1> DEFINE chunk == SubSeq(out[t], 1, n)
<1>8. chunk \in Seq(Byte) /\ Len(chunk) = n /\ \A i \in 1..n : chunk[i] = out[t][i]
  BY <1>1, <1>2
<1>9. \A i \in 1..size : Contents'[i] = Contents[i]
  <2> SUFFICES ASSUME NEW i \in 1..size
               PROVE  Contents'[i] = Contents[i]
    OBVIOUS
  <2> DEFINE p == IF readPosition + i - 1 < capacity THEN readPosition + i - 1
                  ELSE readPosition + i - 1 - capacity
  <2>1. p \in 0..capacity - 1 /\ p \notin writePosition..writePosition + n - 1
    BY <1>1, <1>2, <1>4
  <2>2. Contents'[i] = data'[p] /\ Contents[i] = data[p]
    BY <1>1, <1>2, <1>6, <1>7
  <2> HIDE DEF p
  <2> QED BY <1>3, <2>1, <2>2
<1>10. \A i \in 1..n : Contents'[size + i] = out[t][i]
  <2> SUFFICES ASSUME NEW i \in 1..n
               PROVE  Contents'[size + i] = out[t][i]
    OBVIOUS
  <2> DEFINE p == IF readPosition + (size + i) - 1 < capacity THEN readPosition + (size + i) - 1
                  ELSE readPosition + (size + i) - 1 - capacity
  <2>1. p = writePosition + i - 1 /\ p \in 0..capacity - 1
    BY <1>1, <1>2, <1>4
  <2>2. Contents'[size + i] = data'[p]
    <3>1. size + i \in 1..size + n
      BY <1>1, <1>2
    <3> QED BY <1>7, <3>1
  <2> HIDE DEF p
  <2>3. p \in writePosition..writePosition + n - 1 /\ p - writePosition + 1 = i
    BY <1>1, <1>2, <2>1
  <2> QED BY <1>3, <2>1, <2>2, <2>3
<1> HIDE DEF chunk
<1>11. Contents' = Contents \o chunk
  <2>0. /\ Contents \in Seq(Byte) /\ Len(Contents) = size
        /\ chunk \in Seq(Byte) /\ Len(chunk) = n
    BY <1>6, <1>8
  <2>1. Contents \o chunk \in Seq(Byte) /\ Len(Contents \o chunk) = size + n
    BY <2>0
  <2>2. \A i \in 1..size + n : Contents'[i] = (Contents \o chunk)[i]
    <3> SUFFICES ASSUME NEW i \in 1..size + n
                 PROVE  Contents'[i] = (Contents \o chunk)[i]
      OBVIOUS
    <3>1. CASE i \in 1..size
      BY <1>6, <1>8, <1>9, <3>1
    <3>2. CASE i \notin 1..size
      <4>1. i - size \in 1..n /\ size + (i - size) = i
        BY <1>1, <1>2, <3>2
      <4>2. (Contents \o chunk)[i] = chunk[i - size]
        <5>1. i \in Len(Contents) + 1..Len(Contents) + Len(chunk)
          BY <1>1, <1>2, <1>6, <1>8, <3>2
        <5> QED BY <1>6, <1>8, <5>1, ConcatProperties
      <4> QED BY <1>8, <1>10, <4>1, <4>2
    <3> QED BY <3>1, <3>2
  <2> QED BY <1>7, <2>1, <2>2, SeqEqual
<1>12. n \in 1..Len(out[t]) /\ Len(Contents) + n <= capacity
  BY <1>1, <1>2, <1>6
<1>13. UNCHANGED <<capacity, ~allocated \/ closed \/ writeClosed, in>>
       /\ ~(~allocated \/ closed \/ writeClosed)
  BY <1>3
<1> QED BY <1>3, <1>11, <1>12, <1>13 DEF Fifo!Put, chunk

\* A read chunk is the head of the contents.
LEMMA ReadChunkTakes ==
    ASSUME IInv, allocated, NEW t \in Threads, ReadChunk(t)
    PROVE  Fifo!Take(t)
<1> DEFINE n == ReadLength(t)
<1>0. TypeOK /\ RingInv
  BY DEF IInv
<1>1. /\ capacity \in Nat \ {0} /\ size \in 0..capacity
      /\ readPosition \in 0..capacity - 1
      /\ data \in [0..capacity - 1 -> Byte]
  BY <1>0, DataAssumption DEF TypeOK, RingInv, RingInStep
<1>2. n \in Nat \ {0} /\ n <= size /\ n <= capacity - readPosition
  BY <1>0, ReadLengthFits DEF ReadChunk
<1>3. /\ in' = [in EXCEPT ![t] = @ \o [i \in 1..n |-> data[readPosition + i - 1]]]
      /\ size' = size - n
      /\ readPosition' = (readPosition + n) % capacity
      /\ UNCHANGED <<allocated, capacity, data, closed, writeClosed, out>>
  BY DEF ReadChunk, resource, flags
<1> HIDE DEF n
<1>5. readPosition' = IF readPosition + n < capacity THEN readPosition + n
                      ELSE readPosition + n - capacity
  <2>1. n \in 0..capacity
    BY <1>1, <1>2
  <2> QED BY <1>1, <1>3, <2>1, WrapOnce
<1>6. /\ Contents \in Seq(Byte) /\ Len(Contents) = size
      /\ \A i \in 1..size :
            Contents[i] = data[IF readPosition + i - 1 < capacity THEN readPosition + i - 1
                               ELSE readPosition + i - 1 - capacity]
  <2>1. Contents = FromCell(data, capacity, readPosition, size)
    BY DEF Contents, FromCell
  <2> QED BY <1>1, <2>1, RingAt
<1>7. /\ Contents' \in Seq(Byte) /\ Len(Contents') = size - n
      /\ \A i \in 1..size - n :
            Contents'[i] = data[IF readPosition' + i - 1 < capacity THEN readPosition' + i - 1
                                ELSE readPosition' + i - 1 - capacity]
  <2>1. size - n \in 0..capacity
    BY <1>1, <1>2
  <2>2. readPosition' \in 0..capacity - 1
    BY <1>1, <1>2, <1>5
  <2>3. PICK r : r = readPosition'
    OBVIOUS
  <2> DEFINE k == size - n
  <2>4. Contents' = FromCell(data, capacity, r, k)
    BY <1>3, <2>3 DEF Contents, FromCell
  <2>5. k \in 0..capacity /\ r \in 0..capacity - 1
    BY <2>1, <2>2, <2>3
  <2> HIDE DEF k
  <2>6. /\ FromCell(data, capacity, r, k) \in Seq(Byte)
        /\ Len(FromCell(data, capacity, r, k)) = k
        /\ \A i \in 1..k :
             FromCell(data, capacity, r, k)[i]
               = data[IF r + i - 1 < capacity THEN r + i - 1 ELSE r + i - 1 - capacity]
    BY <1>1, <2>5, RingAt
  <2> QED BY <2>3, <2>4, <2>6 DEF k
<1>8. [i \in 1..n |-> data[readPosition + i - 1]] = SubSeq(Contents, 1, n)
  <2>1. \A i \in 1..n : Contents[i] = data[readPosition + i - 1]
    BY <1>1, <1>2, <1>6
  <2>2. SubSeq(Contents, 1, n) = [i \in 1..n |-> Contents[i]]
    BY <1>1, <1>2, <1>6
  <2> QED BY <2>1, <2>2
<1>9. Contents' = SubSeq(Contents, n + 1, Len(Contents))
  <2> DEFINE rest == SubSeq(Contents, n + 1, size)
  <2>1. /\ rest \in Seq(Byte) /\ Len(rest) = size - n
        /\ \A i \in 1..size - n : rest[i] = Contents[n + i]
    BY <1>1, <1>2, <1>6
  <2>2. \A i \in 1..size - n : Contents'[i] = Contents[n + i]
    <3> SUFFICES ASSUME NEW i \in 1..size - n
                 PROVE  Contents'[i] = Contents[n + i]
      OBVIOUS
    <3> DEFINE p == IF readPosition + (n + i) - 1 < capacity THEN readPosition + (n + i) - 1
                    ELSE readPosition + (n + i) - 1 - capacity
    <3>1. Contents[n + i] = data[p]
      BY <1>1, <1>2, <1>6
    <3>2. p = IF readPosition' + i - 1 < capacity THEN readPosition' + i - 1
              ELSE readPosition' + i - 1 - capacity
      BY <1>1, <1>2, <1>5
    <3> HIDE DEF p
    <3> QED BY <1>7, <3>1, <3>2
  <2> HIDE DEF rest
  <2>3. Contents' = rest
    BY <1>7, <2>1, <2>2, SeqEqual
  <2> QED BY <1>6, <2>3 DEF rest
<1>10. n \in 1..Len(Contents)
  BY <1>1, <1>2, <1>6
<1>11. UNCHANGED <<capacity, ~allocated \/ closed \/ writeClosed, out>>
  BY <1>3
<1> QED BY <1>3, <1>8, <1>9, <1>10, <1>11 DEF Fifo!Take

\* A step that leaves the bytes, the end and the callers' buffers alone is a stutter.
LEMMA FifoStands ==
    ASSUME UNCHANGED <<allocated, capacity, ring, closed, writeClosed, out, in>>
    PROVE  UNCHANGED Fifo!vars
BY DEF Fifo!vars, Contents, ring

LEMMA EmptyContents ==
    ASSUME size = 0
    PROVE  Contents = <<>>
BY DEF Contents

LEMMA StepEnds ==
    ASSUME UNCHANGED <<allocated, capacity, ring, out, in>>, closed' \/ writeClosed'
    PROVE  Fifo!End
<1>1. Contents' = Contents
  BY DEF Contents, ring
<1>2. (~allocated \/ closed \/ writeClosed)' = TRUE
  OBVIOUS
<1> QED BY <1>1, <1>2 DEF Fifo!End

\* A call begins: a writer reads nothing and a reader writes nothing.
LEMMA ArgumentsCall ==
    ASSUME TypeOK, BuffersOK, NEW t \in Threads, Arguments(t), pc[t] \notin InCall,
           UNCHANGED <<allocated, capacity, ring, closed, writeClosed>>
    PROVE  Fifo!Call(t)
<1>1. Contents' = Contents
  BY DEF Contents, ring
<1>2. UNCHANGED <<Contents, capacity, ~allocated \/ closed \/ writeClosed>>
  BY <1>1
<1>3. out[t] = <<>> /\ in[t] = <<>> /\ out \in [Threads -> Seq(Byte)] /\ in \in [Threads -> Seq(Byte)]
  BY DEF BuffersOK, TypeOK
<1>4. <<>> \in Buffers
  <2>1. 0 \in 0..MaxRequest
    BY DataAssumption
  <2>2. <<>> \in [1..0 -> Byte]
    OBVIOUS
  <2> QED BY <2>1, <2>2 DEF Buffers
<1>5. in = [in EXCEPT ![t] = <<>>] /\ out = [out EXCEPT ![t] = <<>>]
  BY <1>3
<1>6. \E b \in Buffers : out' = [out EXCEPT ![t] = b]
  BY <1>4, <1>5 DEF Arguments
<1>7. in' = [in EXCEPT ![t] = <<>>]
  BY <1>5 DEF Arguments
<1> QED BY <1>2, <1>6, <1>7 DEF Fifo!Call

\* A call ends.
LEMMA ReturnCalls ==
    ASSUME NEW t \in Threads, Return(t),
           UNCHANGED <<allocated, capacity, ring, closed, writeClosed>>
    PROVE  Fifo!Call(t)
<1>1. Contents' = Contents
  BY DEF Contents, ring
<1>2. UNCHANGED <<Contents, capacity, ~allocated \/ closed \/ writeClosed>>
  BY <1>1
<1>3. <<>> \in Buffers
  <2>1. 0 \in 0..MaxRequest
    BY DataAssumption
  <2>2. <<>> \in [1..0 -> Byte]
    OBVIOUS
  <2> QED BY <2>1, <2>2 DEF Buffers
<1> QED BY <1>2, <1>3 DEF Fifo!Call, Return

\* Every step is one of the queue, or changes nothing it shows.
LEMMA StepIsAFifoStep ==
    ASSUME IInv, CallInv, [Next]_vars
    PROVE  [Fifo!Next]_(Fifo!vars)
<1>0. TypeOK /\ BuffersOK
  BY DEF IInv, CallInv
<1>1. ASSUME NEW ty \in Types, NEW cap \in Capacities, Register(ty, cap)
      PROVE  Fifo!Renew
  <2>1. Contents' = <<>>
    BY <1>1 DEF Register, Contents
  <2>2. capacity' \in Nat /\ UNCHANGED <<out, in>> /\ ~allocated
    BY <1>1, DataAssumption DEF Register, calls
  <2> QED BY <2>1, <2>2 DEF Fifo!Renew
<1>2. ASSUME NEW s \in Sessions, SessionStep(s)
      PROVE  Fifo!Call(s) \/ Fifo!End \/ UNCHANGED Fifo!vars
  <2>0. s \in Threads
    BY DEF Threads
  <2>1. CASE Begin(s)
    BY <1>0, <2>0, <2>1, ArgumentsCall DEF Begin, resource, flags, InCall
  <2>2. CASE Close(s)
    <3>1. closed' \/ writeClosed'
      BY <2>2 DEF Close
    <3>2. UNCHANGED <<allocated, capacity, ring, out, in>>
      BY <2>2 DEF Close, resource, calls
    <3> QED BY <3>1, <3>2, StepEnds
  <2>3. CASE \/ Open(s) \/ OpenSucceeds(s) \/ OpenFails(s) \/ NotFound(s)
             \/ Cancel(s) \/ WakeSessions(s) \/ NextExecution(s)
    <3>1. UNCHANGED <<allocated, capacity, ring, closed, writeClosed, out, in>>
      BY <2>3 DEF Open, OpenSucceeds, OpenFails, NotFound, Cancel, WakeSessions,
           NextExecution, resource, flags, calls, vars
    <3> QED BY <3>1, FifoStands
  <2> QED BY <1>2, <2>1, <2>2, <2>3 DEF SessionStep
<1>3. ASSUME NEW a \in Apps, AppStep(a)
      PROVE  Fifo!Call(a) \/ UNCHANGED Fifo!vars
  <2>0. a \in Threads
    BY DEF Threads
  <2>1. CASE Enter(a)
    BY <1>0, <2>0, <2>1, ArgumentsCall DEF Enter, resource, flags, Idle, InCall
  <2>2. CASE NotFound(a) \/ Release(a)
    <3>1. UNCHANGED <<allocated, capacity, ring, closed, writeClosed, out, in>>
      BY <2>2 DEF NotFound, Release, resource, flags, calls, vars
    <3> QED BY <3>1, FifoStands
  <2> QED BY <1>3, <2>1, <2>2 DEF AppStep
<1>4. ASSUME NEW t \in Threads, Advance(t) \/ TimesOut(t) \/ SpuriousWakeup(t)
      PROVE  Fifo!Call(t) \/ Fifo!Put(t) \/ Fifo!Take(t) \/ UNCHANGED Fifo!vars
  <2>1. CASE WriteReturns(t) \/ ReadReturns(t) \/ TimesOut(t)
    <3>1. Return(t) /\ UNCHANGED <<allocated, capacity, ring, closed, writeClosed>>
      BY <2>1 DEF WriteReturns, ReadReturns, TimesOut, resource, flags
    <3> QED BY <3>1, ReturnCalls
  <2>2. CASE WriteChunk(t) \/ ReadChunk(t)
    <3>1. t \in Holders
      BY <2>2 DEF WriteChunk, ReadChunk, Holders
    <3>2. allocated
      BY <3>1 DEF IInv, RefInv, RefTypes, References
    <3> QED BY <2>2, <3>2, WriteChunkPuts, ReadChunkTakes
  <2>3. CASE WriteWaits(t) \/ ReadWaits(t) \/ SpuriousWakeup(t)
    <3>1. UNCHANGED <<allocated, capacity, ring, closed, writeClosed, out, in>>
      BY <2>3 DEF WriteWaits, ReadWaits, SpuriousWakeup, resource, flags, calls
    <3> QED BY <3>1, FifoStands
  <2> QED BY <1>4, <2>1, <2>2, <2>3 DEF Advance
<1>5. ASSUME NEW o \in Owners, OwnerStep(o)
      PROVE  Fifo!End \/ UNCHANGED Fifo!vars
  <2>1. CASE Unregister(o)
    <3>1. UNCHANGED <<allocated, capacity, ring, closed, writeClosed, out, in>>
      BY <2>1 DEF Unregister, flags, calls
    <3> QED BY <3>1, FifoStands
  <2>2. CASE MarkUnregistered(o)
    <3>1. closed' /\ UNCHANGED <<allocated, capacity, ring, out, in>>
      BY <2>2 DEF MarkUnregistered, resource, calls
    <3> QED BY <3>1, StepEnds
  <2> QED BY <1>5, <2>1, <2>2 DEF OwnerStep
<1>6. ASSUME NEW t \in Threads \cup Owners, Free(t)
      PROVE  Fifo!Renew
  <2>1. Freeing # {}
    BY <1>6 DEF Free, Freeing
  <2>2. ~allocated \/ closed
    BY <2>1 DEF IInv, RefInv, RefTypes, References, CallInv, EndedOK
  <2>3. Contents' = <<>>
    BY <1>6 DEF Free, Contents
  <2>4. ~allocated' /\ capacity' = 0 /\ UNCHANGED <<out, in>>
    BY <1>6 DEF Free, calls
  <2> QED BY <2>2, <2>3, <2>4 DEF Fifo!Renew
<1>7. CASE CloseInput \/ CloseAll
  <2>1. (closed' \/ writeClosed') /\ UNCHANGED <<allocated, capacity, ring, out, in>>
    BY <1>7 DEF CloseInput, CloseAll, resource, calls
  <2> QED BY <2>1, StepEnds DEF Fifo!Next
<1>8. CASE UNCHANGED vars
  <2>1. UNCHANGED <<allocated, capacity, ring, closed, writeClosed, out, in>>
    BY <1>8 DEF vars, resource, flags, calls
  <2> QED BY <2>1, FifoStands
<1> QED BY <1>1, <1>2, <1>3, <1>4, <1>5, <1>6, <1>7, <1>8 DEF Next, Fifo!Next, Threads

\* Open handles, reads, writes, timeouts, closes and frees of any number of
\* threads are together the steps of one bounded queue after another: bytes come
\* out of ffkit_stream_read_bytes in the order ffkit_stream_write_bytes took them.
THEOREM StreamIsAFifo == Spec => ImplementsFifo
<1>1. Init => Fifo!Init
  BY EmptyContents DEF Init, Fifo!Init
<1>2. IInv /\ CallInv /\ [Next]_vars => [Fifo!Next]_(Fifo!vars)
  BY StepIsAFifoStep
<1> QED BY <1>1, <1>2, Inductive, CallsInductive, PTL DEF Spec, ImplementsFifo, Fifo!Spec
=============================================================================
