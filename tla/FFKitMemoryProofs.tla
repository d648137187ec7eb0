-------------------------- MODULE FFKitMemoryProofs --------------------------
(***************************************************************************)
(* What a memory buffer guarantees for any number of handles and owners,   *)
(* any capacities and any width of integers, and that it is a file.        *)
(***************************************************************************)
EXTENDS FFKitMemory, FiniteSetTheorems, TLAPS

Removing == {o \in Owners : pc[o] = "removed"}

\* openCount counts the holders exactly; a buffer is listed, about to be marked,
\* marked or leaked; and whoever frees it is alone with it.
References ==
    /\ allocated => openCount = Cardinality(Holders)
    /\ ~allocated => Holders = {} /\ Freeing = {} /\ Removing = {} /\ ~registered
    /\ registered => ~unregistered /\ Removing = {}
    /\ Removing # {} => ~unregistered
    /\ \A o, p \in Removing : o = p
    /\ Freeing # {} => unregistered /\ Holders = {}
    /\ \A t, u \in Freeing : t = u

\* Handles and owners are in places of their own.
PcOK ==
    /\ \A h \in Handles : pc[h] \in {"idle", "opening", "open", "growing", "storing", "freeing"}
    /\ \A o \in Owners : pc[o] \in {"idle", "removed", "freeing"}

\* The mutex is kept by the one handle in the middle of a write.
MutexOK == \A h \in Handles : pc[h] \in {"growing", "storing"} <=> mutex = h

\* What that handle asks for is representable and allowed, and the capacity it
\* computes never shrinks the buffer.
WriteOK ==
    /\ allocated /\ type = "OUTPUT" => capacity > 0
    /\ \A h \in Handles : pc[h] \in {"growing", "storing"} =>
         type = "OUTPUT" /\ position[h] + Len(request) <= MaxInt
    /\ \A h \in Handles : pc[h] = "growing" =>
         position[h] + Len(request) <= maxCapacity /\ capacity <= newCapacity

IInv == TypeOK /\ PcOK /\ References /\ MutexOK /\ WriteOK /\ InBounds /\ NoJunk

-----------------------------------------------------------------------------
(***************************************************************************)
(* The references.                                                         *)
(***************************************************************************)
Places == {"idle", "opening", "open", "growing", "storing", "removed", "freeing"}
Held   == {"opening", "open", "growing", "storing"}

LEMMA HoldersAreFinite == IsFiniteSet(Holders)
<1>1. Holders \subseteq Handles
  BY DEF Holders
<1> QED BY <1>1, MemoryAssumption, FS_Subset

LEMMA OneHolderMoves ==
    ASSUME NEW h
    PROVE  /\ Cardinality(Holders) \in Nat
           /\ h \notin Holders => Cardinality(Holders \cup {h}) = Cardinality(Holders) + 1
           /\ h \in Holders => /\ Cardinality(Holders \ {h}) = Cardinality(Holders) - 1
                               /\ Cardinality(Holders) - 1 \in Nat
                               /\ Cardinality(Holders) - 1 = 0 <=> Holders \ {h} = {}
<1> USE HoldersAreFinite
<1>1. Cardinality(Holders) \in Nat
  BY FS_CardinalityType
<1>2. Cardinality(Holders \cup {h}) =
        IF h \in Holders THEN Cardinality(Holders) ELSE Cardinality(Holders) + 1
  BY FS_AddElement
<1>3. /\ IsFiniteSet(Holders \ {h})
      /\ Cardinality(Holders \ {h}) =
           IF h \in Holders THEN Cardinality(Holders) - 1 ELSE Cardinality(Holders)
  BY FS_RemoveElement
<1>4. /\ Cardinality(Holders \ {h}) \in Nat
      /\ Cardinality(Holders \ {h}) = 0 <=> Holders \ {h} = {}
  BY <1>3, FS_CardinalityType, FS_EmptySet
<1> QED BY <1>1, <1>2, <1>3, <1>4

\* Where a handle or an owner that moves belongs afterwards.
LEMMA HandleMoves ==
    ASSUME TypeOK, NEW h \in Handles, NEW to, Goes(h, to)
    PROVE  /\ Holders' = IF to \in Held THEN Holders \cup {h} ELSE Holders \ {h}
           /\ Freeing' = IF to = "freeing" THEN Freeing \cup {h} ELSE Freeing \ {h}
           /\ Removing' = Removing
<1>1. h \notin Owners
  BY MemoryAssumption
<1>2. pc \in [Handles \cup Owners -> Places] /\ pc' = [pc EXCEPT ![h] = to]
  BY DEF TypeOK, Places, Goes
<1>3. \A t \in Handles \cup Owners : pc'[t] = IF t = h THEN to ELSE pc[t]
  BY <1>2
<1>4. Holders' = IF to \in Held THEN Holders \cup {h} ELSE Holders \ {h}
  BY <1>3 DEF Holders, Held
<1>5. Freeing' = IF to = "freeing" THEN Freeing \cup {h} ELSE Freeing \ {h}
  BY <1>3 DEF Freeing
<1>6. Removing' = Removing
  BY <1>1, <1>3 DEF Removing
<1> QED BY <1>4, <1>5, <1>6

LEMMA OwnerMoves ==
    ASSUME TypeOK, NEW o \in Owners, NEW to, Goes(o, to)
    PROVE  /\ Holders' = Holders
           /\ Freeing' = IF to = "freeing" THEN Freeing \cup {o} ELSE Freeing \ {o}
           /\ Removing' = IF to = "removed" THEN Removing \cup {o} ELSE Removing \ {o}
<1>1. o \notin Handles
  BY MemoryAssumption
<1>2. pc \in [Handles \cup Owners -> Places] /\ pc' = [pc EXCEPT ![o] = to]
  BY DEF TypeOK, Places, Goes
<1>3. \A t \in Handles \cup Owners : pc'[t] = IF t = o THEN to ELSE pc[t]
  BY <1>2
<1>4. Holders' = Holders
  BY <1>1, <1>3 DEF Holders
<1>5. Freeing' = IF to = "freeing" THEN Freeing \cup {o} ELSE Freeing \ {o}
  BY <1>3 DEF Freeing
<1>6. Removing' = IF to = "removed" THEN Removing \cup {o} ELSE Removing \ {o}
  BY <1>3 DEF Removing
<1> QED BY <1>4, <1>5, <1>6

\* A step of a handle that keeps it a holder keeps the references.
LEMMA HolderStays ==
    ASSUME TypeOK, References, NEW h \in Handles, NEW to \in Held, pc[h] \in Held, Goes(h, to),
           UNCHANGED <<resource, openCount>>
    PROVE  References'
<1>1. Holders' = Holders /\ Removing' = Removing /\ Freeing' = Freeing
  <2>1. h \in Holders /\ h \notin Freeing
    BY DEF Holders, Freeing, Held
  <2> QED BY <2>1, HandleMoves DEF Held
<1> QED BY <1>1 DEF References, resource

LEMMA ReferencesStand ==
    ASSUME References, UNCHANGED <<resource, openCount, pc>>
    PROVE  References'
  BY DEF References, resource, Holders, Freeing, Removing

LEMMA NextReferences ==
    ASSUME TypeOK, PcOK, References, [Next]_vars
    PROVE  References'
<1> USE DEF resource
<1>1. ASSUME NEW ty, Registers(ty)
      PROVE  References'
  <2>1. \A t \in Handles \cup Owners : pc[t] = "idle"
    BY <1>1 DEF Registers, Reachable
  <2>2. Holders' = {} /\ Freeing' = {} /\ Removing' = {}
    BY <1>1, <2>1 DEF Registers, Holders, Freeing, Removing
  <2> QED BY <1>1, <2>2, FS_EmptySet DEF Registers, References
<1>2. ASSUME NEW h \in Handles, HandleStep(h)
      PROVE  References'
  <2>1. CASE Open(h)
    <3>1. h \notin Holders /\ h \notin Freeing
      BY <2>1 DEF Open, Holders, Freeing
    <3>2. Holders' = Holders \cup {h} /\ Freeing' = Freeing /\ Removing' = Removing
      BY <2>1, <3>1, HandleMoves DEF Open, Held
    <3> QED BY <2>1, <3>1, <3>2, OneHolderMoves DEF Open, References
  <2>2. CASE OpenFails(h)
    <3>1. h \in Holders /\ h \notin Freeing
      BY <2>2 DEF OpenFails, Holders, Freeing
    <3>2. Holders' = Holders \ {h} /\ Freeing' = Freeing /\ Removing' = Removing
      BY <2>2, <3>1, HandleMoves DEF OpenFails, Held
    <3> QED BY <2>2, <3>1, <3>2, OneHolderMoves DEF OpenFails, References
  <2>3. CASE Close(h)
    <3>1. h \in Holders /\ h \notin Freeing /\ allocated /\ Freeing = {}
      BY <2>3 DEF Close, Holders, Freeing, References
    <3>2. PICK to \in {"idle", "freeing"} :
            Goes(h, to) /\ (to = "freeing" => unregistered /\ openCount - 1 = 0)
      BY <2>3 DEF Close
    <3>3. /\ Holders' = Holders \ {h} /\ Removing' = Removing
          /\ Freeing' = IF to = "freeing" THEN {h} ELSE {}
      BY <3>1, <3>2, HandleMoves DEF Held
    <3>4. openCount' = openCount - 1 /\ UNCHANGED <<allocated, registered, unregistered>>
      BY <2>3 DEF Close
    <3> QED BY <3>1, <3>2, <3>3, <3>4, OneHolderMoves DEF References
  <2>4. CASE \/ OpenSucceeds(h)
             \/ \E block \in Blocks : Write(h, block)
             \/ Reallocate(h) \/ ReallocateFails(h) \/ Store(h)
    <3>1. PICK to \in Held : Goes(h, to) /\ pc[h] \in Held /\ UNCHANGED <<resource, openCount>>
      BY <2>4 DEF OpenSucceeds, Write, Reallocate, ReallocateFails, Store, Held
    <3> QED BY <3>1, HolderStays
  <2>5. CASE \/ \E n \in 0..MaxRequest : Read(h, n)
             \/ \E offset \in Offsets : Seek(h, offset)
             \/ Grow(h)
    BY <2>5, ReferencesStand DEF Read, Seek, Grow
  <2> QED BY <1>2, <2>1, <2>2, <2>3, <2>4, <2>5 DEF HandleStep, Growing
<1>3. ASSUME NEW o \in Owners, Unregister(o)
      PROVE  References'
  <2>1. o \notin Freeing /\ Removing = {} /\ allocated
    BY <1>3 DEF Unregister, Freeing, References
  <2>2. Holders' = Holders /\ Freeing' = Freeing /\ Removing' = {o}
    BY <1>3, <2>1, OwnerMoves DEF Unregister
  <2> QED BY <1>3, <2>1, <2>2 DEF Unregister, References
<1>4. ASSUME NEW o \in Owners, MarkUnregistered(o)
      PROVE  References'
  <2>1. Removing = {o} /\ Freeing = {} /\ allocated /\ ~registered
    BY <1>4 DEF MarkUnregistered, Removing, References
  <2>2. PICK to \in {"idle", "freeing"} : Goes(o, to) /\ (to = "freeing" => openCount = 0)
    BY <1>4 DEF MarkUnregistered
  <2>3. /\ Holders' = Holders /\ Removing' = {}
        /\ Freeing' = IF to = "freeing" THEN {o} ELSE {}
    BY <2>1, <2>2, OwnerMoves
  <2>4. openCount = 0 => Holders = {}
    BY <2>1, HoldersAreFinite, FS_EmptySet DEF References
  <2>5. unregistered' /\ UNCHANGED <<allocated, registered, openCount>>
    BY <1>4 DEF MarkUnregistered
  <2> QED BY <2>1, <2>2, <2>3, <2>4, <2>5 DEF References
<1>5. ASSUME NEW t \in Handles \cup Owners, Free(t)
      PROVE  References'
  <2>1. Freeing = {t} /\ Holders = {} /\ Removing = {} /\ ~registered
    BY <1>5 DEF Free, Freeing, References
  <2>2. Freeing' = {} /\ Holders' = {} /\ Removing' = {}
    BY <1>5, <2>1, HandleMoves, OwnerMoves DEF Free, Held
  <2> QED BY <1>5, <2>1, <2>2 DEF Free, References
<1>6. ASSUME UNCHANGED vars
      PROVE  References'
  BY <1>6, ReferencesStand DEF vars
<1> QED BY <1>1, <1>2, <1>3, <1>4, <1>5, <1>6 DEF Next, RegisterInput, RegisterOutput

LEMMA NextPcOK ==
    ASSUME TypeOK, PcOK, [Next]_vars
    PROVE  PcOK'
<1>1. Handles \cap Owners = {} /\ pc \in [Handles \cup Owners -> Places]
  BY MemoryAssumption DEF TypeOK, Places
<1>2. ASSUME NEW h \in Handles, HandleStep(h)
      PROVE  PcOK'
  BY <1>1, <1>2 DEF HandleStep, Growing, Open, OpenSucceeds, OpenFails, Close, Read, Write, Seek,
                    Grow, Reallocate, ReallocateFails, Store, Goes, PcOK
<1>3. ASSUME NEW o \in Owners, Unregister(o) \/ MarkUnregistered(o)
      PROVE  PcOK'
  BY <1>1, <1>3 DEF Unregister, MarkUnregistered, Goes, PcOK
<1>4. ASSUME NEW t \in Handles \cup Owners, Free(t)
      PROVE  PcOK'
  BY <1>1, <1>4 DEF Free, Goes, PcOK
<1>5. ASSUME UNCHANGED pc
      PROVE  PcOK'
  BY <1>5 DEF PcOK
<1> QED BY <1>2, <1>3, <1>4, <1>5 DEF Next, RegisterInput, RegisterOutput, Registers, vars

-----------------------------------------------------------------------------
(***************************************************************************)
(* Arithmetic and blocks.                                                  *)
(***************************************************************************)
LEMMA AddFits ==
    ASSUME NEW x \in Nat, NEW n \in Int, ~AddOverflows(x, n)
    PROVE  Add(x, n) = x + n /\ x + n <= MaxInt
  BY MemoryAssumption DEF AddOverflows, Add

LEMMA AddIsExact ==
    ASSUME NEW x \in Nat, NEW n \in Nat, x + n <= MaxInt
    PROVE  Add(x, n) = x + n
  BY MemoryAssumption DEF Add

LEMMA BlockLength ==
    ASSUME NEW block \in Blocks
    PROVE  /\ Len(block) \in 0..MaxRequest
           /\ block \in [1..Len(block) -> Byte]
<1>1. PICK n \in 0..MaxRequest : block \in [1..n -> Byte]
  BY DEF Blocks
<1>2. n \in Nat
  BY <1>1, MemoryAssumption
<1>3. block \in Seq(Byte) /\ Len(block) = n
  BY <1>1, <1>2
<1> QED BY <1>1, <1>3

LEMMA DoublingFits ==
    ASSUME NEW n \in Nat, NEW max \in Nat, n <= max
    PROVE  /\ n * 2 \in Nat /\ max \div 2 \in Nat
           /\ n <= max \div 2 => n * 2 <= max
           /\ n <= n * 2
  OBVIOUS

-----------------------------------------------------------------------------
(***************************************************************************)
(* The mutex and the write that keeps it.                                  *)
(***************************************************************************)
LEMMA NextMutexOK ==
    ASSUME TypeOK, PcOK, MutexOK, [Next]_vars
    PROVE  MutexOK'
<1> USE DEF growth, MutexOK
<1>1. /\ \A h \in Handles : h # NoOne /\ h \notin Owners
      /\ pc \in [Handles \cup Owners -> Places]
  BY MemoryAssumption DEF TypeOK, Places
<1>2. ASSUME NEW h \in Handles, HandleStep(h)
      PROVE  MutexOK'
  <2>1. CASE \/ Open(h) \/ OpenSucceeds(h) \/ OpenFails(h) \/ Close(h)
             \/ \E n \in 0..MaxRequest : Read(h, n)
             \/ \E offset \in Offsets : Seek(h, offset)
    BY <1>1, <2>1 DEF Open, OpenSucceeds, OpenFails, Close, Read, Seek, Goes
  <2>2. ASSUME NEW block \in Blocks, Write(h, block)
        PROVE  MutexOK'
    BY <1>1, <2>2 DEF Write, Goes
  <2>3. CASE Grow(h) \/ Reallocate(h) \/ ReallocateFails(h) \/ Store(h)
    BY <1>1, <2>3 DEF Grow, Reallocate, ReallocateFails, Store, Unlock, Goes
  <2> QED BY <1>2, <2>1, <2>2, <2>3 DEF HandleStep, Growing
<1>3. ASSUME NEW o \in Owners, Unregister(o) \/ MarkUnregistered(o)
      PROVE  MutexOK'
  BY <1>1, <1>3 DEF Unregister, MarkUnregistered, Goes
<1>4. ASSUME NEW t \in Handles \cup Owners, Free(t)
      PROVE  MutexOK'
  BY <1>1, <1>4 DEF Free, Goes
<1>5. ASSUME UNCHANGED <<pc, mutex>>
      PROVE  MutexOK'
  BY <1>5
<1> QED BY <1>2, <1>3, <1>4, <1>5 DEF Next, RegisterInput, RegisterOutput, Registers, vars

\* The writer and the buffer it writes to, after a step that concerns neither.
LEMMA WriteStands ==
    ASSUME WriteOK, InBounds, UNCHANGED <<allocated, type, buffer, growth, position>>,
           \A h \in Handles : pc'[h] \in {"growing", "storing"} => pc'[h] = pc[h]
    PROVE  WriteOK' /\ InBounds'
  BY DEF WriteOK, InBounds, buffer, growth

\* No write is on while the buffer comes or goes.
LEMMA NoWriteNow ==
    ASSUME NEW cap \in 0..MaxInt, NEW max \in 0..MaxInt, cap <= max,
           capacity' = cap, maxCapacity' = max, size' \in 0..cap,
           \A h \in Handles : pc'[h] \notin {"growing", "storing"},
           allocated' /\ type' = "OUTPUT" => cap > 0
    PROVE  WriteOK' /\ InBounds'
  BY MemoryAssumption DEF WriteOK, InBounds

LEMMA NextWriteOK ==
    ASSUME TypeOK, PcOK, References, MutexOK, WriteOK, InBounds, [Next]_vars
    PROVE  WriteOK' /\ InBounds'
<1> USE DEF resource
<1>0. /\ \A h \in Handles : h # NoOne /\ h \notin Owners
      /\ pc \in [Handles \cup Owners -> Places]
      /\ position \in [Handles -> Nat] /\ request \in Blocks /\ Len(request) \in Nat
      /\ size \in Nat /\ capacity \in Nat /\ maxCapacity \in Nat /\ newCapacity \in Nat
      /\ MaxInt \in Nat /\ MaxRequest \in 0..MaxInt
  BY MemoryAssumption, BlockLength DEF TypeOK, Places
<1>1. ASSUME NEW block \in Blocks, RegisterInput(block)
      PROVE  WriteOK' /\ InBounds'
  <2>1. \A h \in Handles : pc'[h] = "idle"
    BY <1>1 DEF RegisterInput, Registers, Reachable
  <2>2. Len(block) \in 0..MaxInt
    BY <1>0, BlockLength
  <2>3. /\ capacity' = Len(block) /\ maxCapacity' = Len(block) /\ size' = Len(block)
        /\ type' = "INPUT"
    BY <1>1 DEF RegisterInput, Registers
  <2> QED BY <2>1, <2>2, <2>3, NoWriteNow
<1>2. ASSUME NEW initial \in Arguments, NEW maximum \in Arguments,
             RegisterOutput(initial, maximum)
      PROVE  WriteOK' /\ InBounds'
  <2>1. \A h \in Handles : pc'[h] = "idle"
    BY <1>2 DEF RegisterOutput, Registers, Reachable
  <2>2. /\ capacity' \in 0..MaxInt /\ maxCapacity' \in 0..MaxInt
        /\ capacity' <= maxCapacity' /\ capacity' > 0 /\ size' = 0
    BY <1>2, MemoryAssumption DEF RegisterOutput
  <2>3. size' \in 0..capacity'
    BY <2>2
  <2> QED BY <2>1, <2>2, <2>3, NoWriteNow
<1>3. ASSUME NEW h \in Handles, HandleStep(h)
      PROVE  WriteOK' /\ InBounds'
  <2>0. \A g \in Handles \ {h} : mutex \in {h, NoOne} => pc[g] \notin {"growing", "storing"}
    BY <1>0 DEF MutexOK
  <2>1. CASE Open(h) \/ OpenSucceeds(h) \/ OpenFails(h)
    <3>1. \A g \in Handles : pc'[g] \in {"growing", "storing"} => pc'[g] = pc[g]
      BY <1>0, <2>1 DEF Open, OpenSucceeds, OpenFails, Goes
    <3>2. UNCHANGED <<allocated, type, buffer, growth, position>>
      BY <2>1 DEF Open, OpenSucceeds, OpenFails
    <3> QED BY <3>1, <3>2, WriteStands
  <2>2. CASE Close(h) \/ (\E n \in 0..MaxRequest : Read(h, n))
                      \/ (\E offset \in Offsets : Seek(h, offset))
    <3>1. mutex = NoOne /\ UNCHANGED <<allocated, type, buffer, growth>>
      BY <2>2 DEF Close, Read, Seek
    <3>2. \A g \in Handles : pc'[g] \notin {"growing", "storing"}
      <4>1. \A g \in Handles : pc[g] \notin {"growing", "storing"}
        BY <1>0, <3>1 DEF MutexOK
      <4> QED BY <1>0, <2>2, <4>1 DEF Close, Read, Seek, Goes
    <3> QED BY <3>1, <3>2 DEF WriteOK, InBounds, buffer, growth
  <2>3. ASSUME NEW block \in Blocks, Write(h, block)
        PROVE  WriteOK' /\ InBounds'
    <3>1. /\ mutex = NoOne /\ type = "OUTPUT" /\ request' = block
          /\ UNCHANGED <<allocated, type, buffer, position>>
      BY <2>3 DEF Write
    <3>2. \A g \in Handles : pc'[g] \in {"growing", "storing"} => g = h
      BY <1>0, <2>0, <2>3, <3>1 DEF Write, Goes
    <3>3. Len(block) \in Nat /\ position[h] \in Nat
      BY <1>0, BlockLength
    <3>4. /\ Add(position[h], Len(block)) = position[h] + Len(block)
          /\ position[h] + Len(block) <= MaxInt
      BY <2>3, <3>3, AddFits DEF Write
    <3>5. allocated
      <4>1. h \in Holders
        BY <2>3 DEF Write, Holders
      <4> QED BY <4>1 DEF References
    <3>6. newCapacity' = capacity /\ capacity > 0
      BY <1>0, <2>3, <3>1, <3>5 DEF Write, WriteOK
    <3>7. /\ pc'[h] = "storing" => position[h] + Len(block) <= capacity
          /\ pc'[h] = "growing" => position[h] + Len(block) <= maxCapacity
      BY <1>0, <2>3, <3>4 DEF Write, Fits, Goes
    <3> QED BY <1>0, <3>1, <3>2, <3>3, <3>4, <3>6, <3>7 DEF WriteOK, InBounds, buffer
  <2>4. CASE Growing(h)
    <3>1. /\ pc[h] \in {"growing", "storing"} /\ mutex = h
          /\ UNCHANGED <<allocated, type, maxCapacity>>
      BY <2>4 DEF Growing, Grow, Reallocate, ReallocateFails, Store, MutexOK, buffer
    <3>2. \A g \in Handles \ {h} : pc'[g] \notin {"growing", "storing"}
      BY <1>0, <2>0, <2>4, <3>1 DEF Growing, Grow, Reallocate, ReallocateFails, Store, Goes
    <3>3. /\ position[h] + Len(request) <= MaxInt
          /\ Required(h) = position[h] + Len(request)
      BY <1>0, <3>1, AddIsExact DEF WriteOK, Required
    <3>4. CASE Grow(h)
      <4>1. UNCHANGED <<pc, position, request, buffer>>
        BY <3>4 DEF Grow
      <4>2. newCapacity <= maxCapacity /\ capacity <= newCapacity
        BY <3>4 DEF Grow, InBounds, WriteOK
      <4>3. newCapacity' <= maxCapacity /\ capacity <= newCapacity'
        BY <1>0, <3>4, <4>2, DoublingFits DEF Grow, NextCapacity
      <4> QED BY <3>1, <4>1, <4>3 DEF WriteOK, InBounds, buffer
    <3>5. CASE Reallocate(h)
      <4>1. /\ UNCHANGED <<position, request, size, newCapacity>> /\ capacity' = newCapacity
            /\ pc'[h] = "storing"
        BY <1>0, <3>5 DEF Reallocate, growth, Goes
      <4>2. /\ position[h] + Len(request) <= newCapacity /\ capacity <= newCapacity
            /\ newCapacity <= maxCapacity
        BY <3>3, <3>5 DEF Reallocate, InBounds, WriteOK
      <4> QED BY <1>0, <3>1, <3>2, <3>3, <4>1, <4>2 DEF WriteOK, InBounds
    <3>6. CASE ReallocateFails(h)
      <4>1. UNCHANGED buffer /\ pc'[h] = "open"
        BY <1>0, <3>6 DEF ReallocateFails, Goes
      <4> QED BY <3>1, <3>2, <4>1 DEF WriteOK, InBounds, buffer
    <3>7. CASE Store(h)
      <4>1. UNCHANGED capacity /\ pc'[h] = "open"
        BY <1>0, <3>7 DEF Store, Goes
      <4>2. size' <= capacity
        BY <1>0, <3>3, <3>7 DEF Store, SizeAfter, InBounds
      <4> QED BY <3>1, <3>2, <4>1, <4>2 DEF WriteOK, InBounds
    <3> QED BY <2>4, <3>4, <3>5, <3>6, <3>7 DEF Growing
  <2> QED BY <1>3, <2>1, <2>2, <2>3, <2>4 DEF HandleStep
<1>4. ASSUME NEW o \in Owners, Unregister(o) \/ MarkUnregistered(o)
      PROVE  WriteOK' /\ InBounds'
  <2>1. UNCHANGED <<allocated, type, buffer, growth, position>>
    BY <1>4 DEF Unregister, MarkUnregistered
  <2>2. \A g \in Handles : pc'[g] = pc[g]
    BY <1>0, <1>4 DEF Unregister, MarkUnregistered, Goes
  <2> QED BY <2>1, <2>2, WriteStands
<1>5. ASSUME NEW t \in Handles \cup Owners, Free(t)
      PROVE  WriteOK' /\ InBounds'
  <2>1. Holders = {}
    BY <1>5 DEF Free, Freeing, References
  <2>2. \A h \in Handles : pc'[h] \notin {"growing", "storing"}
    BY <1>0, <1>5, <2>1 DEF Free, Goes, Holders
  <2>3. capacity' = 0 /\ maxCapacity' = 0 /\ size' = 0 /\ ~allocated'
    BY <1>5 DEF Free
  <2> QED BY <1>0, <2>2, <2>3, NoWriteNow
<1>6. ASSUME UNCHANGED vars
      PROVE  WriteOK' /\ InBounds'
  BY <1>6, WriteStands DEF vars
<1> QED BY <1>1, <1>2, <1>3, <1>4, <1>5, <1>6 DEF Next

-----------------------------------------------------------------------------
(***************************************************************************)
(* Types, and what can be read.                                            *)
(***************************************************************************)
FlagTypes ==
    /\ allocated \in BOOLEAN /\ registered \in BOOLEAN /\ unregistered \in BOOLEAN
    /\ type \in {"INPUT", "OUTPUT"} /\ openCount \in Nat
    /\ mutex \in Handles \cup {NoOne} /\ request \in Blocks
    /\ pc \in [Handles \cup Owners -> Places]

SizeTypes ==
    /\ capacity \in 0..MaxInt /\ maxCapacity \in 0..MaxInt /\ newCapacity \in 0..MaxInt
    /\ size \in 0..MaxInt /\ position \in [Handles -> 0..MaxInt]

DataTypes ==
    /\ data \in [0..capacity - 1 -> Byte \cup {Junk}]
    /\ got \in [Handles -> Seq(Byte \cup {Junk})]

LEMMA TypeParts == TypeOK <=> FlagTypes /\ SizeTypes /\ DataTypes
  BY DEF TypeOK, FlagTypes, SizeTypes, DataTypes, Places

LEMMA NextFlagTypes ==
    ASSUME TypeOK, References, [Next]_vars
    PROVE  FlagTypes'
<1> USE DEF FlagTypes, resource, growth
<1>0. FlagTypes
  BY TypeParts
<1>1. <<>> \in Blocks
  <2>1. <<>> \in [1..0 -> Byte]
    OBVIOUS
  <2> QED BY <2>1, MemoryAssumption DEF Blocks
<1>2. ASSUME NEW ty \in {"INPUT", "OUTPUT"}, Registers(ty)
      PROVE  FlagTypes'
  BY <1>0, <1>2 DEF Registers
<1>3. ASSUME NEW h \in Handles, HandleStep(h)
      PROVE  FlagTypes'
  <2>1. CASE Open(h) \/ OpenSucceeds(h)
    BY <1>0, <2>1 DEF Open, OpenSucceeds, Goes, Places
  <2>2. CASE OpenFails(h) \/ Close(h)
    <3>1. h \in Holders /\ allocated
      BY <2>2 DEF OpenFails, Close, Holders, References
    <3>2. openCount - 1 \in Nat
      BY <3>1, OneHolderMoves DEF References
    <3> QED BY <1>0, <2>2, <3>2 DEF OpenFails, Close, Goes, Places
  <2>3. CASE \/ \E n \in 0..MaxRequest : Read(h, n)
             \/ \E block \in Blocks : Write(h, block)
             \/ \E offset \in Offsets : Seek(h, offset)
    BY <1>0, <2>3 DEF Read, Write, Seek, Goes, Places
  <2>4. CASE Growing(h)
    BY <1>0, <1>1, <2>4 DEF Growing, Grow, Reallocate, ReallocateFails, Store, Unlock, Goes, Places
  <2> QED BY <1>3, <2>1, <2>2, <2>3, <2>4 DEF HandleStep
<1>4. ASSUME NEW o \in Owners, Unregister(o) \/ MarkUnregistered(o)
      PROVE  FlagTypes'
  BY <1>0, <1>4 DEF Unregister, MarkUnregistered, Goes, Places
<1>5. ASSUME NEW t \in Handles \cup Owners, Free(t)
      PROVE  FlagTypes'
  BY <1>0, <1>5 DEF Free, Goes, Places
<1>6. ASSUME UNCHANGED vars
      PROVE  FlagTypes'
  BY <1>0, <1>6 DEF vars
<1> QED BY <1>2, <1>3, <1>4, <1>5, <1>6 DEF Next, RegisterInput, RegisterOutput

\* How far a read goes.
LEMMA ReadFits ==
    ASSUME TypeOK, NEW h \in Handles, NEW n \in 0..MaxRequest
    PROVE  /\ ReadLength(h, n) \in Nat
           /\ position[h] + ReadLength(h, n) <= MaxInt
           /\ \A i \in 1..ReadLength(h, n) : position[h] + i - 1 \in 0..size - 1
<1>1. position[h] \in 0..MaxInt /\ size \in 0..MaxInt /\ n \in Nat /\ MaxInt \in Nat
  BY MemoryAssumption DEF TypeOK
<1> QED BY <1>1 DEF ReadLength

LEMMA NextSizeTypes ==
    ASSUME TypeOK, MutexOK, WriteOK, InBounds, [Next]_vars
    PROVE  SizeTypes'
<1> USE DEF SizeTypes, buffer, growth
<1>0. SizeTypes /\ MaxInt \in Nat /\ MaxRequest \in 0..MaxInt /\ DefaultCapacity \in 1..MaxInt
  BY TypeParts, MemoryAssumption
<1>1. ASSUME NEW block \in Blocks, RegisterInput(block)
      PROVE  SizeTypes'
  BY <1>0, <1>1, BlockLength DEF RegisterInput, Registers
<1>2. ASSUME NEW initial \in Arguments, NEW maximum \in Arguments,
             RegisterOutput(initial, maximum)
      PROVE  SizeTypes'
  BY <1>0, <1>2, MemoryAssumption DEF RegisterOutput, Registers
<1>3. ASSUME NEW h \in Handles, HandleStep(h)
      PROVE  SizeTypes'
  <2>1. CASE Open(h) \/ OpenSucceeds(h) \/ OpenFails(h) \/ Close(h)
    BY <1>0, <2>1 DEF Open, OpenSucceeds, OpenFails, Close
  <2>2. ASSUME NEW n \in 0..MaxRequest, Read(h, n)
        PROVE  SizeTypes'
    <3>1. position[h] + ReadLength(h, n) \in 0..MaxInt
      BY <1>0, ReadFits
    <3> QED BY <1>0, <2>2, <3>1 DEF Read
  <2>3. ASSUME NEW block \in Blocks, Write(h, block)
        PROVE  SizeTypes'
    BY <1>0, <2>3 DEF Write
  <2>4. ASSUME NEW offset \in Offsets, Seek(h, offset)
        PROVE  SizeTypes'
    <3>1. PICK from \in {0, position[h], size} :
            Seekable(from, offset) /\ position' = [position EXCEPT ![h] = Add(from, offset)]
      BY <2>4 DEF Seek
    <3>2. from \in Nat /\ offset \in Int
      BY <1>0, MemoryAssumption
    <3>3. Add(from, offset) \in 0..MaxInt
      BY <1>0, <3>1, <3>2, AddFits DEF Seekable
    <3> QED BY <1>0, <2>4, <3>1, <3>3 DEF Seek
  <2>5. CASE Growing(h)
    <3>1. request \in Blocks /\ Len(request) \in Nat /\ pc[h] \in {"growing", "storing"}
      BY <1>0, <2>5, BlockLength DEF TypeOK, Growing, Grow, Reallocate, ReallocateFails, Store
    <3>2. Required(h) \in 0..MaxInt
      BY <1>0, <3>1, AddIsExact DEF Required, WriteOK
    <3>3. CASE Grow(h)
      <4>1. newCapacity <= maxCapacity
        BY <3>3 DEF Grow, InBounds
      <4> QED BY <1>0, <3>3, <4>1, DoublingFits DEF Grow, NextCapacity
    <3>4. CASE Reallocate(h) \/ ReallocateFails(h)
      BY <1>0, <3>4 DEF Reallocate, ReallocateFails, Unlock
    <3>5. CASE Store(h)
      BY <1>0, <3>2, <3>5 DEF Store, SizeAfter, Unlock
    <3> QED BY <2>5, <3>3, <3>4, <3>5 DEF Growing
  <2> QED BY <1>3, <2>1, <2>2, <2>3, <2>4, <2>5 DEF HandleStep
<1>4. ASSUME NEW o \in Owners, Unregister(o) \/ MarkUnregistered(o)
      PROVE  SizeTypes'
  BY <1>0, <1>4 DEF Unregister, MarkUnregistered
<1>5. ASSUME NEW t \in Handles \cup Owners, Free(t)
      PROVE  SizeTypes'
  BY <1>0, <1>5 DEF Free
<1>6. ASSUME UNCHANGED vars
      PROVE  SizeTypes'
  BY <1>0, <1>6 DEF vars
<1> QED BY <1>1, <1>2, <1>3, <1>4, <1>5, <1>6 DEF Next

\* A byte that is stored comes from the request, a gap or the file.
LEMMA StoredByte ==
    ASSUME TypeOK, WriteOK, InBounds, NoJunk, NEW h \in Handles, pc[h] = "storing"
    PROVE  /\ Required(h) = position[h] + Len(request) /\ Required(h) <= capacity
           /\ \A i \in 0..capacity - 1 : Stored(h, i) \in Byte \cup {Junk}
           /\ \A i \in 0..SizeAfter(h) - 1 : i \in 0..capacity - 1 /\ Stored(h, i) \in Byte
<1>1. /\ position[h] \in Nat /\ size \in Nat /\ capacity \in Nat
      /\ request \in Blocks /\ Len(request) \in Nat /\ size <= capacity
      /\ data \in [0..capacity - 1 -> Byte \cup {Junk}] /\ Zero \in Byte
  BY MemoryAssumption, BlockLength DEF TypeOK, InBounds
<1>2. Required(h) = position[h] + Len(request) /\ Required(h) <= capacity
  BY <1>1, AddIsExact DEF Required, WriteOK, InBounds
<1>3. ASSUME NEW i \in Int, position[h] <= i, i < Required(h)
      PROVE  request[i - position[h] + 1] \in Byte
  <2>1. i - position[h] + 1 \in 1..Len(request)
    BY <1>1, <1>2, <1>3
  <2>2. request \in [1..Len(request) -> Byte]
    BY <1>1, BlockLength
  <2> QED BY <2>1, <2>2
<1>4. \A i \in 0..capacity - 1 : Stored(h, i) \in Byte \cup {Junk}
  BY <1>1, <1>3 DEF Stored
<1>5. ASSUME NEW i \in 0..SizeAfter(h) - 1
      PROVE  i \in 0..capacity - 1 /\ Stored(h, i) \in Byte
  <2>1. i \in 0..capacity - 1 /\ (i < size \/ i < Required(h))
    BY <1>1, <1>2 DEF SizeAfter
  <2>2. i < size => data[i] \in Byte
    BY <1>1 DEF NoJunk
  <2> QED BY <1>1, <1>3, <2>1, <2>2 DEF Stored
<1> QED BY <1>2, <1>4, <1>5

\* What a read returns is a sequence of the bytes of the file.
LEMMA ReadBytes ==
    ASSUME TypeOK, NoJunk, NEW h \in Handles, NEW n \in 0..MaxRequest
    PROVE  [i \in 1..ReadLength(h, n) |-> data[position[h] + i - 1]] \in Seq(Byte)
<1>1. \A i \in 1..ReadLength(h, n) : data[position[h] + i - 1] \in Byte
  BY ReadFits DEF NoJunk
<1>2. ReadLength(h, n) \in Nat
  BY ReadFits
<1> QED BY <1>1, <1>2

LEMMA NextData ==
    ASSUME TypeOK, WriteOK, InBounds, NoJunk, [Next]_vars
    PROVE  DataTypes' /\ NoJunk'
<1> USE DEF buffer, growth
<1>0. DataTypes /\ NoJunk /\ size \in Nat /\ capacity \in Nat /\ newCapacity \in Nat
  BY MemoryAssumption, TypeParts DEF SizeTypes
<1>1. ASSUME NEW block \in Blocks, RegisterInput(block)
      PROVE  DataTypes' /\ NoJunk'
  <2>1. /\ data' = [i \in 0..Len(block) - 1 |-> block[i + 1]]
        /\ size' = Len(block) /\ capacity' = Len(block) /\ UNCHANGED got
    BY <1>1 DEF RegisterInput, Registers
  <2>2. \A i \in 0..Len(block) - 1 : block[i + 1] \in Byte
    BY BlockLength, MemoryAssumption
  <2> QED BY <1>0, <2>1, <2>2 DEF DataTypes, NoJunk
<1>2. ASSUME NEW initial \in Arguments, NEW maximum \in Arguments,
             RegisterOutput(initial, maximum)
      PROVE  DataTypes' /\ NoJunk'
  <2>1. data' = [i \in 0..capacity' - 1 |-> Junk] /\ size' = 0 /\ UNCHANGED got
    BY <1>2 DEF RegisterOutput, Registers
  <2> QED BY <1>0, <2>1 DEF DataTypes, NoJunk
<1>3. ASSUME NEW h \in Handles, HandleStep(h)
      PROVE  DataTypes' /\ NoJunk'
  <2>1. CASE \/ Open(h) \/ OpenSucceeds(h) \/ OpenFails(h)
             \/ \E block \in Blocks : Write(h, block)
             \/ \E offset \in Offsets : Seek(h, offset)
             \/ Grow(h) \/ ReallocateFails(h)
    <3>1. UNCHANGED <<data, size, capacity, got>>
      BY <2>1 DEF Open, OpenSucceeds, OpenFails, Write, Seek, Grow, ReallocateFails
    <3> QED BY <1>0, <3>1 DEF DataTypes, NoJunk
  <2>2. CASE Close(h)
    <3>1. UNCHANGED <<data, size, capacity>> /\ got' = [got EXCEPT ![h] = <<>>]
      BY <2>2 DEF Close
    <3>2. <<>> \in Seq(Byte) /\ <<>> \in Seq(Byte \cup {Junk})
      OBVIOUS
    <3> QED BY <1>0, <3>1, <3>2 DEF DataTypes, NoJunk
  <2>3. ASSUME NEW n \in 0..MaxRequest, Read(h, n)
        PROVE  DataTypes' /\ NoJunk'
    <3> DEFINE bytes == [i \in 1..ReadLength(h, n) |-> data[position[h] + i - 1]]
    <3>1. UNCHANGED <<data, size, capacity>> /\ got' = [got EXCEPT ![h] = bytes]
      BY <2>3 DEF Read
    <3>2. bytes \in Seq(Byte)
      BY ReadBytes
    <3> HIDE DEF bytes
    <3>3. bytes \in Seq(Byte \cup {Junk})
      BY <3>2
    <3> QED BY <1>0, <3>1, <3>2, <3>3 DEF DataTypes, NoJunk
  <2>4. CASE Reallocate(h)
    <3>1. /\ data' = [i \in 0..newCapacity - 1 |-> IF i < capacity THEN data[i] ELSE Junk]
          /\ capacity' = newCapacity /\ UNCHANGED <<size, got>>
          /\ size <= capacity /\ capacity <= newCapacity
      BY <2>4 DEF Reallocate, InBounds, WriteOK
    <3> QED BY <1>0, <3>1 DEF DataTypes, NoJunk
  <2>5. CASE Store(h)
    <3>1. /\ data' = [i \in 0..capacity - 1 |-> Stored(h, i)]
          /\ size' = SizeAfter(h) /\ UNCHANGED <<capacity, got>> /\ pc[h] = "storing"
      BY <1>0, <2>5 DEF Store, DataTypes
    <3>2. /\ \A i \in 0..capacity - 1 : Stored(h, i) \in Byte \cup {Junk}
          /\ \A i \in 0..SizeAfter(h) - 1 : i \in 0..capacity - 1 /\ Stored(h, i) \in Byte
      BY <3>1, StoredByte
    <3> QED BY <1>0, <3>1, <3>2 DEF DataTypes, NoJunk
  <2> QED BY <1>3, <2>1, <2>2, <2>3, <2>4, <2>5 DEF HandleStep, Growing
<1>4. ASSUME NEW t \in Handles \cup Owners, Free(t)
      PROVE  DataTypes' /\ NoJunk'
  <2>1. data' = <<>> /\ size' = 0 /\ capacity' = 0 /\ UNCHANGED got
    BY <1>4 DEF Free
  <2>2. <<>> \in [0..0 - 1 -> Byte \cup {Junk}]
    OBVIOUS
  <2> QED BY <1>0, <2>1, <2>2 DEF DataTypes, NoJunk
<1>5. ASSUME UNCHANGED <<data, size, capacity, got>>
      PROVE  DataTypes' /\ NoJunk'
  BY <1>0, <1>5 DEF DataTypes, NoJunk
<1> QED BY <1>1, <1>2, <1>3, <1>4, <1>5 DEF Next, Unregister, MarkUnregistered, vars

LEMMA InitIInv == Init => IInv
<1> SUFFICES ASSUME Init PROVE IInv
  OBVIOUS
<1> USE MemoryAssumption DEF Init
<1>1. Holders = {} /\ Freeing = {} /\ Removing = {}
  BY DEF Holders, Freeing, Removing
<1>2. <<>> \in [0..0 - 1 -> Byte \cup {Junk}] /\ <<>> \in [1..0 -> Byte]
  OBVIOUS
<1>3. <<>> \in Blocks /\ Len(<<>>) = 0 /\ <<>> \in Seq(Byte) /\ <<>> \in Seq(Byte \cup {Junk})
  <2>1. 0 \in 0..MaxRequest
    BY DEF MemoryAssumption
  <2>2. <<>> \in Blocks
    BY <1>2, <2>1 DEF Blocks
  <2> QED BY <2>2
<1>4. TypeOK
  <2>1. FlagTypes
    BY <1>3 DEF FlagTypes, Places
  <2>2. 0 \in 0..MaxInt
    BY DEF MemoryAssumption
  <2>3. SizeTypes
    BY <2>2 DEF SizeTypes
  <2>4. DataTypes
    BY <1>2, <1>3 DEF DataTypes
  <2> QED BY <2>1, <2>3, <2>4, TypeParts
<1>5. PcOK /\ MutexOK /\ WriteOK
  BY DEF PcOK, MutexOK, WriteOK
<1>6. InBounds /\ NoJunk
  BY <1>3 DEF InBounds, NoJunk
<1>7. References
  BY <1>1 DEF References
<1> QED BY <1>4, <1>5, <1>6, <1>7 DEF IInv

LEMMA Inductive == Spec => []IInv
<1>1. IInv /\ [Next]_vars => IInv'
  <2> SUFFICES ASSUME IInv, [Next]_vars PROVE IInv'
    OBVIOUS
  <2>1. FlagTypes' /\ SizeTypes' /\ DataTypes' /\ NoJunk'
    BY NextFlagTypes, NextSizeTypes, NextData DEF IInv
  <2>2. TypeOK'
    BY <2>1 DEF TypeOK, FlagTypes, SizeTypes, DataTypes, Places
  <2> QED BY <2>1, <2>2, NextPcOK, NextReferences, NextMutexOK, NextWriteOK DEF IInv
<1> QED BY <1>1, InitIInv, PTL DEF Spec

-----------------------------------------------------------------------------
(***************************************************************************)
(* The results.                                                            *)
(***************************************************************************)
\* Every variable of ffkit_memory has its type: openCount never falls below
\* zero, and no position, capacity or size overflows an int64_t.
THEOREM TypeCorrect == Spec => []TypeOK
<1>1. IInv => TypeOK
  BY DEF IInv
<1> QED BY <1>1, Inductive, PTL

\* ffkit_memory_write and ffkit_memory_ensure_capacity never copy past the
\* memory and never grow it past its maximum.
THEOREM AlwaysInBounds == Spec => []InBounds
<1>1. IInv => InBounds
  BY DEF IInv
<1> QED BY <1>1, Inductive, PTL

\* Neither ffkit_memory_read nor getFFmpegKitOutputBuffer returns bytes that
\* malloc or av_realloc left in the memory.
THEOREM NeverShowsJunk == Spec => []NoJunk
<1>1. IInv => NoJunk
  BY DEF IInv
<1> QED BY <1>1, Inductive, PTL

\* ffkit_memory_free runs in one thread, when no handle counts in openCount and
\* the buffer is off the list; a buffer somebody can still reach is allocated.
THEOREM NeverUsedAfterFree == Spec => []NoUseAfterFree
<1>1. IInv => NoUseAfterFree
  <2> SUFFICES ASSUME IInv PROVE NoUseAfterFree
    OBVIOUS
  <2>1. References
    BY DEF IInv
  <2>2. Removing # {} <=> \E o \in Owners : pc[o] = "removed"
    BY DEF Removing
  <2> QED BY <2>1, <2>2 DEF References, NoUseAfterFree
<1> QED BY <1>1, Inductive, PTL

-----------------------------------------------------------------------------
(***************************************************************************)
(* The buffer is a file.                                                   *)
(***************************************************************************)
Content == [i \in 0..size - 1 |-> data[i]]

\* Who has the file open after a handle or an owner moved.
LEMMA UsersAfter ==
    ASSUME TypeOK, NEW t \in Handles \cup Owners, NEW to, Goes(t, to)
    PROVE  Users' = IF t \in Handles /\ to \in {"open", "growing", "storing"}
                    THEN Users \cup {t} ELSE Users \ {t}
<1>1. pc \in [Handles \cup Owners -> Places] /\ pc' = [pc EXCEPT ![t] = to]
  BY DEF TypeOK, Places, Goes
<1>2. \A u \in Handles \cup Owners : pc'[u] = IF u = t THEN to ELSE pc[u]
  BY <1>1
<1> QED BY <1>2 DEF Users

\* A step that FFmpeg does not see.
LEMMA FileStands ==
    ASSUME UNCHANGED <<data, size, position, got>>, Users' = Users
    PROVE  UNCHANGED File!vars
  BY DEF File!vars

\* Nobody has the file open, and it becomes another one.
LEMMA Replaces ==
    ASSUME TypeOK', NoJunk', Users = {}, Users' = {}, UNCHANGED <<position, got>>
    PROVE  File!Replace
<1>1. size' \in Nat
  BY MemoryAssumption DEF TypeOK
<1>2. Content' \in [0..size' - 1 -> Byte]
  BY DEF Content, NoJunk
<1> QED BY <1>1, <1>2 DEF File!Replace, Content

LEMMA ReadIsFileRead ==
    ASSUME IInv, NEW h \in Handles, NEW n \in 0..MaxRequest, Read(h, n)
    PROVE  File!Read(h, n)
<1> DEFINE end == IF position[h] + n < size THEN position[h] + n
                  ELSE File!Longer(position[h], size)
<1>1. /\ position \in [Handles -> 0..MaxInt] /\ position[h] \in Nat /\ size \in Nat /\ n \in Nat
      /\ TypeOK
  BY MemoryAssumption DEF IInv, TypeOK
<1>2. end = position[h] + ReadLength(h, n)
  BY <1>1 DEF ReadLength, File!Longer
<1>3. end - position[h] = ReadLength(h, n)
  BY <1>1, <1>2, ReadFits
<1>4. \A i \in 1..ReadLength(h, n) : Content[position[h] + i - 1] = data[position[h] + i - 1]
  BY <1>1, ReadFits DEF Content
<1>5. [i \in 1..end - position[h] |-> Content[position[h] + i - 1]] =
        [i \in 1..ReadLength(h, n) |-> data[position[h] + i - 1]]
  BY <1>3, <1>4
<1>6. /\ got' = [got EXCEPT ![h] = [i \in 1..end - position[h] |-> Content[position[h] + i - 1]]]
      /\ position' = [position EXCEPT ![h] = end]
  BY <1>1, <1>2, <1>5 DEF Read
<1>7. h \in Users /\ Users' = Users /\ UNCHANGED <<size, data>>
  BY DEF Read, Users, buffer
<1> HIDE DEF end
<1>8. UNCHANGED <<Users, size, Content>>
  BY <1>7 DEF Content
<1> QED BY <1>6, <1>7, <1>8 DEF File!Read, Content, end

LEMMA StoreIsFileWrite ==
    ASSUME IInv, NEW h \in Handles, Store(h)
    PROVE  File!Write(h, request)
<1> DEFINE end == position[h] + Len(request)
<1>1. /\ position[h] \in Nat /\ size \in Nat /\ capacity \in Nat
      /\ Len(request) \in Nat /\ end \in Nat /\ TypeOK
      /\ data \in [0..capacity - 1 -> Byte \cup {Junk}]
  BY MemoryAssumption, BlockLength DEF IInv, TypeOK
<1>2. /\ Required(h) = end /\ Required(h) <= capacity /\ size <= capacity
      /\ \A i \in 0..SizeAfter(h) - 1 : i \in 0..capacity - 1
  BY StoredByte DEF IInv, Store, InBounds
<1>3. size' = File!Longer(size, end)
  BY <1>1, <1>2 DEF Store, SizeAfter, File!Longer
<1>4. Content' = [i \in 0..File!Longer(size, end) - 1 |->
                    IF i \in position[h]..end - 1 THEN request[i - position[h] + 1]
                    ELSE IF i < size THEN Content[i] ELSE Zero]
  <2>1. Content' = [i \in 0..size' - 1 |-> data'[i]]
    BY DEF Content
  <2>2. ASSUME NEW i \in 0..size' - 1
        PROVE  data'[i] = IF i \in position[h]..end - 1 THEN request[i - position[h] + 1]
                          ELSE IF i < size THEN Content[i] ELSE Zero
    <3>1. i \in 0..capacity - 1 /\ size' = SizeAfter(h)
      BY <1>2 DEF Store
    <3>2. data'[i] = Stored(h, i)
      BY <1>1, <3>1 DEF Store
    <3>3. i < size => Content[i] = data[i]
      BY <1>1, <3>1 DEF Content
    <3>4. i < size \/ i < end
      BY <1>1, <1>2, <3>1 DEF SizeAfter
    <3> QED BY <1>1, <1>2, <3>1, <3>2, <3>3, <3>4 DEF Stored
  <2> QED BY <1>3, <2>1, <2>2
<1>5. position' = [position EXCEPT ![h] = end] /\ UNCHANGED got
  BY <1>2 DEF Store
<1>6. h \in Users /\ Users' = Users
  <2>1. h \in Users
    BY DEF Store, Users
  <2> QED BY <1>1, <2>1, UsersAfter DEF Store
<1> HIDE DEF end
<1> QED BY <1>3, <1>4, <1>5, <1>6 DEF File!Write, Content, end

LEMMA StepIsAFileStep ==
    ASSUME IInv, IInv', [Next]_vars
    PROVE  [File!Next]_(File!vars)
<1> USE DEF resource, buffer, growth
<1>0. TypeOK /\ TypeOK' /\ NoJunk' /\ References /\ PcOK /\ Handles \cap Owners = {}
  BY MemoryAssumption DEF IInv
<1>1. ASSUME NEW ty, Registers(ty)
      PROVE  File!Replace
  <2>1. Users = {} /\ Users' = {} /\ UNCHANGED <<position, got>>
    BY <1>1 DEF Registers, Reachable, Users
  <2> QED BY <1>0, <2>1, Replaces
<1>2. ASSUME NEW h \in Handles, HandleStep(h)
      PROVE  \/ File!Open(h) \/ File!Close(h) \/ File!Seek(h)
             \/ \E n \in 0..MaxInt : File!Read(h, n)
             \/ \E block \in Blocks : File!Write(h, block)
             \/ UNCHANGED File!vars
  <2>1. CASE Open(h) \/ OpenFails(h)
    <3>1. h \notin Users
      BY <2>1 DEF Open, OpenFails, Users
    <3>2. Users' = Users
      BY <1>0, <2>1, <3>1, UsersAfter DEF Open, OpenFails
    <3> QED BY <2>1, <3>2, FileStands DEF Open, OpenFails
  <2>2. CASE OpenSucceeds(h)
    <3>1. h \notin Users /\ Users' = Users \cup {h}
      BY <1>0, <2>2, UsersAfter DEF OpenSucceeds, Users
    <3>2. UNCHANGED <<size, data, position, got>>
      BY <2>2 DEF OpenSucceeds
    <3> QED BY <3>1, <3>2 DEF File!Open
  <2>3. CASE Close(h)
    <3>1. Users' = Users \ {h}
      <4>1. PICK to \in {"idle", "freeing"} : Goes(h, to)
        BY <2>3 DEF Close
      <4> QED BY <1>0, <4>1, UsersAfter
    <3>2. /\ UNCHANGED <<size, data>> /\ position' = [position EXCEPT ![h] = 0]
          /\ got' = [got EXCEPT ![h] = <<>>]
      BY <2>3 DEF Close
    <3> QED BY <3>1, <3>2 DEF File!Close
  <2>4. ASSUME NEW n \in 0..MaxRequest, Read(h, n)
        PROVE  \E m \in 0..MaxInt : File!Read(h, m)
    <3>1. n \in 0..MaxInt
      BY MemoryAssumption
    <3> QED BY <2>4, <3>1, ReadIsFileRead
  <2>5. ASSUME NEW block \in Blocks, Write(h, block)
        PROVE  UNCHANGED File!vars
    <3>1. PICK to \in {"storing", "growing"} : Goes(h, to)
      BY <2>5 DEF Write
    <3>2. Users' = Users
      BY <1>0, <2>5, <3>1, UsersAfter DEF Write, Users
    <3> QED BY <2>5, <3>2, FileStands DEF Write
  <2>6. ASSUME NEW offset \in Offsets, Seek(h, offset)
        PROVE  File!Seek(h)
    <3>1. PICK from \in {0, position[h], size} :
            Seekable(from, offset) /\ position' = [position EXCEPT ![h] = Add(from, offset)]
      BY <2>6 DEF Seek
    <3>2. from \in Nat /\ offset \in Int
      <4>1. position[h] \in 0..MaxInt /\ size \in 0..MaxInt /\ MaxInt \in Nat
        BY <1>0, MemoryAssumption DEF TypeOK
      <4> QED BY <4>1, MemoryAssumption
    <3>3. Add(from, offset) \in 0..MaxInt
      BY <3>1, <3>2, AddFits, MemoryAssumption DEF Seekable
    <3>4. h \in Users /\ Users' = Users /\ UNCHANGED <<size, data, got>>
      BY <2>6 DEF Seek, Users
    <3> QED BY <3>1, <3>3, <3>4 DEF File!Seek
  <2>7. CASE Grow(h)
    BY <2>7, FileStands DEF Grow, Users
  <2>8. CASE Reallocate(h)
    <3>1. Users' = Users
      BY <1>0, <2>8, UsersAfter DEF Reallocate, Users
    <3>2. size \in Nat /\ capacity \in Nat /\ size <= capacity /\ capacity <= newCapacity
      BY <1>0, <2>8, MemoryAssumption DEF Reallocate, IInv, TypeOK, InBounds, WriteOK
    <3>3. newCapacity \in Nat
      BY <1>0, MemoryAssumption DEF TypeOK
    <3>4. \A i \in 0..size - 1 : data'[i] = data[i]
      BY <2>8, <3>2, <3>3 DEF Reallocate
    <3>5. UNCHANGED <<size, position, got>>
      BY <2>8 DEF Reallocate
    <3>6. Content' = Content
      BY <3>4, <3>5 DEF Content
    <3> QED BY <3>1, <3>5, <3>6 DEF File!vars, Content
  <2>9. CASE ReallocateFails(h)
    <3>1. Users' = Users
      BY <1>0, <2>9, UsersAfter DEF ReallocateFails, Users
    <3> QED BY <2>9, <3>1, FileStands DEF ReallocateFails
  <2>10. CASE Store(h)
    <3>1. request \in Blocks
      BY <1>0 DEF TypeOK
    <3>2. File!Write(h, request)
      BY <2>10, StoreIsFileWrite
    <3> QED BY <3>1, <3>2 DEF File!Write
  <2>11. CASE Open(h) \/ OpenSucceeds(h) \/ OpenFails(h) \/ Close(h)
    BY <2>1, <2>2, <2>3, <2>11
  <2>12. CASE Growing(h)
    BY <2>7, <2>8, <2>9, <2>10, <2>12 DEF Growing
  <2> QED BY <1>2, <2>4, <2>5, <2>6, <2>11, <2>12 DEF HandleStep
<1>3. ASSUME NEW o \in Owners, Unregister(o) \/ MarkUnregistered(o)
      PROVE  UNCHANGED File!vars
  <2>1. PICK to : Goes(o, to)
    BY <1>3 DEF Unregister, MarkUnregistered
  <2>2. Users' = Users
    BY <1>0, <2>1, UsersAfter DEF Users
  <2> QED BY <1>3, <2>2, FileStands DEF Unregister, MarkUnregistered
<1>4. ASSUME NEW t \in Handles \cup Owners, Free(t)
      PROVE  File!Replace
  <2>1. Users = {}
    BY <1>0, <1>4 DEF Free, Freeing, References, Holders, Users
  <2>2. Users' = {}
    BY <1>0, <1>4, <2>1, UsersAfter DEF Free
  <2> QED BY <1>0, <1>4, <2>1, <2>2, Replaces DEF Free
<1>5. ASSUME UNCHANGED vars
      PROVE  UNCHANGED File!vars
  BY <1>5, FileStands DEF vars, Users
<1> QED BY <1>1, <1>2, <1>3, <1>4, <1>5 DEF Next, RegisterInput, RegisterOutput, File!Next

\* ffkit_memory_read, _write and _seek of any number of handles, with the
\* reallocations of their writes, are those of one file.
THEOREM BufferIsAFile == Spec => ImplementsFile
<1>1. Init => File!Init
  <2> SUFFICES ASSUME Init PROVE File!Init
    OBVIOUS
  <2>1. Users = {}
    BY DEF Init, Users
  <2>2. Content = <<>>
    BY DEF Init, Content
  <2> QED BY <2>1, <2>2 DEF Init, File!Init, Content
<1>2. IInv /\ IInv' /\ [Next]_vars => [File!Next]_(File!vars)
  BY StepIsAFileStep
<1> QED BY <1>1, <1>2, Inductive, PTL DEF Spec, ImplementsFile, File!Spec
=============================================================================
