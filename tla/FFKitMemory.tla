---------------------------- MODULE FFKitMemory ----------------------------
(***************************************************************************)
(* One ffkitmem: resource, a buffer that FFmpeg reads or writes like a     *)
(* file: an input holds a copy of the application's bytes, an output grows *)
(* up to its maximum.  FFmpeg threads open, read, write, seek and close    *)
(* handles on it and the application unregisters it, at any moment.        *)
(*                                                                         *)
(* A critical section of the resource mutex is one action, except the      *)
(* write that has to grow the buffer: it keeps the mutex through the steps *)
(* of the loop that computes the new capacity.  A request that fails       *)
(* changes nothing and is left out, as are the getters.                    *)
(***************************************************************************)
EXTENDS Integers, Sequences, FiniteSets

CONSTANTS
    Handles,          \* FFmpeg threads, one handle each
    Owners,           \* application threads that unregister the buffer
    NoOne,            \* the value of mutex when nobody grows the buffer
    Byte, Zero,       \* the values of a byte, and the one memset writes
    Junk,             \* a byte malloc left as it was
    Arguments,        \* capacities the application passes
    Offsets,          \* offsets FFmpeg seeks by
    MaxRequest,       \* bound: the most bytes one call asks for
    DefaultCapacity,  \* FFKIT_DEFAULT_OUTPUT_CAPACITY
    MaxInt            \* INT64_MAX, and ffkit_max_alloc_size

ASSUME MemoryAssumption ==
    /\ IsFiniteSet(Handles) /\ Handles \cap Owners = {} /\ NoOne \notin Handles
    /\ Zero \in Byte /\ Junk \notin Byte
    /\ Arguments \subseteq Int /\ Offsets \subseteq Int
    /\ MaxInt \in Nat /\ MaxRequest \in 0..MaxInt /\ DefaultCapacity \in 1..MaxInt

VARIABLES
    allocated, registered, unregistered, type, openCount,
    data, size, capacity, maxCapacity,
    mutex,            \* the writer that is growing the buffer
    newCapacity, request,
    pc,
    position,         \* of each handle
    got               \* what the last read of each handle returned

resource == <<allocated, registered, unregistered, type>>
buffer   == <<data, size, capacity, maxCapacity>>
growth   == <<mutex, newCapacity, request>>
vars     == <<resource, openCount, buffer, growth, pc, position, got>>

Blocks == UNION {[1..n -> Byte] : n \in 0..MaxRequest}

\* The handles that count in openCount, the handles FFmpeg has, and who frees.
Holders == {h \in Handles : pc[h] \in {"opening", "open", "growing", "storing"}}
Users   == {h \in Handles : pc[h] \in {"open", "growing", "storing"}}
Freeing == {t \in Handles \cup Owners : pc[t] = "freeing"}

\* 64-bit addition wraps, so it is checked first (ffkit_int64_add_overflow).
AddOverflows(left, right) == left + right > MaxInt \/ left + right < -MaxInt - 1
Add(left, right) ==
    IF left + right > MaxInt THEN left + right - 2 * (MaxInt + 1) ELSE left + right

Required(h) == Add(position[h], Len(request))
Goes(t, to) == pc' = [pc EXCEPT ![t] = to]

\* The writer returns, and its locals are gone.
Unlock == mutex' = NoOne /\ newCapacity' = 0 /\ request' = <<>>

Init ==
    /\ allocated = FALSE /\ registered = FALSE /\ unregistered = FALSE
    /\ type = "INPUT" /\ openCount = 0
    /\ data = <<>> /\ size = 0 /\ capacity = 0 /\ maxCapacity = 0
    /\ mutex = NoOne /\ newCapacity = 0 /\ request = <<>>
    /\ pc = [t \in Handles \cup Owners |-> "idle"]
    /\ position = [h \in Handles |-> 0] /\ got = [h \in Handles |-> <<>>]

-----------------------------------------------------------------------------
\* The next buffer is followed once nobody can reach the last, freed or leaked.
Reachable == registered \/ \E t \in Handles \cup Owners : pc[t] # "idle"

Registers(ty) ==
    /\ ~Reachable
    /\ allocated' = TRUE /\ registered' = TRUE /\ unregistered' = FALSE
    /\ type' = ty /\ openCount' = 0
    /\ UNCHANGED <<growth, pc, position, got>>

\* registerFFmpegKitInputBuffer.
RegisterInput(block) ==
    /\ Registers("INPUT")
    /\ data' = [i \in 0..Len(block) - 1 |-> block[i + 1]]
    /\ size' = Len(block) /\ capacity' = Len(block) /\ maxCapacity' = Len(block)

\* registerFFmpegKitOutputBuffer: 0 asks for the default.
RegisterOutput(initial, maximum) ==
    LET cap == IF initial > 0 THEN initial ELSE DefaultCapacity
        max == IF maximum > 0 THEN maximum ELSE MaxInt
    IN  /\ Registers("OUTPUT")
        /\ initial >= 0 /\ maximum >= 0 /\ cap <= max /\ max <= MaxInt
        /\ data' = [i \in 0..cap - 1 |-> Junk]
        /\ size' = 0 /\ capacity' = cap /\ maxCapacity' = max

\* ffkit_memory_open.
Open(h) ==
    /\ pc[h] = "idle" /\ mutex = NoOne
    /\ registered /\ ~unregistered
    /\ openCount' = openCount + 1
    /\ Goes(h, "opening")
    /\ UNCHANGED <<resource, buffer, growth, position, got>>

OpenSucceeds(h) ==
    /\ pc[h] = "opening"
    /\ Goes(h, "open")
    /\ UNCHANGED <<resource, openCount, buffer, growth, position, got>>

\* Its handle cannot be allocated; the buffer is not freed here.
OpenFails(h) ==
    /\ pc[h] = "opening" /\ mutex = NoOne
    /\ openCount' = openCount - 1
    /\ Goes(h, "idle")
    /\ UNCHANGED <<resource, buffer, growth, position, got>>

\* ffkit_memory_read, at the end of the file too.
ReadLength(h, n) ==
    IF position[h] >= size THEN 0
    ELSE IF n < size - position[h] THEN n ELSE size - position[h]

Read(h, n) ==
    /\ pc[h] = "open" /\ type = "INPUT" /\ mutex = NoOne
    /\ got' = [got EXCEPT ![h] = [i \in 1..ReadLength(h, n) |-> data[position[h] + i - 1]]]
    /\ position' = [position EXCEPT ![h] = @ + ReadLength(h, n)]
    /\ UNCHANGED <<resource, openCount, buffer, growth, pc>>

-----------------------------------------------------------------------------
\* What is written has to fit.
FitsLengthOnly(h, block) == Len(block) <= capacity             \* mutant
Fits(h, block) == Add(position[h], Len(block)) <= capacity

\* ffkit_memory_write fits, asks for more memory, or fails.
Write(h, block) ==
    /\ pc[h] = "open" /\ type = "OUTPUT" /\ mutex = NoOne
    /\ ~AddOverflows(position[h], Len(block))
    /\ \/ Fits(h, block) /\ Goes(h, "storing")
       \/ /\ ~Fits(h, block) /\ Add(position[h], Len(block)) <= maxCapacity
          /\ Goes(h, "growing")
    /\ mutex' = h /\ request' = block
    /\ newCapacity' = IF capacity > 0 THEN capacity ELSE DefaultCapacity
    /\ UNCHANGED <<resource, openCount, buffer, position, got>>

\* One turn of the loop of ffkit_memory_ensure_capacity.
NextCapacityBelow ==                                           \* mutant
    IF newCapacity > maxCapacity \div 2 THEN newCapacity ELSE newCapacity * 2
NextCapacity ==
    IF newCapacity > maxCapacity \div 2 THEN maxCapacity ELSE newCapacity * 2

Grow(h) ==
    /\ pc[h] = "growing" /\ newCapacity < Required(h)
    /\ newCapacity' = NextCapacity
    /\ UNCHANGED <<resource, openCount, buffer, mutex, request, pc, position, got>>

\* av_realloc keeps what was there.
Reallocate(h) ==
    /\ pc[h] = "growing" /\ newCapacity >= Required(h)
    /\ data' = [i \in 0..newCapacity - 1 |-> IF i < capacity THEN data[i] ELSE Junk]
    /\ capacity' = newCapacity
    /\ Goes(h, "storing")
    /\ UNCHANGED <<resource, openCount, size, maxCapacity, growth, position, got>>

ReallocateFails(h) ==
    /\ pc[h] = "growing" /\ newCapacity >= Required(h)
    /\ Goes(h, "open") /\ Unlock
    /\ UNCHANGED <<resource, openCount, buffer, position, got>>

\* The byte at i after memset and memcpy.
StoredNoGap(h, i) ==                                           \* mutant
    IF position[h] <= i /\ i < Required(h) THEN request[i - position[h] + 1] ELSE data[i]
Stored(h, i) ==
    IF position[h] <= i /\ i < Required(h) THEN request[i - position[h] + 1]
    ELSE IF size <= i /\ i < position[h] THEN Zero
    ELSE data[i]

SizeAfterAlways(h) == Required(h)                              \* mutant
SizeAfter(h) == IF Required(h) > size THEN Required(h) ELSE size

Store(h) ==
    /\ pc[h] = "storing"
    /\ data' = [i \in DOMAIN data |-> Stored(h, i)]
    /\ size' = SizeAfter(h)
    /\ position' = [position EXCEPT ![h] = Required(h)]
    /\ Goes(h, "open") /\ Unlock
    /\ UNCHANGED <<resource, openCount, capacity, maxCapacity, got>>

\* ffkit_memory_seek: SEEK_SET, SEEK_CUR and SEEK_END.
Seekable(from, offset) == ~AddOverflows(from, offset) /\ Add(from, offset) >= 0

Seek(h, offset) ==
    /\ pc[h] = "open" /\ mutex = NoOne
    /\ \E from \in {0, position[h], size} :
         /\ Seekable(from, offset)
         /\ position' = [position EXCEPT ![h] = Add(from, offset)]
    /\ UNCHANGED <<resource, openCount, buffer, growth, pc, got>>

-----------------------------------------------------------------------------
\* ffkit_memory_close; the handle, and FFmpeg's bytes, are gone.
CloseLooksLate(h) ==                                           \* mutant
    /\ pc[h] = "open" /\ mutex = NoOne
    /\ openCount' = openCount - 1
    /\ Goes(h, IF unregistered THEN "freeing" ELSE "idle")
    /\ position' = [position EXCEPT ![h] = 0] /\ got' = [got EXCEPT ![h] = <<>>]
    /\ UNCHANGED <<resource, buffer, growth>>
Close(h) ==
    /\ pc[h] = "open" /\ mutex = NoOne
    /\ openCount' = openCount - 1
    /\ Goes(h, IF unregistered /\ openCount' = 0 THEN "freeing" ELSE "idle")
    /\ position' = [position EXCEPT ![h] = 0] /\ got' = [got EXCEPT ![h] = <<>>]
    /\ UNCHANGED <<resource, buffer, growth>>

\* unregisterFFmpegKitBuffer takes the buffer off the list, and then marks it.
Unregister(o) ==
    /\ pc[o] = "idle" /\ registered
    /\ registered' = FALSE
    /\ Goes(o, "removed")
    /\ UNCHANGED <<allocated, unregistered, type, openCount, buffer, growth, position, got>>

MarkUnregistered(o) ==
    /\ pc[o] = "removed" /\ mutex = NoOne
    /\ unregistered' = TRUE
    /\ Goes(o, IF openCount = 0 THEN "freeing" ELSE "idle")
    /\ UNCHANGED <<allocated, registered, type, openCount, buffer, growth, position, got>>

\* ffkit_memory_free.
Free(t) ==
    /\ pc[t] = "freeing"
    /\ allocated' = FALSE /\ unregistered' = FALSE
    /\ data' = <<>> /\ size' = 0 /\ capacity' = 0 /\ maxCapacity' = 0
    /\ Goes(t, "idle")
    /\ UNCHANGED <<registered, type, openCount, growth, position, got>>

-----------------------------------------------------------------------------
Growing(h) == Grow(h) \/ Reallocate(h) \/ ReallocateFails(h) \/ Store(h)

HandleStep(h) ==
    \/ Open(h) \/ OpenSucceeds(h) \/ OpenFails(h) \/ Close(h)
    \/ \E n \in 0..MaxRequest : Read(h, n)
    \/ \E block \in Blocks : Write(h, block)
    \/ \E offset \in Offsets : Seek(h, offset)
    \/ Growing(h)

Next ==
    \/ \E block \in Blocks : RegisterInput(block)
    \/ \E initial, maximum \in Arguments : RegisterOutput(initial, maximum)
    \/ \E h \in Handles : HandleStep(h)
    \/ \E o \in Owners : Unregister(o) \/ MarkUnregistered(o)
    \/ \E t \in Handles \cup Owners : Free(t)

Spec == Init /\ [][Next]_vars

\* A thread in the middle of a write goes on.
LiveSpec == Spec /\ \A h \in Handles : WF_vars(Growing(h))

-----------------------------------------------------------------------------
File == INSTANCE MemoryFile WITH
    Positions <- 0..MaxInt,
    users     <- Users,
    length    <- size,
    content   <- [i \in 0..size - 1 |-> data[i]]

\* To FFmpeg the buffer is a file: however writes of several handles overlap, and
\* whatever is reallocated in between, each takes place at once and at its own
\* position, gaps read as zeros, and what fails leaves the file as it was.
ImplementsFile == File!Spec

\* Every variable has its type.
TypeOK ==
    /\ allocated \in BOOLEAN /\ registered \in BOOLEAN /\ unregistered \in BOOLEAN
    /\ type \in {"INPUT", "OUTPUT"} /\ openCount \in Nat
    /\ capacity \in 0..MaxInt /\ maxCapacity \in 0..MaxInt /\ newCapacity \in 0..MaxInt
    /\ size \in 0..MaxInt
    /\ data \in [0..capacity - 1 -> Byte \cup {Junk}]
    /\ mutex \in Handles \cup {NoOne} /\ request \in Blocks
    /\ pc \in [Handles \cup Owners ->
                {"idle", "opening", "open", "growing", "storing", "removed", "freeing"}]
    /\ position \in [Handles -> 0..MaxInt] /\ got \in [Handles -> Seq(Byte \cup {Junk})]

\* The file fits into the memory and the memory into its maximum, also while a
\* write is growing it, so no copy leaves the memory and no doubling overflows.
InBounds ==
    /\ size <= capacity /\ capacity <= maxCapacity
    /\ \A h \in Handles :
         /\ pc[h] = "growing" => newCapacity <= maxCapacity
         /\ pc[h] = "storing" => position[h] + Len(request) <= capacity

\* Neither a read nor getFFmpegKitOutputBuffer shows memory nobody has written:
\* not after a seek past the end, nor after the buffer was reallocated.
NoJunk ==
    /\ \A i \in 0..size - 1 : data[i] \in Byte
    /\ \A h \in Handles : got[h] \in Seq(Byte)

\* A handle or an unregister that has yet to mark the buffer keeps it from being
\* freed, and one thread at most frees it.
NoUseAfterFree ==
    /\ Holders # {} \/ registered \/ (\E o \in Owners : pc[o] = "removed") => allocated
    /\ allocated => openCount = Cardinality(Holders)
    /\ Freeing # {} => allocated /\ ~registered /\ Holders = {}
    /\ \A t, u \in Freeing : t = u

\* A write that asks for more memory gets it or fails: the capacity it doubles
\* reaches what it requires, whatever the maximum is.
GrowthEnds == \A h \in Handles : pc[h] = "growing" ~> pc[h] \in {"open", "storing"}
=============================================================================
