---------------------------- MODULE FFKitStream ----------------------------
(***************************************************************************)
(* One ffkitstream: resource, the bounded byte pipe between the            *)
(* application and an FFmpeg session.  Session threads reach it through    *)
(* the ffkitstream: protocol hooks (open, read, write, close), application *)
(* threads through readFFmpegKitStream and writeFFmpegKitStream, and       *)
(* whoever owns it unregisters it.  Cancel requests and shutdown reach it  *)
(* through the registry.                                                   *)
(*                                                                         *)
(* Every call is cut where it gives the resource mutex up: a critical      *)
(* section is one action, except that the copy loops keep the mutex from   *)
(* one chunk to the next, which lock records.  An operator marked mutant   *)
(* is a plausible mistake in the operator after it; nothing uses it.       *)
(***************************************************************************)
EXTENDS Integers, Sequences, FiniteSets

CONSTANTS
    Sessions,        \* threads that run FFmpeg, one open handle each
    Apps,            \* application threads that read or write the stream
    Owners,          \* application threads that unregister it
    NoOne,           \* the value of lock when the mutex is free
    Byte,            \* the values a byte takes
    Capacities,      \* the capacities a stream is registered with
    MaxRequest,      \* bound: the most bytes one call asks for
    MallocMayFail    \* whether av_mallocz of a handle can return NULL

ASSUME ThreadsAssumption ==
    /\ Sessions \cap Apps = {} /\ Sessions \cap Owners = {} /\ Apps \cap Owners = {}
    /\ NoOne \notin Sessions \cup Apps \cup Owners
    /\ IsFiniteSet(Sessions) /\ IsFiniteSet(Apps)
ASSUME DataAssumption ==
    /\ Capacities \subseteq Nat \ {0}
    /\ MaxRequest \in Nat
    /\ MallocMayFail \in BOOLEAN

Threads == Sessions \cup Apps

VARIABLES
    allocated,       \* the resource's memory exists
    registered,      \* the resource is in the registry list
    type,            \* FFKIT_RESOURCE_INPUT or FFKIT_RESOURCE_OUTPUT
    capacity, data, size, readPosition, writePosition,
    closed, writeClosed, unregistered, openCount,
    lock,            \* who keeps the resource mutex between two chunks
    pc,              \* where each thread is
    out,             \* what is left of the buffer a writer was given
    in,              \* what a reader has received in this call
    want,            \* how many bytes a reader still asks for
    timed,           \* the call has a finite timeout
    cancelled,       \* the session's slot holds a cancel request
    waking           \* sessions whose canceller has yet to wake the streams

resource == <<allocated, registered, type, capacity>>
ring     == <<data, size, readPosition, writePosition>>
flags    == <<closed, writeClosed, unregistered>>
calls    == <<out, in, want, timed>>
cancels  == <<cancelled, waking>>
vars     == <<resource, ring, flags, openCount, lock, pc, calls, cancels>>

Types == {"INPUT", "OUTPUT"}
Idle  == "idle"
InCall == {"call", "waiting"}

\* Byte strings a caller can pass in one call.
Buffers == UNION {[1..n -> Byte] : n \in 0..MaxRequest}

\* FFmpeg reads an input and writes an output; the application does the reverse.
Writers == IF type = "INPUT" THEN Apps ELSE Sessions
Readers == IF type = "INPUT" THEN Sessions ELSE Apps

\* The threads the resource cannot be freed under: each counts in openCount.
Holders == {t \in Threads : pc[t] \in {"opening", "open", "call", "waiting", "release"}}
Freeing == {t \in Threads \cup Owners : pc[t] = "freeing"}

Smallest(S) == CHOOSE n \in S : \A m \in S : n <= m

\* ffkit_stream_cancelled: session id 0, the application, is never cancelled.
Cancelled(t) == t \in Sessions /\ cancelled[t]

Mutex(t) == lock \in {NoOne, t}

\* A writer is refused, and a reader of an empty stream does not wait.
EndedByCloseAlone == closed                                    \* mutant
Ended == closed \/ writeClosed

\* pthread_cond_broadcast on the condition the given threads wait on.
Broadcast(S, p) == [t \in DOMAIN p |-> IF t \in S /\ p[t] = "waiting" THEN "call" ELSE p[t]]

-----------------------------------------------------------------------------
Init ==
    /\ allocated = FALSE /\ registered = FALSE
    /\ type = "INPUT" /\ capacity = 0
    /\ data = <<>> /\ size = 0 /\ readPosition = 0 /\ writePosition = 0
    /\ closed = FALSE /\ writeClosed = FALSE /\ unregistered = FALSE
    /\ openCount = 0 /\ lock = NoOne
    /\ pc = [t \in Threads \cup Owners |-> Idle]
    /\ out = [t \in Threads |-> <<>>] /\ in = [t \in Threads |-> <<>>]
    /\ want = [t \in Threads |-> 0] /\ timed = [t \in Threads |-> FALSE]
    /\ cancelled = [s \in Sessions |-> FALSE] /\ waking = {}

\* registerFFmpegKitStream.  The next stream is followed once the last is freed.
Register(ty, cap) ==
    /\ ~allocated
    /\ allocated' = TRUE /\ registered' = TRUE
    /\ type' = ty /\ capacity' = cap
    /\ data' \in [0..cap - 1 -> Byte]           \* av_malloc leaves it as it is
    /\ size' = 0 /\ readPosition' = 0 /\ writePosition' = 0
    /\ closed' = FALSE /\ writeClosed' = FALSE /\ unregistered' = FALSE
    /\ openCount' = 0
    /\ UNCHANGED <<lock, pc, calls, cancels>>

\* ffkit_stream_open: looked up and counted under both mutexes.
Open(s) ==
    /\ pc[s] = Idle /\ lock = NoOne
    /\ registered /\ ~unregistered
    /\ openCount' = openCount + 1
    /\ pc' = [pc EXCEPT ![s] = "opening"]
    /\ UNCHANGED <<resource, ring, flags, lock, calls, cancels>>

\* The handle is allocated after the mutexes are released.
OpenSucceeds(s) ==
    /\ pc[s] = "opening"
    /\ pc' = [pc EXCEPT ![s] = "open"]
    /\ UNCHANGED <<resource, ring, flags, openCount, lock, calls, cancels>>

OpenFails(s) ==
    /\ MallocMayFail
    /\ pc[s] = "opening" /\ lock = NoOne
    /\ openCount' = openCount - 1
    /\ pc' = [pc EXCEPT ![s] = Idle]
    /\ UNCHANGED <<resource, ring, flags, lock, calls, cancels>>

\* No such stream: ENOENT, and nothing changes.
NotFound(t) ==
    /\ pc[t] = Idle
    /\ ~registered
    /\ UNCHANGED vars

-----------------------------------------------------------------------------
\* The buffer or the byte count a call starts with.
Arguments(t) ==
    \/ /\ t \in Writers
       /\ \E b \in Buffers : out' = [out EXCEPT ![t] = b]
       /\ UNCHANGED <<in, want>>
    \/ /\ t \in Readers
       /\ \E n \in 0..MaxRequest : want' = [want EXCEPT ![t] = n]
       /\ in' = [in EXCEPT ![t] = <<>>]
       /\ UNCHANGED out

\* ffkit_stream_read and ffkit_stream_write on a handle: timeoutMs is -1.
Begin(s) ==
    /\ pc[s] = "open"
    /\ Arguments(s)
    /\ timed' = [timed EXCEPT ![s] = FALSE]
    /\ pc' = [pc EXCEPT ![s] = "call"]
    /\ UNCHANGED <<resource, ring, flags, openCount, lock, cancels>>

\* writeFFmpegKitStream and readFFmpegKitStream, up to the byte copies.
Enter(a) ==
    /\ pc[a] = Idle /\ lock = NoOne
    /\ registered /\ ~unregistered
    /\ openCount' = openCount + 1
    /\ Arguments(a)
    /\ \E finite \in BOOLEAN : timed' = [timed EXCEPT ![a] = finite]
    /\ pc' = [pc EXCEPT ![a] = "call"]
    /\ UNCHANGED <<resource, ring, flags, lock, cancels>>

\* A call gives the mutex up and goes back to its caller, its arguments with it.
Return(t) ==
    /\ lock' = NoOne
    /\ pc' = [pc EXCEPT ![t] = IF t \in Sessions THEN "open" ELSE "release"]
    /\ out' = [out EXCEPT ![t] = <<>>] /\ in' = [in EXCEPT ![t] = <<>>]
    /\ want' = [want EXCEPT ![t] = 0] /\ timed' = [timed EXCEPT ![t] = FALSE]

\* pthread_cond_wait or pthread_cond_timedwait.
Wait(t) ==
    /\ lock' = NoOne
    /\ pc' = [pc EXCEPT ![t] = "waiting"]

WriteMustWait(t) == size = capacity /\ ~Ended /\ ~Cancelled(t)
ReadMustWait(t)  == size = 0 /\ ~closed /\ ~writeClosed /\ ~Cancelled(t)

\* One pass of the loop of ffkit_stream_write_bytes that does not copy: all is
\* written, the stream has ended (EPIPE), or a cancelled session finds it full
\* (AVERROR_EXIT).
WriteReturns(t) ==
    /\ pc[t] = "call" /\ t \in Writers /\ Mutex(t)
    /\ \/ out[t] = <<>>
       \/ Ended
       \/ size = capacity /\ Cancelled(t)
    /\ Return(t)
    /\ UNCHANGED <<resource, ring, flags, openCount, cancels>>

WriteWaits(t) ==
    /\ pc[t] = "call" /\ t \in Writers /\ Mutex(t)
    /\ out[t] # <<>> /\ WriteMustWait(t)
    /\ Wait(t)
    /\ UNCHANGED <<resource, ring, flags, openCount, calls, cancels>>

\* A chunk ends with the buffer, with the free space and where the ring wraps.
WriteLengthPastSpace(t) == Smallest({Len(out[t]), capacity - writePosition})   \* mutant
WriteLengthPastWrap(t) == Smallest({Len(out[t]), capacity - size})             \* mutant
WriteLength(t) == Smallest({Len(out[t]), capacity - size, capacity - writePosition})

ReadLength(t) == Smallest({want[t], size, capacity - readPosition})

\* One chunk and the broadcast to the readers.
WriteChunk(t) ==
    /\ pc[t] = "call" /\ t \in Writers /\ Mutex(t)
    /\ out[t] # <<>> /\ ~Ended /\ size # capacity
    /\ LET n == WriteLength(t)
       IN  /\ data' = [i \in 0..capacity - 1 |->
                         IF i \in writePosition..writePosition + n - 1
                         THEN out[t][i - writePosition + 1] ELSE data[i]]
           /\ writePosition' = (writePosition + n) % capacity
           /\ size' = size + n
           /\ out' = [out EXCEPT ![t] = SubSeq(@, n + 1, Len(@))]
    /\ lock' = t
    /\ pc' = Broadcast(Readers, pc)
    /\ UNCHANGED <<resource, readPosition, flags, openCount, in, want, timed, cancels>>

\* ffkit_stream_read_bytes where it returns: on entry when the stream has ended
\* (end of file or EPIPE), the session was cancelled (AVERROR_EXIT) or nothing is
\* asked for, and when the copy loop is over.
ReadReturns(t) ==
    /\ pc[t] = "call" /\ t \in Readers /\ Mutex(t)
    /\ \/ lock = NoOne /\ size = 0 /\ ~ReadMustWait(t)
       \/ lock = t /\ size = 0
       \/ size > 0 /\ want[t] = 0
    /\ Return(t)
    /\ UNCHANGED <<resource, ring, flags, openCount, cancels>>

ReadWaits(t) ==
    /\ pc[t] = "call" /\ t \in Readers /\ lock = NoOne
    /\ ReadMustWait(t)
    /\ Wait(t)
    /\ UNCHANGED <<resource, ring, flags, openCount, calls, cancels>>

ReadChunk(t) ==
    /\ pc[t] = "call" /\ t \in Readers /\ Mutex(t)
    /\ size > 0 /\ want[t] > 0
    /\ LET n == ReadLength(t)
       IN  /\ in' = [in EXCEPT ![t] = @ \o [i \in 1..n |-> data[readPosition + i - 1]]]
           /\ readPosition' = (readPosition + n) % capacity
           /\ size' = size - n
           /\ want' = [want EXCEPT ![t] = @ - n]
    /\ lock' = t
    /\ pc' = Broadcast(Writers, pc)
    /\ UNCHANGED <<resource, data, writePosition, flags, openCount, out, timed, cancels>>

\* ETIMEDOUT: the call returns what it has moved so far.
TimesOut(t) ==
    /\ pc[t] = "waiting" /\ timed[t] /\ lock = NoOne
    /\ Return(t)
    /\ UNCHANGED <<resource, ring, flags, openCount, cancels>>

\* A wait may end although nobody signalled.
SpuriousWakeup(t) ==
    /\ pc[t] = "waiting"
    /\ pc' = [pc EXCEPT ![t] = "call"]
    /\ UNCHANGED <<resource, ring, flags, openCount, lock, calls, cancels>>

-----------------------------------------------------------------------------
\* Gives a reference up; whoever gives up the last one of an unregistered
\* stream frees it, after the mutex is released.
DropFreesEarly(t, p) ==                                        \* mutant
    /\ openCount' = IF openCount > 0 THEN openCount - 1 ELSE openCount
    /\ pc' = [p EXCEPT ![t] = IF unregistered THEN "freeing" ELSE Idle]
DropNeverFrees(t, p) ==                                        \* mutant
    /\ openCount' = IF openCount > 0 THEN openCount - 1 ELSE openCount
    /\ pc' = [p EXCEPT ![t] = Idle]
Drop(t, p) ==
    /\ openCount' = IF openCount > 0 THEN openCount - 1 ELSE openCount
    /\ pc' = [p EXCEPT ![t] = IF unregistered /\ openCount' = 0 THEN "freeing" ELSE Idle]

\* The end of writeFFmpegKitStream and readFFmpegKitStream.
Release(a) ==
    /\ pc[a] = "release" /\ lock = NoOne
    /\ Drop(a, pc)
    /\ UNCHANGED <<resource, ring, flags, lock, calls, cancels>>

\* ffkit_stream_close.
Close(s) ==
    /\ pc[s] = "open" /\ lock = NoOne
    /\ IF type = "OUTPUT"
       THEN writeClosed' = TRUE /\ UNCHANGED closed
       ELSE closed' = TRUE /\ UNCHANGED writeClosed
    /\ Drop(s, Broadcast(Threads, pc))
    /\ UNCHANGED <<resource, ring, unregistered, lock, calls, cancels>>

\* ffkit_stream_free.
Free(t) ==
    /\ pc[t] = "freeing"
    /\ allocated' = FALSE
    /\ capacity' = 0 /\ data' = <<>>
    /\ size' = 0 /\ readPosition' = 0 /\ writePosition' = 0
    /\ closed' = FALSE /\ writeClosed' = FALSE /\ unregistered' = FALSE
    /\ pc' = [pc EXCEPT ![t] = Idle]
    /\ openCount' = 0
    /\ UNCHANGED <<registered, type, lock, calls, cancels>>

\* unregisterFFmpegKitStream: out of the list under the registry mutex, then
\* marked and closed under the resource mutex.
Unregister(o) ==
    /\ pc[o] = Idle /\ registered
    /\ registered' = FALSE
    /\ pc' = [pc EXCEPT ![o] = "removed"]
    /\ UNCHANGED <<allocated, type, capacity, ring, flags, openCount, lock, calls, cancels>>

MarkUnregistered(o) ==
    /\ pc[o] = "removed" /\ lock = NoOne
    /\ closed' = TRUE /\ writeClosed' = TRUE /\ unregistered' = TRUE
    /\ pc' = [Broadcast(Threads, pc) EXCEPT ![o] = IF openCount = 0 THEN "freeing" ELSE Idle]
    /\ UNCHANGED <<resource, ring, openCount, lock, calls, cancels>>

\* closeFFmpegKitStreamInput.
CloseInput ==
    /\ registered /\ lock = NoOne
    /\ writeClosed' = TRUE
    /\ pc' = Broadcast(Threads, pc)
    /\ UNCHANGED <<resource, ring, closed, unregistered, openCount, lock, calls, cancels>>

\* ffkit_stream_close_all, which shutdown calls.
CloseAllSilently ==                                            \* mutant
    /\ registered /\ lock = NoOne
    /\ closed' = TRUE
    /\ writeClosed' = (writeClosed \/ type = "OUTPUT")
    /\ UNCHANGED <<resource, ring, unregistered, openCount, lock, pc, calls, cancels>>
CloseAll ==
    /\ registered /\ lock = NoOne
    /\ closed' = TRUE
    /\ writeClosed' = (writeClosed \/ type = "OUTPUT")
    /\ pc' = Broadcast(Threads, pc)
    /\ UNCHANGED <<resource, ring, unregistered, openCount, lock, calls, cancels>>

-----------------------------------------------------------------------------
\* cancelSession stores the request, then wakes the sessions.
CancelWakesNobody(s) ==                                        \* mutant
    /\ ~cancelled[s]
    /\ cancelled' = [cancelled EXCEPT ![s] = TRUE]
    /\ UNCHANGED <<resource, ring, flags, openCount, lock, pc, calls, waking>>
Cancel(s) ==
    /\ ~cancelled[s]
    /\ cancelled' = [cancelled EXCEPT ![s] = TRUE]
    /\ waking' = waking \cup {s}
    /\ UNCHANGED <<resource, ring, flags, openCount, lock, pc, calls>>

\* ffkit_stream_wake_sessions: a registered stream only, and only the condition
\* its session waits on.
SessionSideOfOther == IF type = "INPUT" THEN Writers ELSE Readers    \* mutant
EverySide == Threads                                                 \* mutant
SessionSide == IF type = "OUTPUT" THEN Writers ELSE Readers

WakeSessions(s) ==
    /\ s \in waking
    /\ registered => lock = NoOne
    /\ waking' = waking \ {s}
    /\ pc' = IF registered
             THEN Broadcast(SessionSide, pc)
             ELSE pc
    /\ UNCHANGED <<resource, ring, flags, openCount, lock, calls, cancelled>>

\* removeSession and registerSessionId: the next execution of this thread
\* starts with no request.
NextExecution(s) ==
    /\ pc[s] = Idle /\ cancelled[s]
    /\ cancelled' = [cancelled EXCEPT ![s] = FALSE]
    /\ UNCHANGED <<resource, ring, flags, openCount, lock, pc, calls, waking>>

-----------------------------------------------------------------------------
Advance(t) ==
    \/ WriteReturns(t) \/ WriteWaits(t) \/ WriteChunk(t)
    \/ ReadReturns(t) \/ ReadWaits(t) \/ ReadChunk(t)

SessionStep(s) ==
    \/ Open(s) \/ OpenSucceeds(s) \/ OpenFails(s) \/ NotFound(s)
    \/ Begin(s) \/ Close(s)
    \/ Cancel(s) \/ WakeSessions(s) \/ NextExecution(s)

AppStep(a) == Enter(a) \/ NotFound(a) \/ Release(a)

OwnerStep(o) == Unregister(o) \/ MarkUnregistered(o)

Next ==
    \/ \E ty \in Types, cap \in Capacities : Register(ty, cap)
    \/ \E s \in Sessions : SessionStep(s)
    \/ \E a \in Apps : AppStep(a)
    \/ \E t \in Threads : Advance(t) \/ TimesOut(t) \/ SpuriousWakeup(t)
    \/ \E o \in Owners : OwnerStep(o)
    \/ \E t \in Threads \cup Owners : Free(t)
    \/ CloseInput
    \/ CloseAll

Spec == Init /\ [][Next]_vars

\* A thread that can run does, and gets a mutex it keeps asking for; a session
\* that is done with a stream closes its handle.  Nothing else is assumed: the
\* application need not call, and timeouts need not expire.
Fairness ==
    /\ \A t \in Threads : SF_vars(Advance(t))
    /\ \A s \in Sessions : /\ WF_vars(OpenSucceeds(s))
                          /\ SF_vars(WakeSessions(s)) /\ SF_vars(Close(s))
    /\ \A a \in Apps : SF_vars(Release(a))
    /\ \A o \in Owners : SF_vars(MarkUnregistered(o))
    /\ \A t \in Threads \cup Owners : WF_vars(Free(t))

LiveSpec == Spec /\ Fairness

-----------------------------------------------------------------------------
\* Every variable has its type.
TypeOK ==
    /\ allocated \in BOOLEAN /\ registered \in BOOLEAN /\ type \in Types
    /\ capacity \in Capacities \cup {0}
    /\ data \in [0..capacity - 1 -> Byte]
    /\ size \in Nat /\ readPosition \in Nat /\ writePosition \in Nat
    /\ closed \in BOOLEAN /\ writeClosed \in BOOLEAN /\ unregistered \in BOOLEAN
    /\ openCount \in Nat
    /\ lock \in Threads \cup {NoOne}
    /\ pc \in [Threads \cup Owners ->
                {Idle, "opening", "open", "call", "waiting", "release", "removed", "freeing"}]
    /\ out \in [Threads -> Seq(Byte)] /\ in \in [Threads -> Seq(Byte)]
    /\ want \in [Threads -> Nat] /\ timed \in [Threads -> BOOLEAN]
    /\ cancelled \in [Sessions -> BOOLEAN] /\ waking \subseteq Sessions

\* The two positions and the size stay in step however the ring wraps, so no
\* copy leaves the buffer or overtakes the other side.
RingInStep ==
    allocated => /\ size <= capacity
                 /\ readPosition < capacity /\ writePosition < capacity
                 /\ writePosition = (readPosition + size) % capacity

\* Whoever can still touch the resource counts in openCount, so it is not freed
\* under a call, an open handle or an unregister that has yet to mark it; and of
\* all who may find themselves the last user, one at most frees it.
NoUseAfterFree ==
    /\ Holders # {} \/ registered \/ (\E o \in Owners : pc[o] = "removed") => allocated
    /\ allocated => openCount = Cardinality(Holders)
    /\ Freeing # {} => allocated /\ ~registered /\ Holders = {}
    /\ \A t, u \in Freeing : t = u

\* An unregistered stream that nobody uses is being freed: the last user to
\* leave, or unregister itself, always notices.  It relies on the handle being
\* allocated: the failure path of ffkit_stream_open does not look.
NothingLeaks ==
    ~MallocMayFail =>
        (allocated /\ ~registered /\ Holders = {} /\ Freeing = {}
            => \E o \in Owners : pc[o] = "removed")

\* Nobody waits for something that has already happened: every change a waiting
\* thread's condition depends on has signalled it, or a canceller or an owner is
\* about to.
NoLostWakeup ==
    \A t \in Threads : pc[t] = "waiting" =>
        /\ ~closed /\ ~writeClosed
        /\ t \in Writers => size = capacity
        /\ t \in Readers => size = 0
        /\ Cancelled(t) => t \in waking \/ ~registered

\* The wake-up of a cancel request never ends a wait of the application, whose
\* timeout would start again (comment of ffkit_stream_wake_sessions).
CancelSparesApps ==
    [][waking' # waking => \A a \in Apps : pc[a] = "waiting" => pc'[a] = "waiting"]_vars

\* A reader that was told of the end of the stream is never given a byte later:
\* once it is ended for writing and drained, it stays empty while it exists.
EndIsFinal ==
    [][allocated /\ allocated' /\ writeClosed /\ size = 0 => writeClosed' /\ size' = 0]_vars

-----------------------------------------------------------------------------
\* The ring read from the oldest byte on.
Contents == [i \in 1..size |-> data[(readPosition + i - 1) % capacity]]

Fifo == INSTANCE StreamFifo WITH
    Users   <- Threads,
    queue   <- Contents,
    bound   <- capacity,
    ended   <- ~allocated \/ closed \/ writeClosed,
    pending <- out,
    taken   <- in

\* Whatever the threads' calls do to it and however the ring wraps, each stream is
\* one bounded queue: bytes come out as they went in, none twice, and none enters
\* once it has ended.
ImplementsFifo == Fifo!Spec

\* Whoever is blocked on a stream, or busy with it, returns once its session is
\* cancelled or the stream is closed, by shutdown or because it is unregistered.
CallReturns ==
    \A t \in Threads : pc[t] \in InCall /\ (closed \/ Cancelled(t)) ~> pc[t] \notin InCall
=============================================================================
