# TLA+ verification of FFmpegKit Next

This directory models the core of FFmpegKit Next in two layers. The upper one is
the C++ code that turns the FFmpeg command-line tools into a library
(`src/linux/src/FFmpegKitConfig.cpp` and the sessions around it). It is small,
holds a dozen pieces of global state behind as many mutexes and atomics, and is
entered at any moment by application threads, by threads that run FFmpeg, by
delivery loops, by the exit handlers and by a detached shutdown coordinator. The
lower one is the threads an execution consists of (`src/linux/src/fftools`):
demuxers, decoders, filtergraphs, encoders and muxers, the queues between them
and the scheduler that starts, chokes and stops them. The Windows, web, Apple and
Android counterparts repeat the same algorithms; the Linux code is the reference
here, and every source line below is a line of `FFmpegKitConfig.cpp` unless
another file is named.

`PROJECT.json` is the machine-readable side of this document: it lists the
components, the runs, what each definition models and at which lines, the
hazards with the properties aimed at them, the findings and the theorems.

## 1. The system

### Components that are modelled

| Component | State | Operations | What is hard |
|---|---|---|---|
| **Streams** (`ffkitstream:`), lines 258-280, 1133-1380, 2187-2372 | registry list; per stream a ring, `closed`, `writeClosed`, `unregistered`, `openCount`, a mutex and two conditions | register, open, read, write, close, application read and write, closeInput, unregister, cancel wake-up, close all | blocking with time-outs, wake-ups from five sources, the last user of six kinds frees |
| **Memory buffers** (`ffkitmem:`), 229-256, 867-1131, 2044-2185 | registry list; per buffer `data`, `size`, `capacity`, `maxCapacity`, `openCount`; per handle `position` | register, open, read, write, seek, close, unregister | 64-bit positions, growth by reallocation, several handles, the last user frees |
| **Session map**, 87-88, 691-774, 1662-1742, `fftools/ffmpeg.c` | `sessionMap[SESSION_MAP_SIZE]` of 0 idle, 1 running, 2 cancel | registerSessionId, removeSession, cancelSession, cancelAllSessions, the polls of ffmpeg | lock-free; requests come before, in and after an execution, shutdown sweeps while executions start |
| **Delivery**, 329-387, 557-682, 806-828, 1414-1660, 1791-1843 | `callbackDataList`, in-transit counts, `configuredLogLevel`, `redirectionEnabled`, generation, `callbackThreads`, `activeDeliveryLoops` | enqueue, the loop, set level, enable, disable, discard, exit handlers | loops of two generations, a level that changes while messages wait, counts that another thread waits for, discard on shutdown, join on exit |
| **Lifecycle**, 176-190, 766-828, 1845-1915, 2408-2632 | `shutdownState`, `shutdownCleanupPending`, deadlines, four counters under `executionMutex` | begin and end of executions, workers, callbacks; shutdown and its coordinator | one-way shutdown called from anywhere, deadlines, late workers, thread creation that fails |
| **Thread queue**, `fftools/thread_queue.c` | one fifo of items and stream indices, per stream two finished flags, `choked`, a mutex and one condition | send, send_finish, receive, receive_finish, choke | one condition for senders, receiver and choking; ends of streams beside a fifo they share |
| **Scheduler**, `fftools/ffmpeg_sched.c` and the thread loops of `ffmpeg_demux.c`, `ffmpeg_dec.c`, `ffmpeg_filter.c`, `ffmpeg_enc.c`, `ffmpeg_mux.c` | per task its thread and queue; pre-muxing queues and `mux_started`; last time reported, finished, choked; `terminate`, `task_failed` | start, send to a decoder, filtergraph, encoder or muxer, open an encoder, start a muxer, schedule, finish, fail, wait, stop | two locks and an atomic around a muxer's start, a source choked by what others last reported, queues in cycles of waiting, stop at any moment |
| **History**, 417-490, 2715-2878 | `sessionHistoryList`, `sessionHistoryMap`, size, `sessionDeleteListeners` (weak) | create, evict, delete, clear, set size, add and remove listener, notify | two structures, listeners called outside of the locks, listeners that die |

The parts meet in few places. Executions (lifecycle) claim slots (session map)
and their threads write logs (delivery) and use streams and buffers. An FFmpeg
execution is a scheduler whose tasks are connected by thread queues; its main
thread polls the slot, and a request makes it stop the tasks. A cancel request
also wakes the streams. Shutdown stops admission, sweeps the session map,
closes the streams, switches the redirection off, discards queued messages, and
clears the history once everything it counts has ended or a deadline has passed.

### Components that are not

The facades (`FFmpegKit`, `FFprobeKit`), the stream and buffer wrapper classes
and the C interface forward to the operations above and keep no state of their
own. Configuration helpers (pipes, fonts, environment, signals), media
information and build information are I/O and accessors. Of `fftools`, the
threads of a transcode are modelled; the parsing of options, the set-up of inputs
and outputs, `ffprobe`, sync queues, looped inputs, the heartbeat of subtitles and
loopback decoders are not. The other ports (Windows, web,
Apple, Android), the plugins (Flutter, React Native), the storage access
protocol, the build scripts and the tests are not modelled. `PROJECT.json`
gives the reason for each.

### What makes each part correct

- A **stream** delivers bytes in order, each once, up to its end and not after
  it. Nobody waits for what has happened. Memory lives as long as anyone can
  touch it, and no longer.
- A **buffer** is a file to FFmpeg, whatever grows or moves underneath.
- A **cancel request** ends the execution it is for, and no other.
- A **message** is stored once and in order unless it is above the log level when
  its turn comes, its count drops when it has had its turn, and shutdown and exit
  leave no loop behind.
- **Shutdown** returns to every caller, and `true` means that everything has
  stopped for good.
- The **history** list and map agree, and each listener hears of each deletion
  once.
- A **thread queue** is one ordered channel per stream, each with one end, and
  nobody sleeps through a wake-up.
- A **transcode** writes every output stream packet by packet in order or is
  aborted, keeps the outputs in step, and comes to its end with every thread
  joined.

The hazards that threaten these are listed in `PROJECT.json` with their lines.

## 2. The modules

| Module | Models |
|---|---|
| `FFKitStream` | one stream, the threads of sessions, applications and owners around it |
| `StreamFifo` | what a stream promises: a bounded queue with an end; `FFKitStream` has the refinement mapping |
| `MCFFKitStream` | symmetry for TLC |
| `FFKitStreamProofs` | theorems about `FFKitStream`, the refinement among them |
| `FFKitMemory` | one memory buffer, its handles and owners |
| `MemoryFile` | what a buffer promises: a file with atomic reads and writes |
| `MCFFKitMemory` | arguments and offsets for TLC |
| `FFKitMemoryProofs` | theorems about `FFKitMemory`, the refinement among them |
| `FFKitSessionMap` | `sessionMap`, executions, requests and sweeps |
| `FFKitSessionMapProofs` | theorems about `FFKitSessionMap` |
| `FFKitDelivery` | messages, the log level, loops, switching, discard, exit |
| `MCFFKitDelivery` | the levels at which sessions log, for TLC |
| `FFKitDeliveryProofs` | theorems about `FFKitDelivery` |
| `FFKitLifecycle` | executions, workers, callbacks, shutdown |
| `FFKitLifecycleProofs` | theorems about `FFKitLifecycle` |
| `FFKitHistory` | history and delete listeners |
| `FFKitHistoryProofs` | theorems about `FFKitHistory` |
| `ThreadQueueOps` | a thread queue as a value: what its critical sections do to it |
| `ThreadQueue` | the threads and the condition variable around one queue |
| `StreamChannels` | what a queue promises: one bounded channel per stream; `ThreadQueue` has the refinement mapping |
| `Sublists` | the part of a sequence that stands at a set of positions, for `FFKitHistory` and `ThreadQueue` |
| `ThreadQueueProofs` | theorems about `ThreadQueue`, the refinement among them |
| `Scheduler` | the tasks of a transcode, connected by `ThreadQueueOps`, and the main thread |
| `Transcode` | what a transcode promises: every output stream in order, and all of it when it is done |
| `MCScheduler` | small pipelines |
| `SchedulerProofs` | theorems about `Scheduler` |

Conventions. A variable has the name of the C++ variable it models; `pc`,
`loop`, `switcher`, `stopper` and `coordinator` say where a thread is between
two critical sections. One action is one critical section of the code, so an
interleaving of actions is an interleaving the mutexes permit; a mutex that is
kept across several actions is a variable (`lock`, `mutex`, `sessionMutex`,
`redirectionMutex`). Atomics are one action per access. An operator whose
definition ends in the comment *mutant* is a plausible mistake in the operator
that follows it. Nothing uses it; putting it in the other one's place breaks a
property, which shows that the property depends on that line of the code.

### FFKitStream

`Register` to `Free` follow one stream from registration to `ffkit_stream_free`,
and then the next. A session opens in two steps (`Begin` under both mutexes,
`OpenSucceeds` or `OpenFails` after the allocation) and reads or writes; an
application thread enters (`ffkit_stream_find_and_retain`), reads or writes, and
leaves (`Release`). `WriteChunk` and `ReadChunk` are one turn of the copy loops,
which keep the mutex; `WriteWaits` and `ReadWaits` are the waits on the two
conditions, from which `Broadcast`, `TimesOut` or a `SpuriousWakeup` returns.
`Cancel` and `WakeSessions` are the two halves of a cancel request, first the
slot and then the streams. `Unregister` and `MarkUnregistered` are the two
halves of unregister. Bytes are model values and calls are short, but ring
arithmetic, wraps, partial transfers and results are the code's.

### FFKitMemory

Handles open in two steps, as above. `Write` decides as the code does: fail on
overflow, store, or grow. Growth (`Grow`, `Reallocate`, `ReallocateFails`)
keeps the mutex. Integers wrap at `MaxInt`, which stands for `INT64_MAX`, and
memory from `malloc` and `realloc` holds `Junk`, which no `Byte` equals.

### FFKitSessionMap

A session goes from created to completed along `ffmpegExecute`,
`executeFFmpeg` and `ffmpeg_execute`; an ffprobe (`Probes`) claims a slot and
never looks at it. `Transcoded` is the evaluation after `transcode()`, `Finish`
the one at the `finish` label, which errors before `transcode()` reach
directly. `CancelSession` may come at any time, since `Session::cancel` looks at
a state that no lock protects. `Sweep` is one turn of the loop of
`cancelAllSessions`, run by the application and by shutdown.
`asked` is a history variable: when a session was cancelled, *early* (state
Running, slot not claimed) or *live*.

### FFKitDelivery

`Log` and `Enqueue` are apart because FFmpeg reads its log callback before the
line is queued. Two levels decide about a line. The session's own
(`av_log_get_level`, a thread-local of FFmpeg that `-loglevel` sets) decides whether
it is queued: `LevelsOf` are the levels it lets through, any subset of `Levels` with
stderr's. The application's (`configuredLogLevel`), which `SetLogLevel` changes at
any time, decides at the line's turn whether `process_log` stores it (`Store`) or
returns at once (`Filter`, line 1495), without a callback. Either way the message is
counted down when it has had its turn (`Deliver`). `filtered` is a history variable:
the messages dropped so. A message has its number among those its session queued, by
which the properties tell messages apart. Statistics take the same way and pass no
level check; to the queue, the counts and the loops they are lines of level stderr.

A loop checks, takes, stores or drops, calls back and comes round;
switching is cut where `redirectionMutex` is released and, while it is held,
between the steps that loops can see (the count, the thread, the hooks).
`Discard` is `discardQueuedMessagesWhenIdle`, called by shutdown and by every
loop that leaves. `Exit` and `ExitJoins` are the destructor of
`callbackThreadShutdown`, run by an application thread or from a callback that
calls `exit`.

### FFKitLifecycle

Any session may be executed on the thread that asks or submitted to a worker.
`Claim` is the start of the worker's lambda in the three states of the library.
`Notify` and `Notified` are `beginCallback` and `endCallback` around the session's and
the global completion callback. Loops are here only as far as shutdown counts
them. A caller of `shutdown` may be an application thread or a callback that
is running (`Deep`, which stands for `libraryWorkDepth > 0`); `Begin` to
`Answer` are the call, `Terminate`, `Clear` and `CleanedUp` are
`finishShutdown`, on its own thread or, when that cannot be created, inline and
without waiting (`hurried`). Deadlines are events that may happen at any time
after shutdown has begun, the grace before the cleanup.

### FFKitHistory

Every critical section on the history and on the listener list is one action,
and calls of listeners lie outside of both. A listener can be locked while the
application or a notification holds it (`Alive`). Ids are never reused. What
`remove_if` leaves of the list (`Others`) and what a walk over the weak listeners
leaves of theirs (`Live`) is a `Sublist`: the entries at the positions that stay,
placed by counting positions. It is the sequence `SelectSeq` gives, in a form
about which the prover can reason.

### ThreadQueue

A queue is a record (`ThreadQueueOps`), so that the same operators serve one queue
with its waits and the many queues of a scheduler. `index` and `items` are the two
fifos of the code: they differ after an item could not be stored
(`WriteFails`). `Receive` is `receive_locked`: the oldest item still wanted, else
the end of one stream, else the end of all. In `ThreadQueue`, everything a call
does between two waits is one action under the lock; `SendRefused` is apart
because `EINVAL` is looked at before the loop only, and `Signalled` wakes the
senders only when the number of items has changed.

### Scheduler

What is connected to what is a value, `net`, chosen in `Init`, so the module and its
theorems cover every pipeline of demuxers, decoders, filtergraphs, encoders and
muxers in which filtergraphs feed encoders and encoders feed muxers, and every
input has exactly one source, as `sch_connect` and `start_prepare` see to
(`ConnectedAssumption`). Left out are decoders that feed encoders directly, as those
of subtitles do, and filtergraphs without inputs. A task's
thread is cut where it blocks, where it takes or gives up `mux_ready_lock` or
`schedule_lock`, and where it sends or receives. Since `ThreadQueue` shows who
waits for what, waiting for a queue is a guard here.

- *Sending.* `StartSending` and `Advance` take an item to the destinations of its
  stream in turn; one that answers EOF is told the end (`SendFinish`) and skipped
  from then on. To a muxer, `MuxCheck` reads `mux_started` without the lock,
  `MuxQueue` reads it again with it, `MuxSend` writes, and `MuxSchedule` reports the
  end of the packet, its time stamp plus its duration (`fftools/ffmpeg_sched.c:2061`); a packet without a
  time stamp reports nothing and makes no schedule. What is reported therefore goes
  back when packets overlap, as the cues of subtitles do, although their time stamps
  ascend; `reported` is a history variable with all that a stream has reported.
  `FilesAssumption` asks nothing of the order. The frame that opens the last encoder of a muxer starts the muxer's
  thread and flushes its pre-muxing queues (`EncOpen`, `MuxFlush`, `MuxFlushed`,
  `MuxStarted`) while that thread already reads.
- *Ends of its own.* Whether a packet is past the recording time of its file is part
  of the packet. A muxer is told the end instead of such a packet, and its stream
  ends there, while decoders get the packet and go on (`PastEnd`,
  `DEMUX_SEND_STREAMCOPY_EOF`). An encoder whose recording time is over (`take`
  frames) ends its loop without an error while frames still come (`Encode`); its
  filtergraph learns of it from the queue.
- *Scheduling.* `Schedule` is `schedule_update_locked`. `SourceOf`, `GraphsBelow` and
  `WithDownstream` are its mutually recursive walks, as functions on the tasks.
  `FirstOuts` is the code's habit to look at the first destination of a stream
  alone. `WithDownstream` is the least set of tasks closed under the step the code
  recurses on, which is what the recursion visits.
- *Filtergraphs.* `FilterChooses` and `FilterTakes` are the two halves of
  `filter_thread`'s loop, with the control stream of its queue as `NoInput`. What
  libavfilter makes of frames is external: a round takes one frame of each open
  input and makes `yield` frames. `FilterFrames` is `read_frames`, which asks
  whether the output has been told the end on entry only: the call in which that
  happens drops the frames left in the sink, asks the graph for another and goes back
  to `sch_filter_receive`, where the thread may wait once more before it finishes.
- *Ending.* `TaskDone`, `TaskExit` and the muxers' own exits are the `*_done` functions
  with `task_wrapper`; any task in `mayFail` may fail at any step. `Wait`, `Cancel`,
  `ChokeAll` and `Join` are the main thread of `transcode`, which joins the tasks kind by
  kind.

## 3. The runs

| Run | Instance | Shows |
|---|---|---|
| `stream_safety` | 1 session, 1 application thread, 2 owners, capacities 2 and 3, two byte values, requests up to 2 bytes, allocation may fail; symmetric | ring, life time, freeing, wake-ups, `CancelSparesApps`, `EndIsFinal`; the stream implements `StreamFifo` |
| `stream_liveness` | 1 session, 1 application thread, 1 owner, capacities 1 and 2 | `NothingLeaks`; cancelled calls and calls on closed streams return (`CallReturns`) |
| `cancel` | 3 slots, two FFmpegs and an ffprobe | `CancelIsHeard`, `OnlyWhenAsked`, `ShutdownReachesAll`, `ShutdownStopsFFmpeg` |
| `cancel_early` | 3 slots, two FFmpegs | finding: `RunningIsCancelled` fails |
| `delivery` | 2 sessions that share a slot, 2 messages in all, of levels info and stderr, the level set to info or quiet at any time, 1 switching thread, 2 generations | `TransitCounted`, `ZeroMeansDelivered`, `ExitStopsLoops`, `AllDelivered`, `ShutdownDrains`, `ExitReturns` |
| `delivery_overlap` | 1 session, 1 switching thread, 2 generations | finding: `OneLoopDelivers` fails |
| `lifecycle` | 1 session, 1 application thread, 1 loop, each a possible caller of shutdown | `TrueMeansStopped`, `OneCoordinator`, `HistoryStaysEmpty`, `NoCallbackAfterGrace`, `ShutdownReturns`, `WorkersEnd` |
| `history` | 2 threads, 3 sessions, size 2 at first, then 1 (0 and 3 are refused), one listener that stays, one that comes and goes | `TypeOK`, `MapMatchesList`, `ToldOnce` |
| `memory` | 2 handles, 2 owners, blocks up to 2 bytes, integers up to 5 | `InBounds`, `NoJunk`, `NoUseAfterFree`, the buffer implements `MemoryFile`, `GrowthEnds` |
| `thread_queue` | 2 senders, sizes 1 and 2, two items, choking at any time; with size 1 memory for an item may run out | `NoLostWakeup`, `EndsArrive`; the queue implements `StreamChannels` |
| `scheduler` | eight pipelines, queues of 1, pre-muxing queues of 3, tolerance 1 | `PreMuxDrained`, `InStep`, `StopHolds`, `TranscodeEnds`; the scheduler implements `Transcode` |
| `sched_second_sink` | one pipeline of five packets | finding: `NeverStuck` fails |

Every module but `Scheduler` has its type invariant as a theorem (`TypeCorrect`). TLC
checks it again in the `history` run only, where `setSessionHistorySize` could push the
size past `SESSION_MAP_SIZE`. `Scheduler` has no type invariant:
its records are of a shape that depends on the net, and what the proofs need of
it is part of their invariant. Every property of a passing run has a mutant in
`PROJECT.json`.

### Why the bounds are enough

- *Streams.* One user of each side and two owners make every kind of last user
  meet: a closing handle, a leaving application thread, and unregister.
  Capacities 2 and 3 with requests of 2 bytes give full, empty and wrapped rings,
  transfers in two chunks, and copies cut by the end of the ring and by the size
  at once. Two byte values tell orders apart.
- *Memory.* With integers up to 5, positions, sizes and requests reach
  overflow, the maximum and the gap behind a seek within a few calls. The
  doubling sees maxima that are a power of two times the capacity and others.
- *Session map.* Two FFmpegs and one ffprobe with slots of their own, both
  sweeps, and any number of requests at any moment. The theorems below cover
  every size.
- *Delivery.* Two generations are one switch off and on, which is all that two
  loops need to meet, and two messages are what two loops can hold. They may be of
  one session, so that their order shows, or of two that share a slot, so that a
  count of zero has to mean both. One level that info lets through and quiet does not,
  and one that nothing holds back, are the outcomes of the level check; a line can be
  queued under one level and have its turn under the other. More slots, sessions and switching threads are the theorems' matter.
- *Lifecycle.* One of each kind is already four callers of shutdown in any
  order; the theorems cover any number.
- *History.* Three sessions at sizes 1 and 2 make evictions overlap with
  deletions of the same session by the other thread.
- *Thread queue.* Size 1 makes each of two senders wait for the other's item; the
  receiver can give either up at any time, and two items tell orders apart.
- *Scheduler.* The eight pipelines are: video transcoded next to audio copied, with
  three packets of audio, behind which their end may not fit into the
  pre-muxing queue, and with a muxer that takes one less; a stream that is decoded
  and also copied up to the recording time, which its last packet is past, and the
  same with that packet alone, cancelled; video alone cut by its filtergraph, with an
  encoder that ends by itself while its filtergraph has frames left, and with a
  decoder that fails; two files copied to two outputs, with packets that overlap in
  one, a packet without a time stamp in the other and the second file failing; two
  streams into one filtergraph that takes one frame of the second. Queues of size 1 are the tightest and make each
  send block that can. A tolerance of 1 is less than the distance at which two
  files run apart without it, and than the distance by which the overlapping packets
  make a stream go back (it reports 1, 4, 3 and 4). The length of a file is what exceeds a full queue,
  pre-muxing queue or tolerance by one.

`CHECK_DEADLOCK FALSE` is set for two modules. In the delivery runs the process is
over once it has exited with all messages logged. In the scheduler's a muxer whose
stream's end was lost waits for ever (see the notes below), which is where the
real program stops too; every other stop is ruled out by `TranscodeEnds`.

### Fairness

Safety is checked without any. The liveness runs assume that threads run and
nothing about the application, which need not call, switch, cancel, shut down,
or register anything, nor let a deadline pass.

- *Streams:* strong fairness for a thread that asks for a mutex again and again
  until it gets it; weak fairness for steps that nothing disables. A session
  closes its handle in the end, as avformat does. Time-outs need not expire.
- *Session map:* weak fairness for the steps of an execution and of the sweeps.
  FFmpeg need not end by itself, but ends once it polls a request: `transcode`
  looks after each wait of `stats_period`, and blocked I/O through
  `decode_interrupt_cb`.
- *Delivery:* weak fairness for every loop, for a switching thread that has
  begun, and for exit; strong fairness for the shutdown that waits for
  `redirectionMutex`. Callbacks return.
- *Lifecycle:* the same; an execution ends once it has been cancelled, which
  the `cancel` run shows for FFmpeg (an ffprobe that never ends would defeat
  it, since nothing polls for it).
- *Memory:* a thread in the middle of a write goes on.
- *Thread queue:* a sender in a call goes on, and the receiver calls again. Nobody
  has to send, to finish or to unchoke.
- *Scheduler:* one weak fairness condition for all threads together (`Progress`):
  some thread that can go on does. That is less than fair scheduling of the
  threads gives, so what holds under it holds in the program. No task has to
  fail and nobody has to cancel.

## 4. Findings

- `cancel_early`. `Session::cancel` "cancels running the session"
  (`Session.h:259`) and acts when its state is Running. The state becomes
  Running in `startRunning`, before `registerSessionId` stores 1 into the slot
  (line 1686), whatever it holds. A request in between is overwritten and the
  session runs to its end.
- `delivery_overlap`. The comment at line 146 says that the loop of an earlier
  redirection ends "instead of running next to the new one". It compares
  generations between messages only (line 1622), so it finishes the message it
  holds next to the new loop, and both may append to one session's log list,
  which has no lock.

- `sched_second_sink`. The comment at `fftools/ffmpeg_sched.c:1361` says that
  filtergraphs downstream of a demuxer are unchoked "to prevent it from getting
  stuck trying to push data to a full queue". `unchoke_for_stream` follows the
  first destination of each stream alone (line 1412; `dst` is an array of which it
  takes the first element), and `choke_demux` does the same (line 1445). With a
  stream that is copied first and decoded second, for a filtergraph that makes
  two frames of one, the filtergraph stays choked while another output is the
  trailing one: its queue fills, the decoder and the demuxer block, and the
  trailing stream, later in the same file, never comes.

Three things were met that no document of the repository denies, so they are
noted and not counted as findings. An end that does not fit in a full pre-muxing
queue is lost: `mux_queue_packet` refuses the NULL as it refuses a packet, and
`demux_stream_send_to_dst` and `enc_send_to_dst` look away when they finish a stream
(`fftools/ffmpeg_sched.c:2140-2147`, `2541`), after which the muxer waits for that end
for ever; `EndLost` names this state, and `TranscodeEnds` excepts it. When
`tq_send` cannot store an item its stream index stays in the other fifo
(`fftools/thread_queue.c:186`), and later items come out under the wrong stream;
`SendFails` has the step (the queue of size 1 of the run may take it), and
`StreamChannels` promises nothing once it is `broken`. And two sessions
whose ids are `SESSION_MAP_SIZE` apart cancel each other, since a request goes to
slot `sessionId % SESSION_MAP_SIZE` (line 714) whoever owns it; what is
checked and proved about cancellation is under the premise `OwnSlots`.

Two more differences were read in the code and have no run, since the models do
not follow what they are about: `getLastCompletedSession` returns the latest
*created* of the completed sessions (lines 2828-2841, `FFmpegKitConfig.h:486`),
and completion callbacks are called for sessions that were deleted (lines
2459-2543, `FFmpegKitConfig.h:501-502`).

## 5. The proofs

TLC checks small instances; the theorems below hold for every value of the
constants that the assumptions named `...Assumption` admit: finite sets of
threads that do not overlap, positive capacities, and a positive number of
slots. They have three shapes: an invariant, `Spec => []Property`; an action
property, `Spec => [][...]_vars`; and a refinement, `Spec => Abstract!Spec`, where
the initial states map to initial states and every step to a step or a stutter.
Each rests on an invariant `IInv` of its module and a lemma `Inductive` that
every step keeps it.

### FFKitStreamProofs

| Theorem | States |
|---|---|
| `TypeCorrect` | `TypeOK` |
| `RingStaysInStep` | `RingInStep`: size and both positions are consistent for every capacity |
| `NeverUsedAfterFree` | `NoUseAfterFree`: `openCount` counts exactly those who can touch the stream, and one thread frees it |
| `NeverLeaks` | `NothingLeaks` |
| `NoWakeupIsLost` | `NoLostWakeup` |
| `CancelWakesSessionsOnly` | `CancelSparesApps`: the wake-up of a cancelled session spares the application's waits |
| `EndStaysFinal` | `EndIsFinal` |
| `StreamIsAFifo` | `ImplementsFifo`: the stream implements `StreamFifo` |

The invariant `IInv` has four groups. *References*: what `NoUseAfterFree`
and `NothingLeaks` say, together with who is in the registry and
which thread is between the two halves of unregister. `NoUseAfterFree` alone is
not inductive: that a closing thread is the last one follows from the count only
if the count is exact, and that nobody else frees follows only if `unregistered`
is set after the stream has left the registry. The argument is the same for every step that moves a
thread (it keeps the holders, adds one with a count, or removes one with a
count), so it is made once for each kind of move and cited for each action.
*Ring*: positions, size and capacity, which a chunk keeps because it
never passes the end of the ring, so that wrapping is at most one subtraction
(`WrapOnce`). *Types*: split by groups of variables, each with the
actions that change it. *Waits*: `NoLostWakeup`, which needs the references (a
stream is only replaced when nobody waits on it) and is preserved because each
action that makes a waiting condition false broadcasts in the same critical
section, or has put the session into `waking` first.

For the refinement, the bytes of the ring from the oldest on (`Contents`) are the
queue, what a writer has left and what a reader has got are the buffers of
`StreamFifo`, and a stream that is closed, ended by its writer or not there has
ended. `WriteChunk` is `Put` and `ReadChunk` is `Take`: the lemmas about the ring
show, position by position, that a copy of consecutive cells with a wrap behind it
is a concatenation or a cut of `Contents`. `Register` and `Free` are `Renew`, which
needs that only an ended stream is freed; the starts and ends of calls are `Call`;
waits, opening and unregistering are invisible but for the end they set. `IInv` does not
suffice: that the buffers of a thread in no call are empty, that only writers have
something left to write and only readers something read, and that an unregistered
stream is closed is `CallInv`, which is proved on top of it.

### FFKitSessionMapProofs

| Theorem | States |
|---|---|
| `TypeCorrect` | `TypeOK` |
| `NoCancelIsLost` | `CancelIsHeard` |
| `NoStrayCancel` | `OnlyWhenAsked` |
| `ShutdownMissesNone` | `ShutdownReachesAll` |

The last three are properties under `OwnSlots`: sessions that can overlap have
slots of their own. Nothing in the code ensures it. The invariant says that an execution's slot is never
idle while it is live (`Held`), that a live request stays in the slot until the
return code is settled (`Kept`), that a request in the slot of an execution was
made for it (`Meant`), and that an execution that the sweep of shutdown has
passed either holds a request or has yet to look at the state (`Swept`). The
last one is why `executeFFmpeg` looks at `shutdownState` after it has claimed
its slot.

### FFKitLifecycleProofs

| Theorem | States |
|---|---|
| `TypeCorrect` | `TypeOK` |
| `ShutdownRunsOnce` | `OneCoordinator` |
| `ClearedForGood` | `HistoryStaysEmpty` |
| `TrueIsTrue` | `TrueMeansStopped` |
| `GraceIsFinal` | `NoCallbackAfterGrace`: after the grace no callback starts, of whatever kind, and the library never leaves that state |

None of the middle three is inductive. `TrueMeansStopped` needs that the four
counters are the cardinalities of what they count (`Counts`), so that zero means
that nobody is left, and that the cleanup of a stopped library is over only when
a coordinator is done (`Truth`), which is what empties the history.
`HistoryStaysEmpty` needs `Locks` and `Phases`: a session that saw the library
running under `sessionMutex` keeps that mutex until it has inserted itself,
`clearSessions` takes the same mutex after the state has changed, and whoever
comes later sees the change. The same argument with `redirectionMutex` shows
that no loop starts behind `Stop`, which takes that mutex to switch the
redirection off. `OneCoordinator` needs `Alone`: only the caller that moved the
state away from Running goes on to spawn the coordinator. `GraceIsFinal` is about
steps: every way into a callback asks `beginCallback`, and no step but the one that
starts shutdown changes `shutdownState` before the grace is over.

### FFKitMemoryProofs

| Theorem | States |
|---|---|
| `TypeCorrect` | `TypeOK`: no count below zero, no overflow of a position, capacity or size |
| `AlwaysInBounds` | `InBounds` |
| `NeverShowsJunk` | `NoJunk` |
| `NeverUsedAfterFree` | `NoUseAfterFree` |
| `BufferIsAFile` | `ImplementsFile`: the buffer implements `MemoryFile` |

*References*: `openCount` is the number of holders exactly, one owner at most is
between the two halves of unregister, and so the last user of a marked buffer is
alone when it frees it. *Mutex and write* (`MutexOK`, `WriteOK`): the handle in
the middle of a write is the one that holds the mutex, what it asks for is
representable and at most the maximum, and the capacity it computes is between
the present one and the maximum, because doubling stops at half of it. That
gives `InBounds`, and with it `NoJunk`: what a store does not write is a gap that
it fills or was below `size` before. Overflow needs no bound on the instance:
`AddFits` shows that the checked addition is exact whenever the check passes.

For the refinement, `Register...` and `Free` replace the file, which nobody has
open then; `Store` is the write, wherever its buffer was grown; the other steps
of a write and of opening, and unregister, are invisible. `StepIsAFileStep` has
one step per action, and `ReadIsFileRead` and `StoreIsFileWrite` compute that
bytes, length and position agree.

### FFKitDeliveryProofs

| Theorem | States |
|---|---|
| `TypeCorrect` | `TypeOK`: no count below zero |
| `TransitIsExact` | `TransitCounted` |
| `ExitLeavesNoLoop` | `ExitStopsLoops` |
| `ZeroIsDelivered` | `ZeroMeansDelivered` |

`TypeOK` needs that `activeDeliveryLoops` is a cardinality: of the loops that count
themselves, and of one that is counted and not started yet (`CountInv`), whose
switching thread keeps `redirectionMutex` (`SwitchInv`). `TransitCounted` is
kept by the discard because with no active loop nobody holds a message
(`NobodyDelivers`). The lemmas `PlacesOf...` count the messages of a slot in a queue;
counting places, not filtering the queue, is what keeps them free of induction.
`ExitStopsLoops` needs that a loop which is neither unstarted nor finished is in
`callbackThreads` until the exit handlers have joined it (`LoopInv`).

`ZeroMeansDelivered` says that a session's count of zero means that everything it
queued has been dealt with: its log and what was dropped for its level make up the
numbers it queued, share none, and the log has each once; nothing of level stderr was
dropped. It rests on `Numbered`, about which numbers are where. Queued messages of a
session ascend (`Queued`); what a loop is about to store is below those that wait
and held by no other loop (`InHand`); what is done, stored or dropped, is below those
that wait and in no hand (`Before`), stored once and not dropped as well (`Once`); and
until the discard every number that was accepted is done, queued or in a hand
(`Complete`). `StoreIsDone` is the step on which all depends: whichever way the level
check goes, one number moves from a hand to what is done, and only one that is not
stderr's can be dropped (`Spared`). With a count of zero nothing is queued or in a
hand, by `TransitCounted`. While the first generation is the only one, one loop stores, and what it
holds is above all that is logged (`InOrder`), so the log ascends.

### FFKitHistoryProofs

| Theorem | States |
|---|---|
| `TypeCorrect` | `TypeOK`: no size reaches `SESSION_MAP_SIZE` |
| `ListAndMapAgree` | `MapMatchesList` |
| `EachDeletionIsToldOnce` | `ToldOnce` |

`MapMatchesList` is nearly inductive: it needs that the list has no duplicates, and
that a session is not yet in the history when its creator adds it. The latter is
`CreatedOK`: an id that has been taken and not yet added belongs to one thread and
was never added. `ToldOnce` needs to know who is going to tell what. `DeletedOK`: what
a thread still has to tell has left the history, and no two threads have to tell
the same, because whoever takes a session off the map takes it under the mutex.
`ListenersOK`: a walk over the weak listeners loses none that is held and
doubles none. `ToldOK`: a listener that has been told of a session whose
thread is not done with it has been passed by that thread (`Past`), so it is not
told again. `Reached`: of every session that has left the history, each listener
that stays has been told, or has one thread that is not yet past it.

The first lemmas are about sequences without duplicates and their `Sublist`s, all by
counting: how many of a set of positions are below a given one.

### ThreadQueueProofs

| Theorem | States |
|---|---|
| `TypeCorrect` | `TypeOK`: the fifos stay within the size, the items never ahead of the indices |
| `NoWakeupIsLost` | `NoLostWakeup` |
| `QueueIsChannels` | `ImplementsChannels`: the queue implements `StreamChannels` |

The first two also hold when items cannot be stored. The point of the second is that a receive
which takes nothing wakes nobody although it may set finished flags: it does so
for streams whose senders have finished and wait no more, and dropping items
always changes their number.

For the refinement, the channel of a stream is the `Sublist` of the fifo at the
positions that carry its index, and empty once the receiver wants no more of it. An
item that is written comes last in its own channel and in no other
(`SublistGrows`); what `receive_locked` drops from the front belongs to streams no
longer wanted, and the item it takes is the first of its channel
(`SublistDropped`); an end is told when the fifo holds nothing that is wanted, so its
channel is empty. None of this needs an induction over the fifo: a sublist is determined
by the ranks of its positions, and a rank is a cardinality.

### SchedulerProofs

| Theorem | States |
|---|---|
| `PreMuxIsDrained` | `PreMuxDrained` |
| `StopIsFinal` | `StopHolds` |
| `CopiesStayInStep` | `InStep`: a stream copied from a file of its own runs ahead of no other by more than the tolerance and a packet |
| `NobodyRunsOn` | `NothingRunsOn`: when `sch_stop` has returned no thread runs |

For every net that `NetsAssumption` and `ConnectedAssumption` admit, whatever fails or
is cancelled. `CopiesStayInStep` also takes it that packets have time stamps, if
any, and durations that are natural numbers (`FilesAssumption`; in any order,
overlapping or not) and that the tolerance is positive (`ToleranceAssumption`;
`SCHEDULE_TOLERANCE` is 100 ms).
`PreMuxDrained` needs `MuxInv`: a thread in the middle of a start holds
`mux_ready_lock`, and once it is past the flush nothing is left; others queue only
with the lock and after they have read `mux_started` again. `StopHolds` needs
`QueueInv`: a queue is frozen only as the first decoder of some demuxer's stream, so
unfreezing those of all demuxers unfreezes all; and `StopInv`: `terminate` is set
before, and a schedule made after it changes nothing. `NobodyRunsOn` needs
`JoinInv`: a kind that was joined stays ended, because a muxer is the only task that
starts late, it is started by an encoder, and encoders are joined before muxers.

`InStep` is about a demuxer with one destination, a muxer, while that stream is
unfinished and nobody stops: whatever the stream has reported but its latest is less
than the tolerance ahead of a time that each other unfinished stream *has reported*. It bounds how
far a file may run ahead, which is what choking is for. It does not say "of the
trailing stream's time", which the code does not keep: the trailing stream may report an
earlier time than before, when packets overlap, and what was within the tolerance
is then seconds ahead of it. What the schedule does ensure is that each packet was let
through on the word of every other stream.

Two facts carry it. First, such a demuxer is unchoked only while its
output stream is *wanted* in the latest schedule, that is, less than the tolerance ahead of
the trailing one, and that schedule knows the packet the demuxer sent last, because
`send_to_mux` makes one before it returns, unless the packet has no time stamp and
changes nothing. No walk from another stream leads to such a demuxer, since every
input has one source; and the rule that unchokes one source when no stream wants
anything (`AtLeastOne`) does not apply while a stream is unfinished, since the
trailing one is wanted (`SomeoneWants`, which needs a positive tolerance). So when
it sends a packet, all that its stream has reported is covered (`WantingCovered`), and
the report of that packet leaves one time at most that is not. Second, what is
covered stays so: streams only finish, and only add to what they have reported
(`CoveredStill`). `InSync` says this of one demuxer at each of its places, and
`SyncInv` of all; next to it, the invariant `SInv` has that a thread is at a muxer, or
in the flush of one, only when its destination says so (`PlaceInv`), that what a
filtergraph asks for is an input of it or none in particular (`GraphInv`), that what demuxers and
encoders send is a packet with a time and a duration (`ItemInv`, through the queue of
an encoder to the frames of its filtergraph), and that a stream's time in the schedule
is the last it reported (`DtsInv`). `SInv` is inductive relative to `IInv`.

### What the prover does not show

Liveness (`CallReturns`, `ShutdownStopsFFmpeg`, `AllDelivered`, `ShutdownDrains`,
`ExitReturns`, `ShutdownReturns`, `WorkersEnd`, `GrowthEnds`, `EndsArrive`,
`TranscodeEnds`) is out of its reach and checked by TLC only. So is one refinement,
`ImplementsTranscode`: that a transcode is complete when it is done is a statement about
all that has gone through decoders, filtergraphs and encoders, which depends on what
these make of a whole file. All other invariants and action properties of the
passing runs, and the refinements of streams, buffers and thread queues, are
theorems. The theorems speak of the models: that an
action is the code between two locks is a reading of the source, which the
table of `PROJECT.json` lets a reviewer repeat.

## 6. What is only model-checked, or not modelled

- *Only model-checked:* all liveness properties, and `ImplementsTranscode`.
- *fftools, left out:* sync queues (`sync_queue.c`, which `-shortest` and frame limits put
  before the encoders or the muxer of one output), looped inputs, the heartbeat of subtitles, SDP files, `-fs`,
  filtergraphs that feed filtergraphs or have no input, encoders that feed decoders,
  decoders that feed encoders (subtitles). A time is a number, and an encoder's
  packet is one long; units of time and their conversion are left out, and so is what
  the set-up of a file does to time stamps before they are sent. The
  parsing of options and `ffprobe` are sequential and hold no shared state.
  What codecs, filters and formats do is external.
- *Signals.* `received_nb_signals`, with which a signal handler ends an execution next
  to a cancel request (`fftools/ffmpeg.c:1055`, `:1298`), is left out of the session map
  and the scheduler. It is a thread-local of the executing thread and can only end
  an execution earlier, with the return code of a cancelled one: what is said of
  executions that end as cancelled is said of runs without a signal.
- *The other ports and plugins* repeat the modelled algorithms on another platform
  layer, or forward messages to them; the share of the whole repository that the
  table maps is small because that code is there five times.
- *Left out on purpose:* real time (time-outs are events); the contents of
  messages, arguments and results beyond what properties tell apart; session
  fields that are read without a lock while others write them (a data race
  with outcomes that no model of the code can bound); requests that fail and
  change nothing; getters.
- *Known and not a property:* a handle that cannot be allocated leaks an
  unregistered stream or buffer (lines 945-949 and 1156-1161: `OpenFails`, and
  the premise of `NothingLeaks`); a failed copy in `getFFmpegKitOutputBuffer`
  leaves two mutexes locked (line 2143).

## 7. Plan

In the order of their worth.

1. The parts of `ImplementsTranscode` that are not about whole files: that the muxers
   write each stream in the order in which its source sent it, for every pipeline.
2. Sync queues between the encoders of one output, and their place in `Scheduler`.
3. The web port's request-reply protocol between page and worker
   (`ffmpegkit.worker.js`), and the storage access map of the Android port.
4. A composition of session map, lifecycle and scheduler, to discharge the
   assumption that an execution ends once it is cancelled: `cancel` shows that
   FFmpeg's main thread leaves its loop, `scheduler` that it then stops every task.
