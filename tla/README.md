# SDR++ Brown/Black in TLA+

TLA+ models of the concurrent core of SDR++: the streams and blocks every signal flows
through, the chains that are rewired while it flows, the buffers and the merger with threads
of their own, the selection and probing of sources, the session of the network server, and the way
settings reach the disk. TLC checks the models on small instances; TLAPS proves the central properties for
all of them.

## 1. The system

SDR++ moves samples from a source (a receiver, a file, a server) through a graph of DSP
blocks to sinks (sound card, network, files) and to the FFT display. Every block has a worker
thread; neighbouring blocks share a double-buffered `stream`. The user interface, network
threads (rigctl, the SDR++ server and its client) and the scanner start, stop and reconfigure
blocks while their neighbours run. Modules (sources, sinks, decoders, tools) are loaded and
unloaded at run time, talk to each other through events and named interfaces, and keep their
settings in one JSON file each.

| component | state | operations | hard because | correct means |
|---|---|---|---|---|
| **Stream** `dsp/stream.h` | two buffers, `canSwap`, `dataReady`, stop flags, `nReaders` | `swap`, `read`, `flush`, `stop*`, `clear*` | two mutexes and condition variables for one handshake; notify after unlock; stops from a third thread | frames once, in order, untorn; no lost wakeup; stops return |
| **Block** `dsp/block.h`, `processor.h`, `sink.h` | `running`, `tempStopped`, `tempStopDepth`, worker, `ctrlMtx` | `start`, `stop`, setters in `tempStop … tempStart` | several control threads, nested brackets, join while the neighbours wait | worker exactly while running; setter finds it stopped; operations return; frames conserved |
| **Chain** `dsp/chain.h` | `links`, `states`, `_in`, `out`, `running` | add, remove, enable, disable, `setInput`, start, stop | rewires running blocks step by step | one reader per stream at each step; path in list order |
| **Settings** `config.cpp` | `conf`, `changed`, autosave, the job, the worker's list, files | `acquire`, `release`, autosave on/off, `save`, destructor | four kinds of mutex, a shared worker with a back pointer, failing disk, crashes | file always whole; changes saved; no dangling manager |
| **Ring buffer, reshaper** `dsp/buffer/` | fill counts, cursors, stop flags, latency | blocking `read`, `write`, stop; `setKeep`, `setSkip` | copies outside the locks; two counts under two mutexes; stop flags set outside them | a queue within its latency; frames in step; stops return |
| **Frame buffer** `dsp/buffer/frame_buffer.h` | ring of frames, two cursors, `bypass` | `run`, `worker`, `flush`, start, stop, `IQFrontEnd::setBuffering` | full ring not detected; stop flag outside the mutex; bypass switched while running | frames in order, overflow loses what it must and no more |
| **Merger** `dsp/routing/merger.h`, splitter | bound streams, received data, priorities | bind, unbind, `run`, stop | rebind while running; wait without predicate; detached feeder threads | keeps forwarding while anybody brings data; stop returns |
| IQ front end, VFOs `signal_path/iq_frontend.cpp` | chain, splitter, VFO map, FFT branch | rates, decimation, VFOs, preprocessors | brackets without `ctrlMtx`, several blocks at once | all blocks configured for the same rate, all restarted |
| **Source manager** `signal_path/source.cpp`, `gui/menus/source.cpp` | sources, selection, play state, probe worker | register, select, unregister, play, poll | device probe outlives the selection; notifications that select again | no probe into an unloaded module; one selection; changes noticed |
| Sink manager `signal_path/sink.cpp` | streams, providers, indices | register, unregister, set sink | indices into a list that changes | each stream has a live sink and its provider's index |
| **Server** `server.cpp`, **connection** `utils/networking.cpp` | `client`, `running`, the source; read queue, `connectionOpen` | accept, packets, START, STOP, samples, close | three threads, one global pointer, no lock; joins from callbacks | the client is read; nobody outlives its connection; the server accepts again |
| Modules, events, interfaces `module.cpp`, `module_com.cpp`, `utils/event.h` | registries | load, unload, bind, emit | handlers that unbind while an event is emitted | nobody calls an unloaded module |
| Scanner `misc_modules/scanner` | `running`, `receiving`, `tuning`, frequency | start, stop, 10 Hz loop | ends by itself, restarted by the user | restarts cleanly, stays in its range |
| Radio, recorder, GUI, drivers | – | – | I/O, arithmetic, drawing | not modelled, see section 6 |

They interact in four ways: a **stream** between two blocks (data and back pressure); **calls**
from control threads into blocks, under each block's `ctrlMtx` (setters, `start`, `stop`);
**callbacks** - `onOutputChange` of a chain rewires the splitter behind it, events tell modules of
retunes and unloads; **jobs** on the worker that saves settings.

The hazards of this code, each at its line with the properties that would catch it, are in
`PROJECT.json`. Those without a property say why.

## 2. Modules

**FrameChannel** - what a stream promises: a slot for one frame, `Put`, `Take`, `Release`.

**Stream** - `dsp::stream` and its users. One action is one critical section of `swapMtx` or
`rdyMtx`. A thread in `condition_variable::wait` is in a `...Wait` step; a notification, an action
of its own because the code notifies after unlocking, moves it to `...Wake`, where the predicate
is evaluated again; so does a spurious wake-up. `writer` and `reader` are the workers of the two blocks,
`writerCtl` and `readerCtl` the threads that call `doStart` and `doStop` on them (`stopReader`, its
polling of `nReaders`, `join`, `clearReadStop`). A buffer holds a frame identity; `dataSize`, the
sample count, is that same identity, so a count that belongs to another frame shows. `sent` and `got` are
history. Clearing a stop flag takes no lock in the code; the thread that could look at it has been joined by then.

**StreamProofs** - the theorems about Stream, section 5.

**Pipeline** - a source block, processors and a sink in a line. Blocks are numbered, stream `s` joins
`s` and `s + 1`. The streams are those of Stream, one step per critical section, with a guard where Stream has a
condition variable: that this loses nothing is what `NoLostWakeup` says. `worker[b]` is the step of `run()`,
`op[t]` the step of control thread `t` in `start()`, `stop()` or a setter; the whole operation holds
`ctrlMtx[b]`. A setter opens up to `1 + MaxNest` brackets, as setters that call setters do. `crashed` records an
assignment over a joinable `std::thread`. Frames are numbered by the source; a processor passes each on
(a rate changer that produces nothing from a frame is left out). The source's
`run()` is external: real sources also read from a device.

**MCPipeline** - Pipeline with the control threads as a symmetry set.

**PipelineProofs** - the theorems about the life cycle of Pipeline's blocks and about the frames in the line, section 5.

**Chain** - `links`, `states` (the set of enabled blocks), `in`, `out`, `running` are the
members of `chain`; `input[b]` and `started` are what matters of each processor, `consumerIn` what the
block behind the chain reads. The code looks up the neighbours and then makes its calls one after the
other with everything running, so an operation puts its calls into `todo`, and each is a step. `pending` is the loop
over the list in `enableAllBlocks` and `disableAllBlocks`. A block's `setInput`, `start` and `stop` are atomic:
Pipeline covers their inside. `addBlock(b, true)` occurs only while the chain is set up, as in the callers. Calls that
`blockExists` answers with an exception, and enabling what is enabled, are left out where they change nothing. `start` and `stop` of a
chain compute their calls from the list, as the code's loop over `links` and `states` does. **ChainProofs** - section 5.

**Config** - `ConfigManager` and `ConfigSaveWorker`. `pc[t]` is the step of each thread; taking a mutex
that another thread may hold is a step with a guard. `changed`, `autoSave`, `jobManager`, `queued` are the fields of the
same name; `jobs[m]` counts the entries of a job in the worker's list, `elapsed` says that its due time is past. A
settings object is a version number, 0 is one half changed or a file cut off. A save is `Open`, `Write`, `Sync`,
`Rename`, `Saved`, any of which but the last the disk may refuse. `durable[m]` is what a power cut may leave at the
path: everything renamed there since the last restart, cut off when it was renamed before `fsync` returned. `Kill` keeps the
file as the program saw it. Either is followed by a restart that loads what is there. The owner is the thread
that loads and unloads modules: `enableAutoSave` at load, `disableAutoSave` and `save` at unload, and the
destructor when no client is between `acquire` and `release` - a client that has released may still be about to queue the job.
**ConfigProofs** - section 5.

**SampleQueue** - what a ring buffer promises the threads at its ends: `Put`, `Take`, `Release`, a limit on the length.

**RingBuffer**, **Reshaper**, **MCReshaper** - `RingBuffer<T>` has two ends that are mirror images, each with a count, a mutex, a condition variable and a
stop flag, so one definition with the end as a parameter stands for both. The copies are steps of their own, outside the
locks, and `count["read"]`, `count["write"]` change in two further steps, as in the code. `hold` is the moment inside
`condition_variable::wait` when the predicate was false and the mutex is not yet released: the stop flags are set without the mutex, so a
stop can be notified there and be missed (`missed`). Reshaper supplies the two threads and `doStop`; a sample is its number. `Queued` and `Held`
are the queue it stands for: the readable samples from the cursor on, and what the reader has copied and not yet counted. **ReshaperProofs** - section 5.

**LossyQueue** - what the frame buffer promises: order, at most `Limit` frames, one more or a flush throws all away; one frame at a time is
`leaving` (in `out.writeBuf`, not swapped), and with the bypass a frame goes past the queue only while nothing is inside. If the
bypass is switched on over frames that are inside, the frames that pass may overtake those until they have left (`mixed`).

**FrameBuffer** - the ring of whole frames with `workerThread` (`run`), `readWorkerThread` (`reader`), the user interface that
flushes, starts and stops it, and the same `hold`. The two streams outside are reduced to when `read` and `swap` return. `SetBuffering` is
`IQFrontEnd::setBuffering`: the file source switches the bypass on when it is selected and off when it is deselected, by an assignment, while both
threads run. With the bypass `workerThread` fills and swaps `out.writeBuf` (`Pass`, `Passed`), and `readWorkerThread` goes on with what waits in
the ring (`Take`, `Swap`): switched on over waiting frames, both do so at once and the frames that pass overtake. In the program `selectSource` replaces the input right
after the switch, which stops and restarts the two threads and keeps the ring; the model lets that restart come at any later time. `Mixed` is a function
of the state; the refinement says that only `SetBuffering(FALSE)` makes it true. **FrameBufferProofs** - section 5.

**Merger** - each bound stream has a feeder, numbered in the order they were started; a feeder that was unbound lives on until its `read` returns.
`received[f]` counts pieces of data, `recent` says that less than `SWITCH_DELAY` has passed since data was forwarded. The worker's wait has no
predicate: a notification moves it only from `waiting`. Nobody in the program restarts a stopped merger, so `stopped` is final.
The vector that `unbindStream` erases from while `run` iterates over it is undefined behaviour; each pass of the model
takes the list as it is.

**Sources** - the UI thread (registration, selection, menu, play button, and `poll` for every frame) and the probe worker. A call of the UI
thread is one action, except `unregisterSource`, which waits for a probe in between. `list[h]` is what a module offers in its menu, `devices`
what is connected. `DebugServer` says whether the debug server's source-change request is used, which does not look at the play state. **SourcesProofs** - section 5.

**Connection** - `ConnClass`: the queue of read requests, the read worker, `close` with its join, and the socket (`shut` from here, `gone` at the other end).

**Server** - the session. Three kinds of threads use the global `client`: the listener's worker (`_clientHandler`), the read worker of each
connection (`_packetHandler` and its commands) and the worker of the sample sink (`_testServerHandler`). Each access to the global is
a step; through a client that was reset in between it is a null pointer, and `crashed` ends the behaviour. The body of a packet is read from whatever
is client by then (`from`). A client object that is destroyed while another thread is inside one of its functions is not modelled: a handler
that reads the rest of its packet from another connection stays in that connection's `read` for as long as nothing comes, and what it finds there
after the object is gone is undefined. **ServerProofs** - section 5.

Definitions whose name contains an underscore and a hint (`FlushReady_KeepsFlag`) are mutants: plausible wrong
versions of the definition they stand in front of. No action uses them; each shows, when put in place of that definition, that a
property can fail.

## 3. Runs

| run | instance | states | shows |
|---|---|---|---|
| `MCStream` | 2 frame identities, 4 frames sent | 59,688 | `FrameIsStable`, `NoLostWakeup`, `StoppedIsOutside`, `ImplementsChannel`, `StopReturns`, `BothGetOn` |
| `MCPipeline` | 3 blocks, 2 control threads, 5 operations, 2 frames, brackets two deep | 364,861 | `WorkerIffRunning`, `NeverTerminates`, `QuietInsideBracket`, `FramesConserved`, `StreamsAreChannels` |
| `MCPipelineLive` | 3 blocks, 1 control thread, 5 operations, 2 frames | 68,735 | `OperationsReturn`, `FlowsAgain` |
| `MCChain` | 3 blocks, 2 inputs | 153,222 | `OneReader`, `NoNullInput`, `WiredInOrder` |
| `MCConfig` | 1 manager, 2 clients, 3 versions, 1 crash, 1 refusal, 1 unload, 1 read | 66,498 | `FilesAreWhole`, `Unreachable`, `ChangeIsPending`, `FileMovesForward`, `ChangesAreSaved`, `EverybodyReturns` |
| `MCReshaper` | ring of 4 samples, frames of 1 or 2, overlap or gap of 1, 6 samples in | 431,006 | `CopiesApart`, `FramesSlide`, `NoLostWakeup`, `ImplementsQueue`, `StopReturns` |
| `MCFrameBuffer` | ring of 4 frames, 7 frames in | 545,134 | `NoLostWakeup`, `ImplementsLossyQueue`, `StopReturns` |
| `MCSources` | 3 modules, 2 of them probed, 2 sets of devices, 2 changes, 1 failing probe | 1,111,356 | `NoProbeIntoUnloaded`, `OneSelection`, `OnlySelectedStarted`, `ChangesAreNoticed` |
| `MCSourcesPlug` | 2 modules, 1 change | violated | `PluggedInShowsUp` does not hold |
| `MCServer` | 2 connections | 202,187 | `ClientIsRead`, `NoneIsLost`, `AcceptsAgain`, `GoneIsNoticed` |
| `MCServerIdle` | 3 connections | violated | `IdleIsSentAway` does not hold |
| `MCMerger` | the radio's stream and one player, 2 binds, 2 pieces of data | 235,978 | `StopReturns`, `KeepsFlowing` |

The two violations are disagreements between the code and its comments:
- `MCSourcesPlug`: without a signature the probe worker only remembers the first answer (`source.cpp:113`), so a device plugged in before it, while
  another source was selected or the menu closed, is never shown, although the menu says that plugging it in with the application open is enough
  (`gui/menus/source.cpp:389`).
- `MCServerIdle`: when a client drops out after START and another takes its place, `_clientHandler` stops the source but leaves `running` set
  (`server.cpp:319`), so the new client, which never started anything, is protected like one that streams and newcomers are rejected. The
  comment at `server.cpp:308` says that an idle client is sent away.

**Bounds.** `MaxSent`, `MaxFrames`: a stream holds at most one frame, and the writer another; with four frames both buffers have been
written, read and overwritten, and the two identities tell neighbouring frames apart. The bound is a guard of the swap, so the writer
waits there and can still be stopped. `MaxOps = 5` lets two threads start all three blocks and then stop or reconfigure two of
them while frames are in flight; six operations (1.4 million states without symmetry) showed nothing new.
Three blocks are a source, a sink and one block with neighbours on both sides. Three blocks in a chain are the least in which
"the nearest enabled block" and "the first" differ. `MaxReads` bounds acquisitions that change nothing: `std::mutex` is not fair, and a client
that took and released it for ever could keep everyone else out.
The ring of 4 samples wraps around at every place with frames of 1 and 2 samples, and a latency of twice that, so that it is full to the last
cell with frames of 2 and not with frames of 1; the frame buffer's 7 frames wrap around its ring of 4, overflow it, and leave some to pass before, between and after those that wait. In Merger, more pieces of data or a third bind (which starts a feeder beside an orphan of the same stream) add
states of the same kind. Two connections are a client and a newcomer, in every order of take-over, loss and clean-up; a third is needed only
to reject someone after a take-over, hence `MCServerIdle`. The bounds on versions, crashes, refusals and unloads keep the state space finite; one crash is enough because a
restart leads to a state that differs from the initial one by the version numbers and the bounds' counters only.

**Stopping.** `CHECK_DEADLOCK FALSE` in the Pipeline, Config, Server and Merger runs: with the bounds used up and everything
idle, a manager destroyed, the server crashed or without connections left, or the merger stopped, there is nothing left to do. The others
are checked for deadlock.

**Fairness.** Weak fairness for each worker and each control thread: the operating system schedules them, and
each, once it can take its next step, remains able to (the guards are mutexes and condition predicates that no other
thread falsifies for ever within the bounds). In Config also that time passes. No fairness for beginning an operation,
for spurious wake-ups, for the disk's refusals or for crashes. `FlowsAgain` assumes that the line is finally left alone.
In Reshaper, FrameBuffer (both threads) and Merger no fairness for the `swap` of the block, whose reader may never come: `doStop` has to
return all the same. In Sources the open menu polls for ever, as it does for every frame drawn. In Server a started source produces, and
nothing is assumed of the clients: they may send, be silent or vanish.

**What the code is allowed.** A save that the disk refuses is not tried again before the next change (`changed` is cleared first,
`config.cpp:86`): `ChangeIsPending` and `ChangesAreSaved` exempt that case with `failed`, and say so.
`StopReturns` of Reshaper, FrameBuffer and Merger exempts the one stop whose notification falls between a waiter's check and its sleep (`missed`): in
that window of the code `doStop` may join a thread nobody wakes. `AcceptsAgain` exempts a server that crashed through the null
pointer and a handler that reads the rest of its packet from the connection of the client after its own.
`ImplementsLossyQueue` exempts what the code really mixes: from the bypass being switched on over frames in the ring or in `out.writeBuf`
until those have left, frames that pass overtake them and two threads share `out.writeBuf` (that
`latest` never goes back is false of the model, by a few steps). What waits keeps its order even then, and nothing but that switch begins it: switching the bypass off is safe, because `run` swaps the frame that
passes before it reads the next one.
`OnlySelectedStarted` is checked and proved without the debug server; with it (`DebugServer = TRUE`) the source that plays can be
deselected and left started.

## 4. Properties worth knowing

- `FrameIsStable` (Stream): while a block processes a frame, the buffer is the one of the count `read()` returned, although the
  pointers are swapped under a mutex the reader does not hold.
- `FramesConserved` (Pipeline): every frame ever produced is in exactly one place - in a block's hands, in a stream, dropped by a
  stopped `swap()`, or delivered - at every step of every restart.
- `WorkerIffRunning`, `QuietInsideBracket` (Pipeline): nested brackets, starts and stops of several threads leave a worker exactly when
  `running` says so, and never one inside a setter.
- `OneReader` (Chain): no step of any rewiring gives a stream two running readers.
- `WiredInOrder` (Chain): the comment at `chain.h:165` tells of the bug this would have caught; the mutant `BlockBefore_First` is that bug.
- `FilesAreWhole`, `ChangeIsPending` (Config): crashes and refusals at any step; no change is forgotten.
- `CopiesApart` (Reshaper): the two `memcpy`s of the ring run without a lock and never touch the same cell.
- `FramesSlide` (Reshaper): frames keep their distance and overlap over wrap-arounds, partial reads, restarts and changes of shape.
- `ImplementsQueue`, `ImplementsLossyQueue`, `StreamsAreChannels`: the rings and streams are the queues their users take them for.
- `NoProbeIntoUnloaded` (Sources): the worker is inside a module without any lock but `probeMtx`; unloading waits for it.
- `NoneIsLost` (Server): whatever the three threads do to the pointer, a living read worker belongs to a connection somebody will close.
- `KeepsFlowing` (Merger): notifications are missed and preferred streams are silent, and still the worker forwards.

## 5. Proofs

StreamProofs proves, for every set of frames and every `MaxSent`: `TypeCorrect`, `Stability`, `Order`,
`Wakeups`, `StoppedOutside`, and `Refinement` (`Spec => ImplementsChannel`). Assumptions: `NoFrame` is not a frame, `MaxSent` is a
natural number.

The argument is one inductive invariant, `StreamInv`, in parts:
- *custody*: `canSwap`, `dataReady` and the steps of the two workers say together whose turn it is. The writer between its two
  critical sections, the flag `dataReady`, and a reader that has not finished `flush()` exclude each other, and one of them is there exactly when
  `canSwap` is false. This is what `FrameIsStable` lacks: it says nothing of how a frame got there.
- *contents*: the two pointers point to different buffers; while a frame is in custody, `readBuf` holds `dataSize`;
  while the writer waits to swap, `writeBuf` holds `size`.
- *history*: `got` is `sent`, or `sent` without its last element exactly while a frame waits.
- *stopping*: `nReaders` is 1 exactly while the reader is inside `read()`, and what each step of the control threads implies
  about the stop flags and the workers.
- *wakeup*: `NoLostWakeup`.

Each part has a lemma that every step preserves it, with one step per action; `Invariance` puts them together. The
refinement maps the slot to `canSwap`/`dataSize`, `held` to the reader's steps and `taken` to `got`; `SwapBuffers` is `Put`, `ReadReturn`
with data is `Take`, `FlushCanSwap` is `Release`, and all other steps stutter.

PipelineProofs proves, for every number of blocks, every set of control threads and all bounds: `WorkerIffRunningHolds`,
`NeverTerminatesHolds`, `QuietInsideBracketHolds`. Assumptions: at least two blocks, `"none"` is not a thread, the bounds are natural numbers.
The three properties speak of blocks that nobody holds, or of one step of an operation; none is inductive. `LifeInv` adds
- *holding*: a thread inside an operation, and only such a thread, holds its block's `ctrlMtx`;
- what each step of an operation *knows* of its block: it is settled at `start()` and `stop()`, settled or in a bracket at
  `tempStop()`, running with a worker until `join`, without a worker after it, and in a bracket when the setter makes its change. In a bracket
  `tempStopped` says whether the block runs, which is why the outermost `tempStart()` knows whether to restart it.

The steps of the workers keep it because no worker appears or is gone by a step of its own (`WorkerKeeps`). A step of a control thread touches
one block, which no other thread holds, so it is enough to look at that thread and that block (`Local`); one lemma per
operation does so.

`LineHolds`, `FramesConservedHolds` and `StreamsAreChannelsHolds`, for a line of any length, need a second invariant, `LineInv`, on top of `LifeInv`:
- *custody*, for each stream as in StreamProofs: the writer between its two critical sections, `dataReady` and a reader that has not
  flushed exclude each other, and exactly then `canSwap` is false. A block holds a frame only at certain steps of its worker (`Roles`);
- *order*: of two frames in the line the one nearer to the sink is the older one, wherever they are (`InOrder`), and what a stream has delivered is older
  than all that is still in front of it (`TakenInOrder`). The property needs this because a block that is stopped inside `swap()` drops its frame:
  what comes behind must still be newer than what has passed, and nothing may come twice;
- *account*: each number up to `produced` is in somebody's hands, in a stream, dropped, or has left the last stream, and a dropped one
  is nowhere else (`Accounted`).

The parts about frames are operators of the five quantities they speak of (`LineOK(hands, waits, taken, lost, made)`), so that one lemma for each way a
frame can move - made, put into a stream, given to a reader, dropped, consumed by the sink - serves all the actions; actions of the control threads
move none, and here `LifeInv` is needed: they start a worker only in a block that has none.

ChainProofs proves, for every set of blocks and inputs: `ChainHolds`, `OneReaderHolds`, `NoNullInputHolds`, `WiredInOrderHolds`. Assumption: blocks, inputs and
`None` are different. The code finds neighbours by position; the proof speaks of the order of the list (`Prec`) and proves that the code's searches
find the nearest enabled neighbours. `ChainInv` says what is left of the current operation (`todo`) and for which path the
chain is wired meanwhile: `Wired(l, S, R, s, reads)` - the blocks `R` read what they should on the path that `S` form, fed from `s`. While a block is enabled the
others go from the path without it to the path with it at the call that moves the reader behind it, one call before the block itself is wired;
between the two it is not started. One lemma adds a block to a path (`Join`), one removes it (`Leave`); the rest is where each operation begins and ends. `OneReader`
follows because two blocks that read the same stream on one path would be between each other.

FrameBufferProofs proves, for every size of the ring and every number of frames: `NoLostWakeupHolds` and `Refinement` (`Spec => ImplementsLossyQueue`).
The arithmetic of the cursors comes first (`Between`, the number of frames from one cursor to the other, and how a put and a take change it, by cases on
the wrap-around); `Inv` says that a reader about to sleep saw an empty ring or that `run` is about to notify, and which stops are set at which
step of `doStop`. It says nothing of the bypass, which may be switched at any time. The refinement needs that a put writes a place no waiting frame is in (`PlaceOfNext`), and that filling the last place makes the
cursors meet, which is the abstract queue's loss. A frame that passes does so alone unless `Mixed`, and every step but `SetBuffering` leaves `Mixed` as it is or ends it:
`run` tests the bypass again only when it has swapped what it passed, so that nothing it puts in the ring meets a frame that passes (`PassRefines`, `LeaveRefines`,
`SwitchRefines`, one lemma for each kind of step).

SourcesProofs proves, for every set of modules and devices: `NoProbeIntoUnloadedHolds`, `OneSelectionHolds`, and, assuming `DebugServer = FALSE`,
`OnlySelectedStartedHolds`. The invariant `Reach` adds that the worker's target is loaded (`InSight`) and that a module on its way out is no longer the target,
so that no new probe of it begins while the old one is waited for (`OnItsWayOut`).

ReshaperProofs proves, for every size of the ring, all keeps and skips and every bound on the samples: `CopiesApartHolds`, `FramesSlideHolds`,
`NoLostWakeupHolds` and `Refinement` (`Spec => ImplementsQueue`). Assumptions: the ring has at least one cell, keeps are positive, incoming frames are not empty
(`write` returns from an empty one at once). The invariant:
- *grants*: what an end was granted by its wait stays there until it has taken it, because only it takes from its count (`Granting`);
- *balance*: the two counts add up to the size, except while an end has changed `readable` and not yet `writable`; what is counted in only one
  of them is `Halfway`. The ends are not mirror images there: both change `readable` first, so a writer in that window makes the counts add up to
  more than the size, a reader to less. The first is harmless because a writer takes no new grant before it has counted both, the second is what keeps
  the writer out of cells the reader has only just copied;
- *cursors*: the writer's cursor, moved past what was counted already, is `Inside` places ahead of the reader's, modulo the size. Equal cursors are an empty
  or a full ring, and only the counts tell which;
- *contents*: the `Inside` cells from the reader's cursor on hold the samples numbered up to `made`, and a writer that has copied but not counted has the next ones
  behind them. `CopiesApart` follows from the places being different modulo the size, for which the proofs have lemmas about `%`, since Z3 has
  little of it;
- *frames*: `Before`, the last sample taken before the current frame, computed from what is left to read, to skip and to count; the
  frame so far is the overlap followed by the samples behind `Before`, and the frame before ended `Gap` samples earlier.

For the wakeups, `Awake` says what a sleeper's count was and who is still going to notify it. The writer's predicate reads `readable`, which is
under the other mutex, so it may change between the writer's check and its sleep; then the reader has `writable` yet to count, under the writer's mutex, and the
notification comes after that. For the refinement, `Queued` is proved to be the last `count["read"]` numbers up to `made` (`QueuedIs`); a put
and a release then are facts about such runs of numbers.

ServerProofs proves, for every set of connections and every bound: `NoneIsLostHolds` and `ClientIsReadHolds`. Assumption: `None` is not a
connection. Each property is about connections nobody has just changed, so the invariant says for each of the four places a connection can be
in (`client`, `guest`, `old`, `victim`) at which step of the listener or the sink it is there (`ListenerTurn`, `SinkTurn`), that one in none of them was told to end
(`LeftIsTold`), that a new one is in none (`Fresh`) and a guest in no other (`GuestWaits`), and that a worker which reads a packet's body from somebody else's
connection has been told to end (`OwnBody`): without the last, a request queued for the wrong connection could leave the client unread.
Nothing needs mutual exclusion between the threads: the lemmas are per step of a worker, of the listener and of the sink.

ConfigProofs proves, for every set of managers and clients and every bound on crashes, refusals and reloads: `FilesAreWholeHolds`, `UnreachableHolds`,
`LockedHolds`, `FileMovesForwardHolds` and `ChangeIsPendingHolds`. Assumption: the worker, the owner and nobody are not clients. `FilesAreWhole` speaks of the disk alone; the invariant adds that
whoever is inside `acquire` ... `release` or inside `save` holds the manager's mutex (`Locked`), that half-changed settings are therefore never what `save`
dumps (`Whole`), and what a save has in hand at each step (`Progress`): two saves under way are of different managers, so neither touches the
other's new file, and what is renamed was written to the end and synced. For `Unreachable`, the worker holds the job's mutex while it saves
(`Locked` again), so the last `cancel`, which takes the back pointer away under that mutex, cannot come in the middle of a save; and the owner sets a back
pointer only on a manager that exists (`OwnerKnows`). One lemma (`Quiet`) serves the steps outside the mutexes, one the steps of `save`.
`FileMovesForward` is an action property and needs two more parts: the disk is never ahead of the settings, nor they of the versions made (`Behind`),
and what a save has in hand are the settings as they still are (`UpToDate`), so that a rename replaces a file by nothing older.

`ChangeIsPending` speaks of moments when nobody has the mutex and autosave is on. `PendInv` says what holds at the others: the manager knows of a change
unless somebody has the settings in hand (`Noted`), and while it knows, the job is in the list or somebody is about to queue it (`Pending`); that needs the
mark `queued`, which keeps the job from being queued twice, to be true only while the job is in the list, or the worker or the owner has just taken it off (`Listed`),
and the back pointer to be there while autosave is on (`Pointed`). The owner's `disableAutoSave` and the destructor, which throw jobs away, come
only when autosave is off or the manager dead (`OwnerCancels`).

Every safety property of the runs is proved, the two that are violated apart. Only model-checked are the liveness properties (`StopReturns`, `BothGetOn`,
`OperationsReturn`, `FlowsAgain`, `ChangesAreSaved`, `EverybodyReturns`, `ChangesAreNoticed`, `AcceptsAgain`, `GoneIsNoticed`, `KeepsFlowing`), and so all that
is said of Merger: the prover has no rules for fairness and `ENABLED`. `OnlySelectedStarted` with the debug server is false, and said so above.

## 6. Not modelled, and why

Signal processing is floating-point arithmetic over sample arrays, which TLC cannot enumerate. Drivers, audio back ends,
sockets, FFTW, ImGui and file formats are libraries or wrappers around them. `setBufferSize` and `free` of a stream run while neither side does.
`ConfigManager::load`'s repair of damaged files is sequential, and `FilesAreWhole` says that the program itself never causes it to run.

The sink manager is a table used by the user interface's thread alone. The scanner is a loop of measurements with one worker and a join. The packer and the
prebuffer are sequential copies inside one `run()`, in blocks whose life cycle is Pipeline's; `hier_block` repeats that life cycle over a list. The
front end and the VFOs compute rates and configure the blocks of Pipeline and the chain of Chain; what is hard there, brackets without
`ctrlMtx`, and two threads operating one chain (rigctl against the user interface), are races on plain fields, listed as hazards. Loading and unloading
of modules is a map and `dlopen`; events call a copied list of handlers. The server's commands that only configure, authentication, transmission and
the client module are left out, as are UDP and `connect()` of the networking classes, and what is in a packet: the shared send
buffer, and `write`, which resends from its start after a partial `send`, are hazards of contents.

## 7. Plan

1. Done: Stream, Pipeline, Chain, Config; RingBuffer and Reshaper, FrameBuffer, Sources, Connection and Server, Merger; the proofs of section 5.
2. Proofs: done for the safety properties. Left: invariants of Merger that its liveness rests on (each living feeder is bound or an orphan, and
   what it received is accounted for), and the safety halves of the liveness properties, such as where a stop can still be waiting.
3. FrontEnd: Chain with the unlocked brackets of `setSampleRate` and `setDecimation`; a second thread in a chain; the stale frame of a re-enabled block.
4. Modules with their events: handlers that unbind, or are destroyed, during an `emit`.
