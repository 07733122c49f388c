# TLA+ verification of the Quest virtual display host

The repository turns two KWin virtual outputs into H.264 streams for a headset:
`quest-displays` owns the outputs, `quest-streams` captures, encodes and serves
them on a local TCP port, `quest-headset-watch` starts and stops the former as
the headset comes and goes over USB, and `quest-laptop-display` switches the
laptop's own screens off meanwhile. This directory models that system in TLA+,
checks small instances with TLC, and proves the safety of every component for
every size with TLAPS. Paths below are relative to the repository's `src/`.

Contents: 1 inventory, 2 modules and how they correspond to the code, 3 runs,
bounds and fairness, 4 what is proved, 5 disagreements between code and its
documentation, 6 what is not modelled, 7 plan.

## 1. Inventory

### Components, their state and their operations

| Component | Code | State | Operations |
|---|---|---|---|
| Display host | `host/virtual_display/main.cpp` | lock file, `state.json`, outputs and streams it has heard of, stream errors | connect, inspect KScreen, create, pump, publish state, stop, fail |
| Monitor discovery, launcher | `host/capture/capture.cpp` (`discoverMonitors`), `tools/stream-launcher.py` | what was read of `state.json` | wait for a live host, match its nodes with PipeWire's |
| Capture session | `host/capture/capture.cpp`, `capture.h`, `latest.h` | pool of five frames, queue of two, counters, negotiated memory, error, the `processing` flag | connect; PipeWire's process, format, buffer and state callbacks; `next()`; destructor |
| Intel conversion | `host/encoder/intel_vaapi.cpp` | cache of imported buffers, the outstanding GPU job, a mutex | import, convert within 2 ms, upload, settle, remove a buffer, destructor |
| Video encoder | `host/encoder/video_encoder.cpp`, `devices.h`, `annexb.h`, `nvenc.cpp` | backend, device, converter, last timestamp, cached SPS and PPS | choose a backend and a GPU, encode, flush, prepare Annex B |
| Stream process | `host/stream_main.cpp` | per worker: session, last sample, pending keyframe, clocks; shared: `interrupted`, `failed` | start-up, worker loop, retry on CPU, repeat, join, report |
| Transport | `host/transport/tcp_server.cpp`, `protocol.h` | queue, bytes, connected/disconnect/waiting flags, pending write | `publish()`, `takeKeyframeRequest()`, the server thread, destructor |
| Headset mode | `host/stream_main.cpp:176-196`, `tools/laptop-display.py`, stop hooks in `host/*.service` | enabled outputs, `laptop-display.json`, client seen, `laptopOff` | off, on, watch the client, systemd's stop sequence |
| Headset watcher | `tools/headset-watch.py` | `attached`, `missing_since`, `displays_running`, pipe of listings | attach, return, detach, restart tracker |
| Receiver | `tools/receiver.py` | last timestamp per stream | check header, first keyframe, timestamps |

### How they interact

- The watcher starts and stops `quest-displays.service`; `quest-streams.service`
  is bound to it and ordered after it (`After=`, `BindsTo=`, `PartOf=`), so on a
  stop the streams and their hook finish first.
- The host tells the streams its nodes through `state.json`, written atomically
  and read without a lock; PIDs and node numbers in it can be stale.
- In `quest-streams` there are PipeWire's data thread and control thread, one
  worker thread per stream, the server thread and the main thread. Data thread
  and worker share a frame pool, with a mutex around the queue and reference
  counts on the frames; both, and the control thread, call the converter of the
  worker's encoder, under that converter's mutex. Workers and server thread
  share the packet queue under one mutex, which `publish()` takes twice, and a
  few atomics. Workers stop each other through `failed`.
- The main thread starts `quest-laptop-display` as a child; the same program is
  the stop hook of both units. They share one file without a lock.

### What is hard

Concurrency (five kinds of threads, six programs), ordering (events of KWin
and adb, one after the other and late), crashes (every program may be killed
between two steps, and leaves lock, file, outputs behind), timeouts (2 s write,
2 ms conversion, 10 s first frame, 1.5 s/4 s headset mode, 3 s grace), limits
(pool of 5, queue of 2, 12 packets, 16 MiB), identifiers that are used again
(PIDs, nodes, addresses, descriptors), fallbacks (DMA-BUF to CPU, Intel to
NVENC). `PROJECT.json` lists each hazard with its line and properties.

### What makes each correct

- Transport: every client gets, per stream, a line that starts with a keyframe
  and has no hole; nothing queued for one client reaches the next; slow, gone
  and new clients are all dealt with; the server stops.
- Capture: a frame in use is never written; the pool never starves; every
  buffer goes back, unless the GPU may still read it; counts add up; teardown
  does not deadlock and errors surface.
- Intel conversion: what is converted is the buffer at hand, however addresses
  and descriptors are reused; no memory goes while the GPU reads it; the
  real-time thread never waits for another.
- Stream process: static screens are repeated, keyframe requests answered,
  the fallback happens once, failure of one stream ends all, success is real.
- Headset mode: screens that were switched off come back, only those, and there
  is always some screen.
- Display host: one owner of each output, published state that is its own and
  goes with it; readers capture the right screen.
- Headset watcher: a returning headset has its tunnel, monitors stop after the
  grace period and not before, and follow the headset in the end.
- Encoder: the right backend on the right GPU with the right converter; a
  receiver can join at any keyframe and decodes as if it had been there from the
  start.

## 2. The modules

An operator whose name begins with `M_` is not part of a model: it is a bug that
the operator after it could have had, kept to show that some property would
notice. `PROJECT.json` pairs each property with one. Each component `C` with
theorems has them in `CProofs`.

Four modules are abstract specifications, state machines of what a component
promises and of nothing it does it with; the component's module instantiates its
own with a refinement mapping, and a property of its run says it implements it:

| Abstract | What it promises | Implemented by | Mapping |
|---|---|---|---|
| `AccessUnitChannel` | each client gets every stream from a keyframe on, without a gap | `Transport` (`WireSpec`) | what `send()` has completed |
| `FrameSource` | ever newer pictures, each at most once, of one kind of memory, that stay what they are while the worker has them; a source that has failed is not asked again | `Capture` (`FrameSpec`) | the contents of the frames of the two samples; where the worker is |
| `BorrowedScreens` | outputs are switched off all at once, only with a Quest screen, given back all at once, and all are back in the end | `HeadsetMode` (`ScreenSpec`) | `enabled`, `dark`, and whether streams or helpers run |
| `VirtualMonitors` | screens of one host, one per monitor; one host serves and is the one that readers are told of; a capture gets each monitor's own screen | `DisplayHost` (`MonitorSpec`) | `outputs`, the hosts that serve, the process in `state.json`, the reader's streams |

### `AccessUnitChannel`, `Transport`, `MCTransport`

`AccessUnitChannel` is the abstract specification: a client is connected or
not, and receives access units such that each stream starts with a keyframe and
goes on without a gap (`Decodable`). `Transport` is the implementation. Its
steps are the critical sections and atomics of the code: `publish()` is
`PublishCheck` (first lock; the worker's encode is part of it) and then
`PublishEnqueue` or `FrameInvalid` (frame outside the lock, second lock);
`closeClient()` is `CloseSocket`, part of whichever step calls it, and
`ResetLink`, its critical section. The loop of `run()` is `Leave`,
`HonourDisconnect` or `Dequeue` at its top, then `Poll`, `AcceptClient` or
`RefuseClient`, and `HangUp`, `Send`, `SendFails`, `Idle` or `Timeout`. Between
any two of them workers and peers move. The mapping to the channel is
`up <- client`, `received <- received`: what the channel delivers is what
`send()` has completed.

An access unit is its stream, its number (for the timestamp), whether it is a
keyframe, and its framed size; `send()` may take any number of its bytes. Time is
one bit, "two seconds without progress".

### `Capture`

One session with three threads. The data thread's `onProcess()` is `Enter`,
`Lock` or `LeaveEarly` (the `processing` flag), `Dequeue` repeated until the
newest buffer is in hand (`Drained`), then `consume()` as `DropEmpty`, `TooSmall`,
`Throw`, or `PickFrame`, `Write` or `ConversionFails`, `Push`, and `Return`.
Frames of the pool are alike, so which free one is taken does not matter
(`AnyOf`). The control thread's callbacks are `StateStreaming`, `StreamError`,
`StreamEnded`, `FormatChanged` and `AddBufferFails`. The worker's are the
constructor (`Connect`, `ConnectFails`), `next()` (`Next_`, `Take`,
`NothingTaken`), `Encode` (the sample becomes the one kept for repeats), and the
destructor in its order: thread-loop lock, `processing`, destroy. A picture is
its number, so `contents` says which picture a frame holds. A `FrameSource` has
neither frames nor threads; in the mapping, a picture is what its frame holds at
that moment, so a data thread that wrote into a frame in use would change the
worker's picture, which no step of the source does.

Assumed of the libraries: PipeWire renegotiates only while the data thread is
outside its callback; `pw_stream_destroy()` waits for a running one; encoders run
with a depth of one frame and hold no surface after `encode()` has returned.

### `IntelVaapi`

The converter, seen by its three callers. A DMA-BUF is a number of its own and
the number of its descriptor; the producer may give back the address of a
`spa_buffer` and the kernel that of a descriptor, so a cache keyed by address
(`imports`) can be asked for a buffer it has never seen. The control thread's
`AddBuffer`, `AddBufferImports` and `RemoveBuffer`, `BufferRemoved` are the two
callbacks; the data thread's `OnProcess`, `Import`, `Convert` and `Converted`,
`ConvertTimesOut` or `ConvertFails`, `Return` or `Throw` are what `Capture` has as
`PickFrame` and `Write`; the worker uploads CPU pictures (`BeginUpload`,
`Uploaded`, `UploadFails`), leaves a session (`LockProcessing`, `Settle`,
`SettleReturns`, `DestroySession`), goes on with the same converter on CPU
pictures after a failure, and destroys it. Calls that wait for the GPU while they
hold the mutex are two steps, and `GpuFinishes` comes when it comes.

### `StreamWorker`

Start-up (`StartUp`; `Started`, `StartFails` of each worker), the loop of each
worker (`LoopTop`; `NextSample`, `RetryOnCpu` or `CaptureFails`; `Submit`,
`SubmitFails`, `NoFrames` or `Waits`; `Finish`), and the main thread's `Join`.
Clocks are ages in seconds that stop growing when no test in the code can tell
them apart. `next()` waits at most 250 ms, so a tick needs a turn of every worker
before it.

### `HeadsetMode`

KScreen's outputs, the saved file, the two units and three helpers. A helper is
a program of steps: `off` is query, merge with what is saved, truncate, write,
disable; `on` is read, enable, unlink. A query may fail and then lists nothing
(`Listings`), a command may fail half-way (`CommandFails`). The helper that is a
child of `quest-streams` vanishes between two steps when its unit is signalled.
The watching loop is `Turn`, `HelperReturned`, `LoopEnds`; systemd's part is
`StopStreams`, `StreamsExit`, `StreamsHookDone`, `StopHost`, `CrashHost`,
`HostHookDone`. `dark` is history: what a helper has disabled and no helper has
enabled since. In `BorrowedScreens` borrowing and giving back are one step each,
those of the helper's KScreen commands; the file, the query and the other steps of
a helper change nothing there, and after a fault only the union of what is on and
what is borrowed is promised.

Of systemd is assumed: a stop of the host waits for the streams and their hook;
`ExecStopPost` runs when no process of its unit is left, also after a crash;
nothing orders the hooks when the host dies by itself.

### `DisplayHost`

Processes that start, compete for the lock, die or stop (`main()` from its
beginning to its ends, `catch` and destructors in the order C++ runs them: in a
normal stop the file goes before the outputs, in a failure after); KWin, which
creates and removes outputs in its own time; the user, who may disable one;
and a reader that takes `state.json` and later lists PipeWire's nodes. Events
reach a process in any part and order (`Pump`); when it connects it gets all that is
enabled then (`Sync`). What it saves is a `Snapshot` of the streams it has, and
the write may fail (`Save` or `Throws`). A dead owner's number may be a new process's: the reader's
test for a live `quest-displays` passes if any lives. Of this, `VirtualMonitors`
keeps the screens, the hosts that serve (a set, which never has two), the
host that readers are told of, and what they capture; that `discoverMonitors()` takes
one reading of the file and a later one of the nodes is one step there.

### `HeadsetWatch`

The loop over adb's listings with every command a step of its own, during which
headsets come and go; the tracker's end loses what is in the pipe; the watcher
may die and be started again. `adb reverse`, `systemctl start` and `stop` may fail or
time out, also with the headset there; the watcher takes no notice of it.
`noTunnel` records that the last `adb reverse` failed although the headset was there,
`missed` that the monitors may run although the watcher believes they do not. A
service is `failed` as long as systemd will start it, and `refused` when it will
not, after a start that failed for good or one too many (`StartLimitBurst`); systemd
may give up at any restart, so its count is not modelled.

### `VideoEncoder`

The constructor's candidates with the render node each is opened on
(`IntelRenderNode` is the first in the order of the paths), the timestamp rule of
`encode()`, `prepareAnnexB()` on access units as sequences of NAL units with
parameter sets that have versions, and `framePacket()` with the checks of the
receiver's parser. `Encode` emits an access unit, a keyframe if one was forced;
`Flush` and `EncodeFails` end the stream. A receiver
joins at any access unit flagged as a keyframe, which is what `Transport`
guarantees it; `whole` is a decoder that has read everything the hardware
emitted. Assumed of the hardware: parameter sets come before pictures, there is
one set of each type in use, and a packet comes out of the call that put its
frame in.

### How they fit

The modules meet at interfaces: `Capture` asks `IntelVaapi` for conversions and
hands samples to `StreamWorker` (there `NextSample`, `RetryOnCpu`,
`CaptureFails`), which drives `VideoEncoder` (`Encode`), whose choice of a
converter is the one `Capture` gets and whose packets `Transport` delivers
(`PublishCheck`), which tells `HeadsetMode` whether a client is connected
(`ClientChanges`). `DisplayHost` provides what `Capture` connects to;
`HeadsetWatch` drives the units of `HeadsetMode`. Each side lets the other do
anything the interface permits.

## 3. Runs

Violations are expected where a run is named in section 5; all others pass.

| Run | Question | Instance |
|---|---|---|
| `transport` | Five invariants under all interleavings, and is it an `AccessUnitChannel`? | 2 interchangeable streams, queue of 2 packets and 3 bytes, sizes 1 to 3 of which 3 cannot be framed, 2 access units each, 2 connections |
| `transport_live` | Lost clients released, newcomers answered, server stops | 1 stream, 2 packets, 3 bytes, 3 access units, 2 connections |
| `capture` | Frames, buffers and counts; `PoolKept`; is it a `FrameSource`? errors and the destructor end the session | the real pool of 5, 2 buffers, 5 pictures, converter present |
| `converter` | Right buffer converted, GPU reads settled, data thread never blocked | 2 addresses, 2 descriptors, 4 DMA-BUFs in all |
| `worker` | Repeats and retry; failure stops all, requests answered | 2 streams, runs of 1 s and without end, patience 0 s |
| `headset` | Outputs back, always a screen; are the helpers `BorrowedScreens`, which also has that only what was switched off is switched on? | 2 physical outputs; the host may crash, commands may fail half-way |
| `host` | State, ownership; are hosts and readers `VirtualMonitors`, which has the right screen? | 2 processes, 2 monitors, 2 node numbers |
| `watch` | Tunnel, grace period; monitors follow the headset | 2 headsets, 4 changes, grace 2 ticks, tracker ends once, watcher dies once, service and commands may fail |
| `encoder` | Backend, device, converter; receiver | 2 versions of each set, 2 GPUs, access units of up to 3 NAL units, timestamps to 3 |
| `headset_crash`, `worker_retry`, `watch_tunnel` | see section 5 | |

`HeadsetMode` records in `faults` that the host has died by itself or a KScreen
command has failed; `NeverLeftOff`, `AlwaysAScreen` and `LaptopReturns` speak of
behaviours up to then, `ScreenSpec` of all, with
less to promise afterwards. `HeadsetWatch` counts `deaths` of
the tracker and `crashes` of the watcher: `TunnelUp` and `DetachOnlyAbsent` speak
of behaviours up to the first that breaks them, `MonitorsFollow` of all in which
the watcher has not `missed` that monitors run. A command that fails is not excused
for longer than the code takes to repeat it: `TunnelUp` excepts a tunnel from the
attempt that failed to the next return, `MonitorsFollow` a start that systemd refused
to the next attach.

### Why the bounds are enough

- Transport: a hole, a mix of connections or a lost count needs two streams, a
  queue that can overflow by packets (two of one byte are two packets and leave
  room for a byte) and by bytes (after one of two bytes there is room for another
  packet, but not of two bytes), with a packet being sent and one in `publish()`'s
  hands, and a second connection after the first. All fit.
  Section 4 removes the bounds for all safety properties.
- Capture: the pool has its real size, which is what `NoStarvation` is about;
  two buffers are enough for one to be superseded, five pictures fill queue,
  encoder, repeat and the frame being written.
- IntelVaapi: two addresses and two descriptors, so that a new DMA-BUF can have
  either, both or neither of an old one's; four DMA-BUFs replace each buffer once.
- StreamWorker: two streams, since workers interact only through shared flags.
  The limits of 10 s and of the run are scaled down and kept different; runs
  without end are checked with runs that have one.
- HeadsetMode: two outputs, so that a command can succeed in part and a
  record can be incomplete.
- DisplayHost: two processes show every overlap of an old and a new owner (the
  lock admits one at a time); two node numbers for two monitors force reuse.
- HeadsetWatch: two headsets for the switch from one to another; four changes
  allow drop, return and a different headset.
- VideoEncoder: `JoinsAnywhere` compares versions for equality, so two suffice;
  an access unit of three NAL units can carry both sets and a picture; two GPUs,
  so that the first need not be the one that matches.

### Deadlock

TLC checks for deadlock except where the system really stops: a destroyed
session (`capture`), a worker that has ended (`converter`), processes that have
all exited (`host`), an encoder that has ended or used up its bounded timestamps
(`encoder`).

### Fairness

Weak fairness of threads (the scheduler runs them), of time passing, and:

- Transport: weak of `run()`'s steps and of the loop's clock, strong of `Poll`,
  since a poll interrupted by a signal (`EINTR`) goes round the loop and signals
  come finitely often. Not of peers or workers. `poll()` failing for good is
  a step nothing promises to avoid, so `ServerAnswers` says what happens without it.
- Capture: of the data thread's steps, of the worker's, whose waits all have a
  timeout, and of `checkError()`, which throws once there is an error. Not of the
  producer or of PipeWire's callbacks.
- StreamWorker: of each worker, of the main thread and of ticks; not of
  `Interrupt` or `NewClient`.
- HeadsetMode: of helpers (KScreen answers), the watching loop, time, hooks, and
  the end of a signalled unit (`TimeoutStopSec`). Not of the client.
- HeadsetWatch: of the watcher's loop, time, adb's first listing, systemd's
  answer to a failed service (it starts it or gives it up). Not of plugging,
  failures or crashes, nor of any outcome of a command.

## 4. What is proved

The eight proof modules prove every safety property that the passing runs check,
and every type invariant, for every value of the constants that the assumption of
the component's module admits. Their layout is the same: the inductive invariant
`IInv` as a conjunction of named parts, a lemma that it holds initially, one lemma
for each part with one step per action, `Invariant` (`Spec => []IInv`), and the
theorems that follow from it. `PROJECT.json` lists them with the properties.

The four refinements are proved as well (`TransportImplementsChannel`,
`CaptureImplementsSource`, `HeadsetModeImplementsScreens`, `HostsImplementMonitors`):
initial states map to initial states, and under the inductive invariant each step
maps to one of the abstract machine or to none. Each abstract machine then has a
theorem of its own that says what its users may rely on (`ChannelIsDecodable`,
`SourceIsInOrder`, `ScreensComeBack`, `MonitorsAreReliable`), proved with no reference
to the component and so for whatever implements it; by the refinement the component
inherits it (`ReceivedIsDecodable` and `EncodesInOrder` are that step).

| Module | Assumption on the constants | Inductive invariant | Theorems |
|---|---|---|---|
| `TransportProofs` | limits are naturals, the queue holds a packet, sizes positive | `TypeOK`, `InvLink`, `InvHand`, `InvWaiting`, `NoSilentDrop`, `LineDecodable`; beside it `InvRequest`, `QueueBooks` | `TypeCorrect`, `LineIsDecodable`, `NothingDropped`, `DeadLinkEmpty`, `PromptStart`, `BooksAreExact`, `TransportImplementsChannel`, `ChannelIsDecodable`, `ReceivedIsDecodable`, `ServerClosesUp` |
| `CaptureProofs` | a pool, buffers; DMA-BUF only with a converter; at least 5 frames for `FiveAreEnough` | `TypeOK`, `InvFrames`, `InvBuffers`; beside it `Account`, `InvTeardown` | `TypeCorrect`, `FramesStayIntact`, `FiveAreEnough`, `MemoryIsKept`, `EveryPictureAccounted`, `CaptureImplementsSource`, `SourceIsInOrder`, `EncodesInOrder`, `DestroysAlone` |
| `IntelVaapiProofs` | descriptors are numbers | `TypeOK`, `InvLocks`, `InvCache`, `InvJobs` | `TypeCorrect`, `ImportIsFresh`, `ReadsAreSettled`, `DataThreadNeverWaits` |
| `StreamWorkerProofs` | finitely many streams, at least one; a known `capture_memory` | `TypeOK`, `InvSession`, `InvEnd`, `RepeatAvailable`, `StaticRepeat` | `TypeCorrect`, `RepeatIsCurrent`, `StaticIsRepeated`, `SuccessIsTrue`, `RequestIsKept` |
| `HeadsetModeProofs` | finitely many outputs, at least one | `TypeOK`, `InvUnits`, `InvNames`, `InvDark` | `TypeCorrect`, `LaptopComesBack`, `SomeScreen`, `OnlyWhatWasOn`, `HeadsetModeImplementsScreens`, `ScreensComeBack` |
| `DisplayHostProofs` | finite sets; no process is called like the absence of one | `InvTypes`, `InvState`, `InvOutputs`, `RightScreen` | `TypeCorrect`, `PublishedWhileServing`, `OutputsHaveOneOwner`, `CapturesRightScreen`, `HostsImplementMonitors`, `MonitorsAreReliable` |
| `HeadsetWatchProofs` | finitely many headsets, a grace period | `TypeOK`, `InvLoop`, `InvListings`, `InvTunnel`, `InvGrace`; beside it `Owned` | `TypeCorrect`, `TunnelComesBack`, `StopsOnlyAbsent`, `NoneForgotten` |
| `VideoEncoderProofs` | versions and GPUs are positive numbers | `TypeOK`, `InvChoice`, `InvStream` | `TypeCorrect`, `NoSilentSubstitution`, `JoinsAtAnyKeyframe` |

Why the strengthenings are needed:

- Transport. That the line stays decodable when `publish()` appends to it needs to
  know that the last access unit of that stream in the line is the worker's last
  one (`NoSilentDrop`), and that a stream which waits has nothing in the line
  (`InvWaiting`). `InvLink` says that the descriptor and the flags agree but between
  `CloseSocket` and `ResetLink`, `InvHand` what `publish()` has between its critical
  sections. `InvRequest` says where the request of a waiting stream is: to be taken,
  taken, or in the keyframe at hand. For `QueueBooks` it is proved that the sum of
  the sizes, a function over the length of the queue, exists and grows and shrinks with
  the queue; the induction is over a set of numbers, by well-foundedness.
- Capture. `InvFrames` adds to `Intact` that the frame being written is nobody's
  and that pictures exist only after `logged`, which is what pins the memory.
  `InvBuffers` counts buffers. `Account` adds to the counts the order of all pictures
  from the repeated one to those still filled. That `Capture` is a `FrameSource` needs
  all three: that a picture in use is not overwritten, that the next one is newer
  than the one kept, and that the memory is renegotiated only while nobody has one.
  `InvTeardown` says who holds `processing` and where the callback can then be.
- IntelVaapi. `InvLocks` says who can be in a call at all (the destructor's locks
  keep two of the three callers out), `InvCache` that what is cached at an address
  is what the producer shares there, `InvJobs` that at most the job the converter
  knows of is unfinished. Without the first, neither of the others is inductive.
- StreamWorker. `InvSession` ties session, converter and retry together,
  `InvEnd` what the end of a worker says about `failed` and its frames.
- HeadsetMode. `InvNames`: every name on record or in a helper's hands is that of an
  output which is on or which a helper has switched off, and none is both. `InvDark`, without faults:
  what is dark is on record, nothing is enabled while something is dark, and what
  each step of a helper has done for the next. `InvUnits` is the order that systemd
  keeps.
- DisplayHost. `InvState`: the file is the lock holder's, or a dead process's;
  `InvOutputs`: outputs that exist are of the holder or a dead process, and a
  process creates only when none exists and gets an output only for what it has asked.
  With `InvState` that makes the server unique and the owner of every screen,
  also when a killed one's outputs are still there as the next one starts.
- HeadsetWatch. `InvListings`: the last listing on its way is the truth.
  `InvTunnel` says what that means for the tunnel (it is there, on its way, or was
  refused), `InvGrace` how the watcher's
  clock and the true absence differ.
- VideoEncoder. `InvStream`: what the encoder has cached is what a decoder has that
  has read everything; with it, a keyframe with its prefix sets a new decoder right.

### Only model-checked

Everything under fairness, which TLAPS cannot prove. Where the argument rests on
something that must never be lost on the way, that is proved for every value of the
constants, and what fairness adds is only that somebody goes on:

| Checked by TLC | Proved with it |
|---|---|
| `RequestAnswered`: a keyframe request is answered | `RequestIsKept`: it goes away only with a frame encoded as a keyframe |
| `AllStop`: a failure or an interrupt ends all | `SuccessIsTrue`: and success is reported only when there was none |
| `SessionEnds`: errors and the destructor end the session | `DestroysAlone`: the destructor and the callback never work on it at once |
| `ClientReleased`, `ServerAnswers`: lost clients go, newcomers are answered, the server stops | `ServerClosesUp`: a server that has stopped has closed its client and emptied the queue |
| `LaptopReturns`: the laptop's screens come back | `LaptopComesBack`, `ScreensComeBack`: nothing is borrowed when the use has ended |
| `MonitorsFollow`: monitors nobody uses go | `NoneForgotten`: they are the watcher's to stop, and it counts |

What a recursive function computes for every input stays with TLC too; the one
sum that a proof needs (`QueueBooks`) is by well-foundedness, as said above.

## 5. Where code and documentation disagree

Three runs have a property that states the documentation's words and that TLC
finds violated; `PROJECT.json` quotes the lines.

- `worker_retry`: the retry on CPU capture forgets to restart the clock of the
  first frame. A DMA-BUF failure later than ten seconds into the run leaves the
  new session a single wait of 250 ms before all streams are given up.
- `headset_crash`: when the display host dies while headset mode switches
  screens off, its stop hook can unlink the record that the streams' hook needs;
  the laptop stays dark.
- `watch_tunnel`: a headset that drops and returns during a restart of the adb
  tracker does not get its tunnel back.

The models show eight more, met as exceptions the properties have to make or as
choices that do no harm:

- `publish()` and the write timeout can both count one connection in
  `slow_client_disconnects` (tcp_server.cpp:73 and :134).
- laptop-display.py checks for a Quest output (:67) long before it disables the
  others (:75); if the display host dies in between, the last screen goes off
  (`AlwaysAScreen` without its exception for `faults`).
- laptop-display.py truncates its record before it writes it anew (:74): a
  helper killed in between loses outputs that an earlier, failed `on` left off.
- A watcher started while systemd waits to restart the monitors (headset-watch.py:68)
  does not adopt them, and never stops them (`MonitorsFollow` without `missed`).
- A restarted watcher counts the grace period from its own start (headset-watch.py:66,
  against "absent for UNPLUG_GRACE seconds" in :5), and stops monitors in use if adb
  is slow to list a headset that is there (`DetachOnlyAbsent` without `crashes`).
- An `adb reverse` that fails or times out while the headset is there is only logged
  (headset-watch.py:45-46, :88-90); `missing_since` becomes `None`, and a headset that
  stays has no tunnel, although README.md:9 says that a return recreates it (`TunnelUp`
  without `noTunnel`).
- A `systemctl start` that systemd refuses is not repeated while the headset stays
  (headset-watch.py:47-48), nor is a service it has given up (`MonitorsFollow` without
  `Refused`).
- A keyframe that carries an SPS but no PPS gets the cached PPS in front of its SPS
  (annexb.h:34-37). Decoders take the sets in any order, and `JoinsAnywhere` holds.

## 6. Not modelled, and why

- Bytes: header layout, start-code search, JSON, command lines. Their
  effect is in the models, their encoding is not.
- `positions()` and `layout` of laptop-display.py: where outputs are placed, not which
  are on. (By reading: when the query inside `on` fails, :84, the outputs are enabled
  without positions, against the comment in :53-54.)
- Options of NVENC other than the device and forced IDRs: they trade bits for
  latency and keep no state. Latency statistics of the encoder.
- Configuration and argument parsing, the launcher's limit of 25 s, `--probe`, the
  lock that keeps a second `quest-streams` out: read or tested once at the start.
- Surface pools inside the Intel path: a call that fails stands for an empty one.
- The count behind systemd's start limits; that it gives up is modelled.
- Installers, doctor, measurement, test pattern, smoke tests: run by hand, keep no
  state that others race for.
- The Android client, which is not in this repository; a client of `Transport`
  may do anything a TCP peer can do.

## 7. Plan

Done: all components of section 1, with safety proved and liveness checked;
transport, capture, headset mode and display host as implementations of abstract
specifications, with what those promise; the safety part of each liveness property; uploads, imports and removal
of buffers; failing `systemctl` commands; framing and the receiver's checks.

Left, most important first:

1. Compose `StreamWorker` with `Transport`, to check end to end that a new client
   of a static screen gets its keyframe; and `HeadsetWatch` with the units of
   `HeadsetMode`.
2. The abstract specifications at the other side: `StreamWorker` as a user of
   `FrameSource`, `Transport`'s clients as those of `HeadsetMode`; a converter
   ("the picture of the buffer at hand, or none") that `IntelVaapi` implements and
   `Capture` uses.
3. `positions()` against "never overlap"; the launcher's limit and the units'
   restart policy.
