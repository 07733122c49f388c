------------------------------- MODULE Capture -------------------------------
(***************************************************************************)
(* CaptureSession (host/capture/capture.cpp, capture.h, latest.h).  What   *)
(* its DMA-BUF converter does with the GPU is in IntelVaapi.               *)
(*                                                                         *)
(* Three threads meet here: PipeWire's data thread runs onProcess(), its   *)
(* control thread the other callbacks, and the encoder worker calls next() *)
(* and at the end the destructor.  They share a pool of frames, a queue of *)
(* two samples, the "processing" lock, which the data thread only tries,   *)
(* and the thread loop's lock, which every control callback holds.         *)
(*                                                                         *)
(* A frame of the pool is a number; what it holds is the number of the     *)
(* producer's picture copied or converted into it.  A sample is the pair,  *)
(* so that a sample whose frame was written over shows.                    *)
(***************************************************************************)
EXTENDS Integers, Sequences, FiniteSets

CONSTANTS
    PoolSize,          \* frames in the pool (5)
    Buffers,           \* buffers the producer shares (16 in KWin)
    RequireDma,        \* capture_memory=dmabuf
    HasConverter,      \* a DMA-BUF converter was given to the session
    MaxPictures        \* bound: pictures the producer records

ASSUME CaptureAssumption ==
    /\ PoolSize \in Nat \ {0} /\ Buffers \in Nat \ {0}
    /\ RequireDma \in BOOLEAN /\ HasConverter \in BOOLEAN
    /\ RequireDma => HasConverter
    /\ MaxPictures \in Nat

VARIABLES
    \* the producer: buffers it may fill, pictures filled and not dequeued,
    \* pictures recorded so far
    free, ready, recorded,
    \* onProcess(): where it is, the buffer it kept, the frame it picked
    data, latest, frame,
    \* the session: negotiated memory, logged, the pool still has GPU
    \* surfaces, stopping, error, holder of "processing", streamed
    memory, logged, hardware, stopping, error, processing, streamed,
    \* the queue, the counters and what the pool's frames hold
    queue, arrivals, drops, contents,
    \* the worker: where it is, the sample being encoded, the one before,
    \* samples taken
    owner, sample, lastSample, taken,
    \* history: pictures lost to a failure, which no counter counts
    lost

producer == <<free, ready, recorded>>
callback == <<data, latest, frame>>
session  == <<memory, logged, hardware, stopping, error, processing, streamed>>
samples  == <<queue, arrivals, drops, contents>>
worker   == <<owner, sample, lastSample, taken>>
vars == <<producer, callback, session, samples, worker, lost>>

Frames == 1..PoolSize
Sample == [frame : Frames, n : Nat]
None == [frame |-> 0, n |-> 0]
NoPicture == 0

TypeOK ==
    /\ free \in 0..Buffers /\ ready \in Seq(Nat) /\ recorded \in Nat
    /\ data \in {"idle", "entered", "drain", "consume", "write", "push",
                 "return"}
    /\ latest \in Nat /\ frame \in Frames \cup {0}
    /\ memory \in {"none", "cpu", "dma"}
    /\ logged \in BOOLEAN /\ hardware \in BOOLEAN /\ stopping \in BOOLEAN
    /\ error \in BOOLEAN /\ processing \in {"none", "data", "owner"}
    /\ streamed \in BOOLEAN
    /\ queue \in Seq(Sample) /\ arrivals \in Nat /\ drops \in Nat
    /\ contents \in [Frames -> Nat]
    /\ owner \in {"connect", "next", "wait", "encode", "lockLoop",
                  "lockProcessing", "destroy", "gone"}
    /\ sample \in Sample \cup {None} /\ lastSample \in Sample \cup {None}
    /\ taken \in Nat /\ lost \in Nat

Init ==
    /\ free = Buffers /\ ready = <<>> /\ recorded = 0
    /\ data = "idle" /\ latest = NoPicture /\ frame = 0
    /\ memory = "none" /\ logged = FALSE /\ hardware = HasConverter
    /\ stopping = FALSE /\ error = FALSE /\ processing = "none"
    /\ streamed = FALSE
    /\ queue = <<>> /\ arrivals = 0 /\ drops = 0
    /\ contents = [f \in Frames |-> 0]
    /\ owner = "connect" /\ sample = None /\ lastSample = None /\ taken = 0
    /\ lost = 0

-----------------------------------------------------------------------------
(* The conditions the code decides by, and bugs (M_) they could have had.  *)

\* Frames that only the pool holds.
QueuedFrames == {queue[i].frame : i \in 1..Len(queue)}
M_FreeButRepeated == Frames \ (QueuedFrames \cup {sample.frame})
FreeFrames == Frames \ (QueuedFrames \cup {sample.frame, lastSample.frame})

\* The search takes the first; the frames are alike.
AnyOf(frames) == CHOOSE f \in frames : TRUE

M_ThreeQueued == Len(queue) = 3
QueueFull == Len(queue) = 2

\* takeLatest()
M_CountsAll(q) == Len(q)
M_CountsBetween(q) == Len(q) - 2
StaleIn(q) == Len(q) - 1
LeftBehind(q) == <<>>

\* checkError()
M_OnlyIfStopped == error /\ stopping
HasError == error

\* A capture that has had a picture does not touch its frames any more.
M_WhileProcessing == processing = "data"
Captured == logged
MustFailFormat(m) == (RequireDma /\ m # "dma") \/ (Captured /\ m # memory)

\* onProcess() gives up when the destructor owns the lock.
M_Blocks == FALSE
GivesUp == processing # "none"

\* Draining gives back every buffer but the newest.
M_Forgets == FALSE
Superseded == latest # NoPicture

\* The destructor waits for a callback that holds the lock.
M_TakesAnyway == TRUE
ProcessingFree == processing = "none"

\* The formats the session offers.
Offered == {"cpu"} \cup (IF HasConverter THEN {"dma"} ELSE {})

-----------------------------------------------------------------------------
(* The producer and PipeWire.                                              *)

Produce ==
    /\ memory # "none" /\ owner # "gone"
    /\ free > 0 /\ recorded < MaxPictures
    /\ free' = free - 1 /\ recorded' = recorded + 1
    /\ ready' = Append(ready, recorded + 1)
    /\ UNCHANGED <<callback, session, samples, worker, lost>>

\* The thread loop's lock keeps control callbacks out of the destructor.
LoopUnlocked == owner \in {"next", "wait", "encode", "lockLoop"}

StateStreaming ==
    /\ LoopUnlocked /\ memory # "none" /\ streamed' = TRUE
    /\ UNCHANGED <<memory, logged, hardware, stopping, error, processing,
                   producer, callback, samples, worker, lost>>

StreamError ==
    /\ LoopUnlocked /\ error' = TRUE
    /\ UNCHANGED <<memory, logged, hardware, stopping, processing, streamed,
                   producer, callback, samples, worker, lost>>

\* "Unconnected" is how a stream starts, so it ends only one that streamed.
StreamEnded ==
    /\ LoopUnlocked /\ streamed /\ error' = TRUE
    /\ UNCHANGED <<memory, logged, hardware, stopping, processing, streamed,
                   producer, callback, samples, worker, lost>>

\* onParamChanged(): PipeWire (re)negotiates while the data thread rests and
\* replaces the producer's buffers.  The order of the checks is the code's.
Unexpected == /\ error' = TRUE
              /\ UNCHANGED <<memory, hardware, stopping, producer>>
Refused == /\ error' = TRUE /\ stopping' = TRUE
           /\ UNCHANGED <<memory, hardware, producer>>
Negotiated(m) ==
    /\ ~Captured
    /\ memory' = m /\ hardware' = (hardware /\ m = "dma")
    /\ free' = Buffers /\ ready' = <<>>
    /\ UNCHANGED <<stopping, error, recorded>>

FormatChanged ==
    /\ LoopUnlocked /\ data = "idle"
    /\ \E m \in Offered :
         \/ Unexpected     \* fails the stream, which goes on
         \/ MustFailFormat(m) /\ Refused
         \/ ~MustFailFormat(m) /\ Negotiated(m)
    /\ UNCHANGED <<logged, processing, streamed, callback, samples, worker, lost>>

\* add_buffer: importing a DMA-BUF on the control thread can fail.
AddBufferFails ==
    /\ LoopUnlocked /\ memory = "dma"
    /\ error' = TRUE /\ stopping' = TRUE
    /\ UNCHANGED <<memory, logged, hardware, processing, streamed, producer,
                   callback, samples, worker, lost>>

-----------------------------------------------------------------------------
(* onProcess() and consume(), the data thread.  What the buffer is like      *)
(* decides which way consume() takes.                                      *)

Enter ==
    /\ data = "idle" /\ owner # "gone" /\ memory # "none" /\ ~stopping
    /\ data' = "entered"
    /\ UNCHANGED <<latest, frame, producer, session, samples, worker,
                   lost>>

\* try_lock, and "stopping" once more under the lock.
LeaveEarly ==
    /\ data = "entered"
    /\ GivesUp \/ (processing = "none" /\ stopping)
    /\ data' = "idle"
    /\ UNCHANGED <<latest, frame, producer, session, samples, worker,
                   lost>>

Lock ==
    /\ data = "entered" /\ processing = "none" /\ ~stopping
    /\ data' = "drain" /\ processing' = "data"
    /\ UNCHANGED <<latest, frame, producer, memory, logged, hardware,
                   stopping, error, streamed, samples, worker, lost>>

\* Dequeue one more buffer and give the one before it back.
Dequeue ==
    /\ data = "drain" /\ ready # <<>>
    /\ latest' = Head(ready) /\ ready' = Tail(ready)
    /\ arrivals' = arrivals + 1
    /\ IF Superseded
       THEN free' = free + 1 /\ drops' = drops + 1
       ELSE UNCHANGED <<free, drops>>
    /\ UNCHANGED <<recorded, data, frame, session, queue, contents,
                   worker, lost>>

Drained ==
    /\ data = "drain" /\ ready = <<>>
    /\ IF latest = NoPicture
       THEN data' = "idle" /\ processing' = "none"
       ELSE data' = "consume" /\ UNCHANGED processing
    /\ UNCHANGED <<latest, frame, producer, memory, logged, hardware, stopping,
                   error, streamed, samples, worker, lost>>

\* No data, a corrupted chunk, or CPU memory without content.
DropEmpty ==
    /\ data = "consume"
    /\ drops' = drops + 1 /\ data' = "return"
    /\ UNCHANGED <<latest, frame, producer, session, queue, arrivals, contents,
                   worker, lost>>

\* consume() throws, as only that of a DMA-BUF stream does: capture stops, and
\* the buffer is not given back, since the GPU may still read it.
Thrown ==
    /\ stopping' = TRUE /\ error' = TRUE /\ lost' = lost + 1
    /\ data' = "idle" /\ processing' = "none" /\ latest' = NoPicture

\* Before a conversion: memory of another type, which is not logged, no surface
\* left in the pool, an import that fails.
Throw ==
    /\ data = "consume" /\ memory = "dma"
    /\ logged' \in {logged, TRUE} /\ Thrown
    /\ UNCHANGED <<frame, producer, memory, hardware, streamed, samples, worker>>

\* A CPU buffer smaller than a picture fails the stream without stopping.
TooSmall ==
    /\ data = "consume" /\ memory = "cpu"
    /\ logged' = TRUE /\ error' = TRUE /\ lost' = lost + 1
    /\ data' = "return"
    /\ UNCHANGED <<latest, frame, producer, memory, hardware, stopping,
                   processing, streamed, samples, worker>>

PickFrame ==
    /\ data = "consume" /\ logged' = TRUE
    /\ IF FreeFrames = {}
       THEN drops' = drops + 1 /\ data' = "return" /\ UNCHANGED frame
       ELSE /\ memory = "cpu" \/ hardware
            /\ frame' = AnyOf(FreeFrames)
            /\ data' = "write" /\ UNCHANGED drops
    /\ UNCHANGED <<latest, producer, memory, hardware, stopping, error,
                   processing, streamed, queue, arrivals, contents,
                   worker, lost>>

\* memcpy, or a conversion the GPU finishes within its 2 ms.
Write ==
    /\ data = "write"
    /\ contents' = [contents EXCEPT ![frame] = latest]
    /\ data' = "push"
    /\ UNCHANGED <<latest, frame, producer, session, queue, arrivals, drops,
                   worker, lost>>

\* The conversion is refused or times out.
ConversionFails ==
    /\ data = "write" /\ memory = "dma" /\ frame' = 0 /\ Thrown
    /\ UNCHANGED <<producer, memory, logged, hardware, streamed, samples,
                   worker>>

Push ==
    /\ data = "push"
    /\ queue' = Append(IF QueueFull THEN Tail(queue) ELSE queue,
                       [frame |-> frame, n |-> latest])
    /\ drops' = drops + (IF QueueFull THEN 1 ELSE 0)
    /\ frame' = 0 /\ data' = "return"
    /\ UNCHANGED <<latest, producer, session, arrivals, contents, worker,
                   lost>>

\* The buffer goes back to the producer in the same callback.
Return ==
    /\ data = "return"
    /\ data' = "idle" /\ processing' = "none"
    /\ free' = free + 1 /\ latest' = NoPicture
    /\ UNCHANGED <<frame, ready, recorded, memory, logged, hardware, stopping,
                   error, streamed, samples, worker, lost>>

-----------------------------------------------------------------------------
(* The worker: the constructor, next(), encode, and the destructor.        *)

Connect ==
    /\ owner = "connect" /\ owner' = "next"
    /\ UNCHANGED <<sample, lastSample, taken, producer, callback, session,
                   samples, lost>>

\* Whatever is missing, the part that was made is destroyed like a session.
ConnectFails ==
    /\ owner = "connect"
    /\ owner' = "lockLoop" /\ stopping' = TRUE
    /\ UNCHANGED <<sample, lastSample, taken, producer, callback, memory,
                   logged, hardware, error, processing, streamed, samples,
                   lost>>

\* checkError() throws and the session is destroyed; any other end of the
\* worker's loop destroys it as well.
LeaveLoop ==
    /\ owner = "next"
    /\ owner' = "lockLoop" /\ stopping' = TRUE
    /\ UNCHANGED <<sample, lastSample, taken, producer, callback, memory,
                   logged, hardware, error, processing, streamed, samples,
                   lost>>

Next_ ==
    /\ owner = "next" /\ ~HasError
    /\ owner' = "wait"
    /\ UNCHANGED <<sample, lastSample, taken, producer, callback, session,
                   samples, lost>>

Take ==
    /\ owner = "wait" /\ queue # <<>>
    /\ owner' = "encode" /\ sample' = queue[Len(queue)] /\ queue' = LeftBehind(queue)
    /\ drops' = drops + StaleIn(queue) /\ taken' = taken + 1
    /\ UNCHANGED <<lastSample, producer, callback, session, arrivals, contents,
                   lost>>

\* 250 ms without a picture, or woken by an error that the next call throws.
NothingTaken ==
    /\ owner = "wait" /\ queue = <<>>
    /\ owner' = "next"
    /\ UNCHANGED <<sample, lastSample, taken, producer, callback, session,
                   samples, lost>>

Encode ==
    /\ owner = "encode"
    /\ owner' = "next" /\ lastSample' = sample /\ sample' = None
    /\ UNCHANGED <<taken, producer, callback, session, samples, lost>>

LockLoop ==
    /\ owner = "lockLoop"
    /\ owner' = "lockProcessing"
    /\ UNCHANGED <<sample, lastSample, taken, producer, callback, session,
                   samples, lost>>

LockProcessing ==
    /\ owner = "lockProcessing" /\ ProcessingFree
    /\ owner' = "destroy" /\ processing' = "owner"
    /\ UNCHANGED <<sample, lastSample, taken, producer, callback, memory,
                   logged, hardware, stopping, error, streamed, samples,
                   lost>>

\* pw_stream_destroy() waits until the data thread is out of its callback.
Destroy ==
    /\ owner = "destroy" /\ data = "idle"
    /\ owner' = "gone" /\ processing' = "none"
    /\ UNCHANGED <<sample, lastSample, taken, producer, callback, memory,
                   logged, hardware, stopping, error, streamed, samples,
                   lost>>

Finished == owner = "gone" /\ UNCHANGED vars

-----------------------------------------------------------------------------
Control ==
    \/ StateStreaming \/ StreamError \/ StreamEnded
    \/ FormatChanged \/ AddBufferFails

OnProcess ==
    \/ LeaveEarly \/ Lock \/ Dequeue \/ Drained \/ DropEmpty \/ Throw
    \/ TooSmall \/ PickFrame \/ Write \/ ConversionFails \/ Push \/ Return

Owner ==
    \/ Connect \/ ConnectFails \/ Next_ \/ Take \/ NothingTaken \/ Encode
    \/ LockLoop \/ LockProcessing \/ Destroy

Next ==
    \/ Produce \/ Control \/ Enter \/ OnProcess
    \/ LeaveLoop \/ Owner \/ Finished

Spec == Init /\ [][Next]_vars

-----------------------------------------------------------------------------
(* What must hold whatever the three threads do.                           *)

Held == {queue[i] : i \in 1..Len(queue)} \cup ({sample, lastSample} \ {None})

\* A frame that waits in the queue, is being encoded, or is kept to be
\* repeated still holds the picture it was queued with: the data thread never
\* writes into a frame another thread can read (use_count() == 1).
Intact == \A s \in Held : contents[s.frame] = s.n

\* The session is a FrameSource: the worker gets ever newer pictures, each at
\* most once, and what it encodes or keeps is in the frame for as long as it has
\* it, whatever the data thread does (next() in capture.cpp, Frame and Sample in
\* capture.h).
Picture(s) == IF s = None THEN 0 ELSE contents[s.frame]
User == CASE owner \in {"connect", "next"} -> "idle"
          [] owner = "wait" -> "waiting"
          [] owner = "encode" -> "encoding"
          [] OTHER -> "left"

Source == INSTANCE FrameSource WITH
    failed <- error, kind <- memory, user <- User,
    current <- Picture(sample), repeat <- Picture(lastSample)

FrameSpec == Source!Spec

\* "Queue (2) + frame being encoded + last frame kept for static repeats, plus
\* one spare": onProcess() always finds a frame to write to, so a full pool
\* never costs a picture.
NoStarvation == data \in {"drain", "consume"} => FreeFrames # {}

\* Nothing gets lost between the threads.  The worker is handed pictures in
\* order, and every picture dequeued is counted as dropped, was handed to the
\* worker, is queued or in the callback's hands, or was lost to the failure
\* that ends the session: the report's "capture_pending_at_stop" is exact
\* without one.  "A late requeue leaks one of KWin's 16 buffers": between
\* callbacks the producer has all of them again, unless the session is coming
\* to its end.
Numbers == <<lastSample.n, sample.n>> \o [i \in 1..Len(queue) |-> queue[i].n]
InHand == IF latest # NoPicture /\ data \in {"drain", "consume", "write", "push"}
          THEN 1 ELSE 0
Accounted ==
    /\ arrivals = drops + taken + Len(queue) + lost + InHand
    /\ \A i, j \in 1..Len(Numbers) :
          i < j /\ Numbers[j] # 0 => Numbers[i] < Numbers[j]
    /\ data = "idle" /\ ~stopping => free + Len(ready) = Buffers

\* Renegotiation never changes the kind of memory under pictures in use.
PoolKept == [][Held # {} => memory' = memory /\ hardware' = hardware]_vars

-----------------------------------------------------------------------------
(* Threads are scheduled: PipeWire's data thread finishes its callback and  *)
(* the worker, whose waits all have a timeout, goes on; checkError() throws *)
(* whenever there is an error.                                              *)

Throws == LeaveLoop /\ HasError
LiveSpec ==
    /\ Spec
    /\ WF_vars(OnProcess) /\ WF_vars(Owner) /\ WF_vars(Throws)

\* Any failure, on any thread, reaches the worker, although it may wait for a
\* queue that stays empty; and a session that is being destroyed is gone in the
\* end, although its destructor waits for the callback and the callback may find
\* the destructor's lock.
SessionEnds == error \/ owner = "lockLoop" ~> owner = "gone"
=============================================================================
