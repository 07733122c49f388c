---------------------------- MODULE StreamWorker -----------------------------
(***************************************************************************)
(* quest-streams (host/stream_main.cpp): one worker thread per stream,     *)
(* which takes samples from its capture session, falls back from DMA-BUF   *)
(* to CPU capture once, repeats the last sample of a static screen and     *)
(* answers keyframe requests; and the main thread, which checks its        *)
(* options, starts the workers, joins them and reports.  The first worker  *)
(* that fails stops all of them.                                           *)
(*                                                                         *)
(* Time is counted in seconds by ages that stop growing where the code no  *)
(* longer tells them apart.  next() waits for 250 ms, so every worker goes *)
(* through its loop between two ticks.                                     *)
(***************************************************************************)
EXTENDS Integers, FiniteSets

CONSTANTS
    Streams,           \* the selected monitors
    CaptureMemory,     \* "auto", "cpu" or "dmabuf"
    RunLengths,        \* durations in seconds to choose from, 0 for no end
    Patience           \* seconds without a captured frame (10)

ASSUME WorkerAssumption ==
    /\ IsFiniteSet(Streams) /\ Streams # {}
    /\ CaptureMemory \in {"auto", "cpu", "dmabuf"}
    /\ RunLengths \subseteq Nat /\ Patience \in Nat

VARIABLES
    \* the duration of this run
    seconds,
    \* shared by the threads
    interrupted, failed, requested,
    \* each worker: where it is, the capture session it has (its number, from 2
    \* on without a converter), the converter is still there, seconds since
    \* "started", a frame was consumed, the session lastSample came from (0:
    \* none), seconds since the last submit, forcePending
    pc, session, converter, age, consumed, last, idle, forcePending,
    \* the main thread: before or after the workers' start, or the exit code
    main,
    \* seconds the session has existed; the worker turned since the last tick
    sessionAge, turned

shared == <<interrupted, failed, requested>>
local  == <<session, converter, age, consumed, last, idle, forcePending>>
time   == <<sessionAge, turned>>
vars == <<seconds, shared, pc, local, main, time>>

AgeLimit == IF seconds > Patience THEN seconds ELSE Patience + 1
IdleLimit == 2

TypeOK ==
    /\ seconds \in RunLengths
    /\ interrupted \in BOOLEAN /\ failed \in BOOLEAN
    /\ requested \in [Streams -> BOOLEAN]
    /\ pc \in [Streams -> {"start", "loop", "next", "encode", "done"}]
    /\ session \in [Streams -> 1..2] /\ converter \in [Streams -> BOOLEAN]
    /\ age \in [Streams -> 0..AgeLimit] /\ consumed \in [Streams -> BOOLEAN]
    /\ last \in [Streams -> 0..2] /\ idle \in [Streams -> 0..IdleLimit]
    /\ forcePending \in [Streams -> BOOLEAN]
    /\ main \in {"starting", "joining", "success", "failure"}
    /\ sessionAge \in [Streams -> 0..Patience + 1] /\ turned \in [Streams -> BOOLEAN]

All(v) == [s \in Streams |-> v]

Init ==
    /\ seconds \in RunLengths
    /\ interrupted = FALSE /\ failed = FALSE /\ requested = All(FALSE)
    /\ pc = All("start") /\ session = All(1) /\ converter = All(FALSE)
    /\ age = All(0) /\ consumed = All(FALSE) /\ last = All(0) /\ idle = All(0)
    /\ forcePending = All(FALSE)
    /\ main = "starting"
    /\ sessionAge = All(0) /\ turned = All(FALSE)

-----------------------------------------------------------------------------
(* The conditions the code decides by, and bugs (M_) they could have had.  *)

Set(f, s, v) == [f EXCEPT ![s] = v]

TimeUp(s) == seconds > 0 /\ age[s] >= seconds

\* while (!interrupted && !failed && ...)
M_OwnFailure(s) == ~interrupted /\ ~TimeUp(s)
GoesOn(s) == ~interrupted /\ ~failed /\ ~TimeUp(s)

M_RetriesAlways(s) == CaptureMemory = "auto"
MayRetry(s) == CaptureMemory = "auto" /\ converter[s]

\* What is forgotten with the DMA-BUF session.
M_KeepsSample(s) == consumed' = Set(consumed, s, FALSE) /\ UNCHANGED last
Forget(s) == last' = Set(last, s, 0) /\ consumed' = Set(consumed, s, FALSE)

\* Nothing new: repeat for a keyframe request or after a second.
M_OnlyOnRequest(s) == last[s] # 0 /\ forcePending[s]
Repeats(s) == last[s] # 0 /\ (forcePending[s] \/ idle[s] >= 1)

\* takeKeyframeRequest(): exchange(false).
M_Loads(s) == UNCHANGED requested
Takes(s) == requested' = Set(requested, s, FALSE)

\* A stream that ends without a frame is not a success.
EndsWell(s) == consumed[s]

-----------------------------------------------------------------------------
(* The worker of stream s.                                                 *)

Fail(s) == pc' = Set(pc, s, "done") /\ failed' = TRUE

\* The file, the encoder and the session are there; an encoder on NVENC has no
\* converter, and DMA-BUF capture needs one.
Started(s) ==
    /\ main = "joining" /\ pc[s] = "start"
    /\ pc' = Set(pc, s, "loop")
    /\ \E c \in IF CaptureMemory = "cpu" THEN {FALSE}
               ELSE IF CaptureMemory = "dmabuf" THEN {TRUE} ELSE BOOLEAN :
         /\ converter' = Set(converter, s, c)
         /\ session' = Set(session, s, IF c THEN 1 ELSE 2)
    /\ UNCHANGED <<shared, age, consumed, last, idle, forcePending,
                   main, time>>

StartFails(s) ==
    /\ main = "joining" /\ pc[s] = "start"
    /\ Fail(s)
    /\ UNCHANGED <<interrupted, requested, local, main, time>>

LoopTop(s) ==
    /\ pc[s] = "loop" /\ GoesOn(s)
    /\ pc' = Set(pc, s, "next")
    /\ UNCHANGED <<shared, local, main, time>>

\* next() returns, with a sample or after 250 ms without one; then the worker
\* takes the keyframe request.
NextSample(s) ==
    /\ pc[s] = "next"
    /\ pc' = Set(pc, s, "encode")
    /\ forcePending' = Set(forcePending, s, forcePending[s] \/ requested[s])
    /\ Takes(s)
    /\ UNCHANGED <<interrupted, failed, session, converter, age, consumed, last,
                   idle, main, time>>

\* next() throws: capture again into CPU memory, if that was not done before.
RetryOnCpu(s) ==
    /\ pc[s] = "next" /\ MayRetry(s)
    /\ pc' = Set(pc, s, "loop")
    /\ session' = Set(session, s, session[s] + 1)
    /\ converter' = Set(converter, s, FALSE)
    /\ Forget(s) /\ forcePending' = Set(forcePending, s, TRUE)
    /\ sessionAge' = Set(sessionAge, s, 0)
    /\ UNCHANGED <<shared, age, idle, main, turned>>

\* next() throws and there is no retry, or the new session cannot start.
CaptureFails(s) ==
    /\ pc[s] = "next"
    /\ Fail(s)
    /\ UNCHANGED <<interrupted, requested, local, main, time>>

TurnEnds(s) == pc' = Set(pc, s, "loop") /\ turned' = Set(turned, s, TRUE)

\* It has a new sample, or repeats the last one.
Submit(s) ==
    /\ pc[s] = "encode"
    /\ \/ consumed' = Set(consumed, s, TRUE) /\ last' = Set(last, s, session[s])
       \/ Repeats(s) /\ UNCHANGED <<consumed, last>>
    /\ TurnEnds(s)
    /\ idle' = Set(idle, s, 0) /\ forcePending' = Set(forcePending, s, FALSE)
    /\ UNCHANGED <<shared, session, converter, age, main, sessionAge>>

\* The encoder, the file or publish() throws.
SubmitFails(s) ==
    /\ pc[s] = "encode"
    /\ Fail(s)
    /\ UNCHANGED <<interrupted, requested, local, main, time>>

\* It has none.
NothingToSubmit(s) == pc[s] = "encode" /\ ~Repeats(s)
Starved(s) == ~consumed[s] /\ age[s] > Patience

NoFrames(s) ==
    /\ NothingToSubmit(s) /\ Starved(s)
    /\ Fail(s)
    /\ UNCHANGED <<interrupted, requested, local, main, time>>

Waits(s) ==
    /\ NothingToSubmit(s) /\ ~Starved(s)
    /\ TurnEnds(s)
    /\ UNCHANGED <<shared, local, main, sessionAge>>

\* After the loop: flush the encoder, and report.
Finish(s) ==
    /\ pc[s] = "loop" /\ ~GoesOn(s)
    /\ IF EndsWell(s) THEN pc' = Set(pc, s, "done") /\ UNCHANGED failed
                      ELSE Fail(s)
    /\ UNCHANGED <<interrupted, requested, local, main, time>>

-----------------------------------------------------------------------------
Working == {s \in Streams : pc[s] # "done"}

\* Options, output directory, its lock, the monitors and the port: without any
\* of them no worker is started.
StartUp ==
    /\ main = "starting" /\ main' \in {"joining", "failure"}
    /\ UNCHANGED <<seconds, shared, pc, local, time>>

\* The statistics may not be written.
Join ==
    /\ main = "joining" /\ Working = {}
    /\ main' \in {"failure"} \cup (IF failed THEN {} ELSE {"success"})
    /\ UNCHANGED <<seconds, shared, pc, local, time>>

\* SIGINT or SIGTERM.
Interrupt ==
    /\ main \in {"starting", "joining"} /\ interrupted' = TRUE
    /\ UNCHANGED <<seconds, failed, requested, pc, local, main, time>>

\* The transport has a new client.
NewClient ==
    /\ main = "joining" /\ Working # {}
    /\ requested' = All(TRUE)
    /\ UNCHANGED <<seconds, interrupted, failed, pc, local, main, time>>

\* The clocks of a worker run from its start.
Older(a, limit) ==
    [s \in Streams |-> IF pc[s] # "start" /\ a[s] < limit THEN a[s] + 1 ELSE a[s]]

Tick ==
    /\ main = "joining" /\ Working # {}
    /\ \A s \in Working : turned[s] \/ pc[s] = "start"
    /\ turned' = All(FALSE)
    /\ age' = Older(age, AgeLimit)
    /\ sessionAge' = Older(sessionAge, Patience + 1)
    /\ idle' = Older(idle, IdleLimit)
    /\ UNCHANGED <<seconds, shared, pc, session, converter, consumed, last,
                   forcePending, main>>

Exited == main \in {"success", "failure"} /\ UNCHANGED vars

Worker(s) ==
    /\ UNCHANGED seconds
    /\ \/ Started(s) \/ StartFails(s)
       \/ LoopTop(s) \/ NextSample(s) \/ RetryOnCpu(s) \/ CaptureFails(s)
       \/ Submit(s) \/ SubmitFails(s) \/ NoFrames(s) \/ Waits(s)
       \/ Finish(s)

Main == StartUp \/ Join

Next ==
    \/ \E s \in Streams : Worker(s)
    \/ Main \/ Interrupt \/ NewClient \/ Tick \/ Exited

Spec == Init /\ [][Next]_vars

-----------------------------------------------------------------------------
(* What the streams promise.                                               *)

\* The sample that is kept for repeats belongs to the session in use, and
\* there is one as soon as that session has delivered: a keyframe request can
\* be answered on a screen that never changes again.
RepeatAvailable ==
    \A s \in Streams :
        /\ last[s] \in {0, session[s]}
        /\ consumed[s] <=> last[s] # 0

\* A screen that stands still is repeated every second: nobody who watches
\* waits for a frame for more than a second and a turn of the loop.
StaticRepeat ==
    \A s \in Streams :
        pc[s] \in {"loop", "next"} /\ turned[s] /\ last[s] # 0 => idle[s] <= 1

\* "retries CPU capture once": a session that has just been made has Patience
\* seconds to deliver before the stream is given up for want of frames.
FairChance ==
    [][\A s \in Streams : NoFrames(s) => sessionAge[s] > Patience]_vars

-----------------------------------------------------------------------------
(* Threads are scheduled and time passes.                                  *)
LiveSpec ==
    /\ Spec
    /\ \A s \in Streams : WF_vars(Worker(s))
    /\ WF_vars(Main) /\ WF_vars(Tick)

\* A signal or the failure of one stream ends all of them, wherever they are,
\* and a failure is what the process then reports; a success means that every
\* stream has delivered.
AllStop ==
    /\ interrupted ~> main \in {"success", "failure"}
    /\ failed ~> main = "failure"
    /\ [](main = "success" => ~failed /\ \A s \in Streams : consumed[s])

\* A new client's request is taken, and then answered with a keyframe, screen
\* static or not, unless the worker ends because it has nothing to answer with.
RequestAnswered ==
    \A s \in Streams :
        /\ requested[s] ~> ~requested[s] \/ pc[s] = "done"
        /\ forcePending[s] ~> ~forcePending[s] \/ pc[s] = "done"
=============================================================================
