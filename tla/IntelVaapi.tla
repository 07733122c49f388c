------------------------------ MODULE IntelVaapi -----------------------------
(***************************************************************************)
(* The Intel converter of one encoder (host/encoder/intel_vaapi.cpp): one  *)
(* video processor with a cache of imported DMA-BUFs, shared under a mutex *)
(* by PipeWire's data thread (convert), its control thread (add_buffer,    *)
(* remove_buffer) and the encoder worker (upload, settle), which may end   *)
(* the capture session and go on with the same converter on CPU pictures.  *)
(*                                                                         *)
(* A DMA-BUF is a record of a number of its own and the number of its file *)
(* descriptor, which the kernel reuses, as the allocator reuses the        *)
(* addresses of buffers, the keys of the cache.  Calls that wait for the   *)
(* GPU with the mutex held are two steps, all others one.                  *)
(***************************************************************************)
EXTENDS Naturals

CONSTANTS
    Buffers,           \* addresses of the producer's spa_buffers
    Fds,               \* file descriptor numbers
    MaxMade            \* bound: DMA-BUFs the producer shares in all

ASSUME ConverterAssumption == Fds \subseteq Nat /\ MaxMade \in Nat

VARIABLES
    \* the producer: what it shares at each address, DMA-BUFs made so far;
    \* buffers that the session has dequeued and not given back
    shared, made, held,
    \* the converter: the cache, the job it knows to be unfinished, the jobs
    \* the GPU really works on, the holder of the mutex
    imports, pending, gpu, mutex,
    \* the session: its memory, its pool has surfaces, it had a picture
    format, surfaces, logged, stopping, processing,
    \* the threads, and the buffers that the first two are concerned with
    data, buffer, control, victim, worker

producer  == <<shared, made, held>>
converter == <<imports, pending, gpu, mutex>>
session   == <<format, surfaces, logged, stopping, processing>>
dataThread == <<data, buffer>>
controlThread == <<control, victim>>
vars == <<producer, converter, session, dataThread, controlThread, worker>>

DmaBuf == [n : 1..MaxMade, fd : Fds]
None == [n |-> 0, fd |-> 0]
Upload == [n |-> 0, fd |-> 1]        \* the job of upload()

TypeOK ==
    /\ shared \in [Buffers -> DmaBuf \cup {None}] /\ made \in 0..MaxMade
    /\ held \subseteq Buffers
    /\ imports \in [Buffers -> DmaBuf \cup {None}]
    /\ pending \in DmaBuf \cup {None, Upload}
    /\ gpu \subseteq DmaBuf \cup {Upload}
    /\ mutex \in {"free", "data", "control", "worker"}
    /\ format \in {"none", "cpu", "dma"}
    /\ surfaces \in BOOLEAN /\ logged \in BOOLEAN /\ stopping \in BOOLEAN
    /\ processing \in {"free", "data", "worker"}
    /\ data \in {"idle", "import", "convert", "wait", "throw", "return"}
    /\ control \in {"idle", "import", "remove"}
    /\ worker \in {"run", "upload", "uploadFailed", "leave", "lock", "settle",
                   "sync", "destroy", "retried", "retriedUpload", "end", "gone"}
    /\ buffer \in Buffers /\ victim \in Buffers
    /\ data # "idle" => processing = "data"
    /\ worker = "upload" => format = "cpu"

Init ==
    /\ shared = [b \in Buffers |-> None] /\ made = 0 /\ held = {}
    /\ imports = [b \in Buffers |-> None] /\ pending = None /\ gpu = {}
    /\ mutex = "free"
    /\ format = "none" /\ surfaces = TRUE /\ logged = FALSE
    /\ stopping = FALSE /\ processing = "free"
    /\ data = "idle" /\ control = "idle" /\ worker = "run"
    /\ buffer \in Buffers /\ victim = buffer

-----------------------------------------------------------------------------
(* The conditions the code decides by, and bugs (M_) they could have had.  *)

\* import(): the cached surface is for this buffer, as far as can be told.
Cached(b)  == imports[b] # None /\ imports[b].fd = shared[b].fd
Changed(b) == imports[b] # None /\ ~Cached(b)

\* remove_buffer, unless the session is about to end.
M_NeverRemoves == FALSE
Removes == ~stopping

\* A renegotiated format counts until the first picture.
M_AlwaysRenegotiates == TRUE
MayNegotiate == ~logged

\* settle(), remove() and the destructor wait for the unfinished job.
M_WaitsForNothing == TRUE
Settled == pending \notin gpu

\* The destructor of the session waits for the callback.
M_Barges == TRUE
CallbackOut == processing = "free"

-----------------------------------------------------------------------------
(* The video processor.                                                    *)

MutexFree == mutex = "free"

\* process(), with the mutex held, up to its wait.
Submit(job, who) ==
    /\ pending' = job /\ gpu' = gpu \cup {job} /\ mutex' = who
    /\ UNCHANGED imports

Release == pending' = None /\ mutex' = "free" /\ UNCHANGED gpu

GpuFinishes ==
    /\ \E job \in gpu : gpu' = gpu \ {job}
    /\ UNCHANGED <<imports, pending, mutex, producer, session, dataThread,
                   controlThread, worker>>

-----------------------------------------------------------------------------
(* PipeWire's control thread.  It holds the loop's lock in a callback, and  *)
(* replaces formats and buffers while the data thread rests.                *)

Quiet == control = "idle" /\ data = "idle"
             /\ worker \in {"run", "upload", "uploadFailed", "leave"}

\* onParamChanged(); pictures in CPU memory need no surfaces.
Negotiate ==
    /\ Quiet /\ MayNegotiate
    /\ format' \in {"cpu", "dma"} /\ surfaces' = (surfaces /\ format' = "dma")
    /\ UNCHANGED <<logged, stopping, processing, producer, converter,
                   dataThread, controlThread, worker>>

\* It fails the capture: an unexpected or a changed format.
ControlFails ==
    /\ Quiet /\ stopping' = TRUE
    /\ UNCHANGED <<format, surfaces, logged, processing, producer, converter,
                   dataThread, controlThread, worker>>

\* add_buffer: with its layout known a DMA-BUF is imported at once.
AddBuffer ==
    /\ Quiet /\ format # "none" /\ made < MaxMade /\ made' = made + 1
    /\ \E b \in Buffers, fd \in Fds :
         /\ shared[b] = None
         /\ shared' = [shared EXCEPT ![b] = [n |-> made + 1, fd |-> fd]]
         /\ victim' = b
    /\ control' \in IF format = "dma" THEN {"idle", "import"} ELSE {"idle"}
    /\ UNCHANGED <<held, converter, session, dataThread, worker>>

\* The outcomes of import(b): found, imported, or thrown.
Imported(b) ==
    /\ ~Changed(b)
    /\ imports' = IF Cached(b) THEN imports ELSE [imports EXCEPT ![b] = shared[b]]
ImportThrows(b) == ~Cached(b) /\ UNCHANGED imports

AddBufferImports ==
    /\ control = "import" /\ MutexFree
    /\ \/ Imported(victim) /\ UNCHANGED stopping
       \/ ImportThrows(victim) /\ stopping' = TRUE
    /\ control' = "idle"
    /\ UNCHANGED <<pending, gpu, mutex, victim, producer, format, surfaces,
                   logged, processing, dataThread, worker>>

Withdrawn(b) == shared' = [shared EXCEPT ![b] = None] /\ held' = held \ {b}

RemoveBuffer ==
    /\ Quiet
    /\ \E b \in Buffers :
         /\ shared[b] # None /\ victim' = b
         /\ IF Removes
            THEN /\ MutexFree /\ mutex' = "control" /\ control' = "remove"
                 /\ UNCHANGED <<shared, held>>
            ELSE /\ Withdrawn(b) /\ UNCHANGED <<mutex, control>>
    /\ UNCHANGED <<made, imports, pending, gpu, session, dataThread, worker>>

\* remove(), when what is unfinished is done.
BufferRemoved ==
    /\ control = "remove" /\ Settled
    /\ Release /\ imports' = [imports EXCEPT ![victim] = None]
    /\ Withdrawn(victim) /\ control' = "idle"
    /\ UNCHANGED <<made, victim, session, dataThread, worker>>

-----------------------------------------------------------------------------
(* PipeWire's data thread: onProcess() and consume().                      *)

OnProcess ==
    /\ data = "idle" /\ control = "idle" /\ ~stopping /\ processing = "free"
    /\ format # "none"
    /\ \E b \in Buffers :
         /\ shared[b] # None /\ buffer' = b
         /\ IF format = "cpu"            \* copied, and given back
            THEN UNCHANGED <<data, held, processing>>
            ELSE /\ data' = IF surfaces THEN "import" ELSE "throw"
                 /\ held' = held \cup {b} /\ processing' = "data"
    /\ logged' = TRUE
    /\ UNCHANGED <<shared, made, converter, format, surfaces, stopping,
                   controlThread, worker>>

Import ==
    /\ data = "import" /\ MutexFree
    /\ \/ Imported(buffer) /\ data' = "convert"
       \/ ImportThrows(buffer) /\ data' = "throw"
    /\ UNCHANGED <<pending, gpu, mutex, buffer, producer, session,
                   controlThread, worker>>

Convert ==
    /\ data = "convert" /\ MutexFree
    /\ Submit(imports[buffer], "data") /\ data' = "wait"
    /\ UNCHANGED <<buffer, producer, session, controlThread, worker>>

\* The processor refuses the job, before or after it is noted.
ConvertFails ==
    /\ data = "convert" /\ MutexFree /\ data' = "throw"
    /\ pending' \in {pending, imports[buffer]}
    /\ UNCHANGED <<imports, gpu, mutex, buffer, producer, session,
                   controlThread, worker>>

Converted ==
    /\ data = "wait" /\ pending \notin gpu
    /\ Release /\ data' = "return"
    /\ UNCHANGED <<imports, buffer, producer, session, controlThread, worker>>

\* "Timeout quarantines the input/output": 2 ms, and the job stays noted.
ConvertTimesOut ==
    /\ data = "wait" /\ mutex' = "free" /\ data' = "throw"
    /\ UNCHANGED <<imports, pending, gpu, buffer, producer, session,
                   controlThread, worker>>

\* The capture ends, and the buffer is not given back.
Throw ==
    /\ data = "throw" /\ data' = "idle" /\ processing' = "free" /\ stopping' = TRUE
    /\ UNCHANGED <<buffer, producer, converter, format, surfaces, logged,
                   controlThread, worker>>

Return ==
    /\ data = "return" /\ data' = "idle" /\ processing' = "free"
    /\ held' = held \ {buffer}
    /\ UNCHANGED <<shared, made, buffer, converter, format, surfaces, logged,
                   stopping, controlThread, worker>>

-----------------------------------------------------------------------------
(* The worker.  Only pictures in CPU memory are uploaded: those of a CPU    *)
(* session, and all of them after the retry.                                *)

BeginUpload ==
    /\ \/ worker = "run" /\ format = "cpu" /\ logged /\ worker' = "upload"
       \/ worker = "retried" /\ worker' = "retriedUpload"
    /\ MutexFree /\ Submit(Upload, "worker")
    /\ UNCHANGED <<producer, session, dataThread, controlThread>>

Uploaded ==
    /\ worker \in {"upload", "retriedUpload"} /\ pending \notin gpu
    /\ Release /\ worker' = IF worker = "upload" THEN "run" ELSE "retried"
    /\ UNCHANGED <<imports, producer, session, dataThread, controlThread>>

\* One second, or an error: wait for the job all the same, and end.
UploadFails ==
    /\ worker \in {"upload", "retriedUpload"} /\ Settled /\ Release
    /\ worker' = IF worker = "upload" THEN "leave" ELSE "end"
    /\ UNCHANGED <<imports, producer, session, dataThread, controlThread>>

\* The loop ends or next() throws: the session's destructor begins.
Leave ==
    /\ worker \in {"run", "leave"} /\ worker' = "lock" /\ stopping' = TRUE
    /\ control = "idle"                  \* and has the loop's lock
    /\ UNCHANGED <<format, surfaces, logged, processing, producer, converter,
                   dataThread, controlThread>>

LockProcessing ==
    /\ worker = "lock" /\ CallbackOut
    /\ worker' = "settle" /\ processing' = "worker"
    /\ UNCHANGED <<format, surfaces, logged, stopping, producer, converter,
                   dataThread, controlThread>>

Settle ==
    /\ worker = "settle" /\ MutexFree
    /\ worker' = "sync" /\ mutex' = "worker"
    /\ UNCHANGED <<imports, pending, gpu, producer, session, dataThread,
                   controlThread>>

SettleReturns ==
    /\ worker = "sync" /\ Settled /\ Release /\ worker' = "destroy"
    /\ UNCHANGED <<imports, producer, session, dataThread, controlThread>>

\* The stream goes, its buffers with it; their imports stay behind.  Then the
\* capture starts again, without a converter, or the worker is done.
DestroySession ==
    /\ worker = "destroy" /\ data = "idle"
    /\ worker' \in {"retried", "end"}
    /\ shared' = [b \in Buffers |-> None] /\ held' = {}
    /\ UNCHANGED <<made, converter, session, dataThread, controlThread>>

StopRetried ==
    /\ worker = "retried" /\ worker' = "end"
    /\ UNCHANGED <<producer, converter, session, dataThread, controlThread>>

\* ~Impl(), with the encoder.
DestroyConverter ==
    /\ worker = "end" /\ Settled
    /\ worker' = "gone" /\ imports' = [b \in Buffers |-> None] /\ pending' = None
    /\ UNCHANGED <<gpu, mutex, producer, session, dataThread, controlThread>>

-----------------------------------------------------------------------------
Control ==
    \/ Negotiate \/ ControlFails \/ AddBuffer \/ AddBufferImports
    \/ RemoveBuffer \/ BufferRemoved

Data ==
    \/ OnProcess \/ Import \/ Convert \/ ConvertFails \/ Converted
    \/ ConvertTimesOut \/ Throw \/ Return

Worker ==
    \/ BeginUpload \/ Uploaded \/ UploadFails \/ Leave \/ LockProcessing
    \/ Settle \/ SettleReturns \/ DestroySession \/ StopRetried
    \/ DestroyConverter

Next == GpuFinishes \/ Control \/ Data \/ Worker

Spec == Init /\ [][Next]_vars

-----------------------------------------------------------------------------
(* What the threads rely on.                                               *)

\* The picture that is converted is the one in the buffer that was dequeued,
\* although its address and its descriptor may have belonged to another buffer
\* before, and a session that stops no longer maintains the cache.
FreshImport == data = "wait" => pending = shared[buffer]

\* "Never release GPU-read memory early": a job that the GPU still works on is
\* the one the converter will wait for, whichever thread comes first; its
\* surface is not destroyed and its buffer not given back to the producer
\* while it lasts; and it does not outlive the session.
GpuReadsSettled ==
    /\ gpu \subseteq {pending}
    /\ \A job \in gpu \ {Upload} :
         /\ \E b \in Buffers : imports[b] = job
         /\ \A b \in Buffers : shared[b] = job => b \in held
         /\ worker \notin {"destroy", "retried", "retriedUpload", "end", "gone"}
    /\ worker \in {"end", "gone"} => gpu = {}

\* "Capture waits only for the GPU-local conversion": the data thread, which
\* runs with real-time priority, never finds the mutex taken, neither by an
\* upload, which may hold it for a second, nor by a removal or the end.
RtNeverBlocked == data \in {"import", "convert"} => MutexFree
=============================================================================
