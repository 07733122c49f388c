--------------------------- MODULE IntelVaapiProofs --------------------------
(* Theorems about the converter for any buffers, descriptors and bound.    *)
EXTENDS IntelVaapi, TLAPS

\* The session is coming to its end, and from "settle" on owns "processing".
Leaving == {"lock", "settle", "sync", "destroy", "retried", "retriedUpload",
            "end", "gone"}
After == {"destroy", "retried", "retriedUpload", "end", "gone"}

\* Who holds which lock, and who may therefore be where.
InvLocks ==
    /\ mutex = "data" <=> data = "wait"
    /\ mutex = "control" <=> control = "remove"
    /\ mutex = "worker" <=> worker \in {"upload", "retriedUpload", "sync"}
    /\ data # "idle" => format = "dma" /\ logged
    /\ worker = "upload" => logged
    /\ worker \in Leaving => stopping
    /\ worker \in Leaving \ {"lock"} => processing = "worker"
    /\ control # "idle" => data = "idle" /\ worker \notin Leaving

\* What the producer shares is numbered, and while the cache is maintained it
\* has of each address the buffer that is there, or nothing.
InvCache ==
    /\ \A b \in Buffers : shared[b].n <= made /\ imports[b].n <= made
    /\ \A b, c \in Buffers : shared[b] # None /\ shared[b] = shared[c] => b = c
    /\ ~stopping \/ data # "idle" =>
         \A b \in Buffers : imports[b] \in {None, shared[b]}
    /\ control # "idle" => shared[victim] # None
    /\ data # "idle" => shared[buffer] # None /\ buffer \in held
    /\ data \in {"convert", "wait"} => imports[buffer] = shared[buffer]

\* A job that outlives its call belongs to a capture that stops.
InvJobs ==
    /\ gpu \subseteq {pending} /\ pending.n <= made
    /\ Upload \in gpu => worker \in {"upload", "retriedUpload"}
    /\ \A job \in gpu \ {Upload} :
         /\ format = "dma" /\ logged
         /\ data \in {"wait", "throw"} \/ (data = "idle" /\ stopping)
         /\ \E b \in Buffers : imports[b] = job
         /\ \A b \in Buffers : shared[b] = job => b \in held
         /\ worker \notin After
    /\ data = "wait" => pending = shared[buffer]

IInv == TypeOK /\ InvLocks /\ InvCache /\ InvJobs

-----------------------------------------------------------------------------
(* Types.                                                                  *)

\* A DMA-BUF is told apart from no buffer and from an upload by its number.
LEMMA Records ==
  /\ None.n = 0 /\ Upload.n = 0 /\ None # Upload
  /\ \A d \in DmaBuf : d.n \in Nat \ {0} /\ d # None /\ d # Upload
  BY ConverterAssumption DEF DmaBuf, None, Upload

\* Nothing is shared, imported or running.
LEMMA InitIInv == Init => IInv
  <1> SUFFICES ASSUME Init PROVE IInv
    OBVIOUS
  <1> USE ConverterAssumption DEF Init
  <1>1. TypeOK
    <2>1. shared \in [Buffers -> DmaBuf \cup {None}]
          /\ imports \in [Buffers -> DmaBuf \cup {None}]
      OBVIOUS
    <2>2. made \in 0..MaxMade /\ held \subseteq Buffers
      OBVIOUS
    <2>3. gpu \subseteq DmaBuf \cup {Upload}
          /\ pending \in DmaBuf \cup {None, Upload}
      OBVIOUS
    <2>4. surfaces \in BOOLEAN /\ logged \in BOOLEAN /\ stopping \in BOOLEAN
      OBVIOUS
    <2> QED BY <2>1, <2>2, <2>3, <2>4 DEF TypeOK
  <1>2. InvLocks
    BY DEF InvLocks, Leaving
  <1>3. InvCache
    BY DEF InvCache, None
  <1>4. InvJobs
    BY DEF InvJobs, None
  <1> QED BY <1>1, <1>2, <1>3, <1>4 DEF IInv

\* Every step keeps the types; what convert() submits has been imported.
LEMMA TypeStep == TypeOK /\ InvLocks /\ InvCache /\ [Next]_vars => TypeOK'
  <1> SUFFICES ASSUME TypeOK, InvLocks, InvCache, [Next]_vars PROVE TypeOK'
    OBVIOUS
  <1> USE ConverterAssumption DEF TypeOK, InvLocks, Leaving, producer,
        converter, session, dataThread, controlThread
  <1>1. CASE GpuFinishes
    BY <1>1 DEF GpuFinishes
  <1>2. CASE Negotiate
    BY <1>2 DEF Negotiate, Quiet, MayNegotiate
  <1>3. CASE ControlFails
    BY <1>3 DEF ControlFails, Quiet
  <1>4. CASE AddBuffer
    BY <1>4 DEF AddBuffer, Quiet, DmaBuf
  <1>5. CASE AddBufferImports
    BY <1>5 DEF AddBufferImports, MutexFree, Imported, ImportThrows, Changed,
          Cached
  <1>6. CASE RemoveBuffer
    BY <1>6 DEF RemoveBuffer, Quiet, Removes, MutexFree, Withdrawn
  <1>7. CASE BufferRemoved
    BY <1>7 DEF BufferRemoved, Settled, Release, Withdrawn
  <1>8. CASE OnProcess
    BY <1>8 DEF OnProcess
  <1>9. CASE Import
    BY <1>9 DEF Import, MutexFree, Imported, ImportThrows, Changed, Cached
  <1>10. CASE Convert
    BY <1>10 DEF InvCache, Convert, MutexFree, Submit
  <1>11. CASE ConvertFails
    BY <1>11 DEF ConvertFails, MutexFree
  <1>12. CASE Converted
    BY <1>12 DEF Converted, Release
  <1>13. CASE ConvertTimesOut
    BY <1>13 DEF ConvertTimesOut
  <1>14. CASE Throw
    BY <1>14 DEF Throw
  <1>15. CASE Return
    BY <1>15 DEF Return
  <1>16. CASE BeginUpload
    BY <1>16 DEF BeginUpload, MutexFree, Submit
  <1>17. CASE Uploaded
    BY <1>17 DEF Uploaded, Release
  <1>18. CASE UploadFails
    BY <1>18 DEF UploadFails, Settled, Release
  <1>19. CASE Leave
    BY <1>19 DEF Leave
  <1>20. CASE LockProcessing
    BY <1>20 DEF LockProcessing, CallbackOut
  <1>21. CASE Settle
    BY <1>21 DEF Settle, MutexFree
  <1>22. CASE SettleReturns
    BY <1>22 DEF SettleReturns, Settled, Release
  <1>23. CASE DestroySession
    BY <1>23 DEF DestroySession
  <1>24. CASE StopRetried
    BY <1>24 DEF StopRetried
  <1>25. CASE DestroyConverter
    BY <1>25 DEF DestroyConverter, Settled
  <1>26. CASE UNCHANGED vars
    BY <1>26 DEF vars
  <1> QED BY <1>1, <1>2, <1>3, <1>4, <1>5, <1>6, <1>7, <1>8, <1>9, <1>10,
       <1>11, <1>12, <1>13, <1>14, <1>15, <1>16, <1>17, <1>18, <1>19, <1>20,
       <1>21, <1>22, <1>23, <1>24, <1>25, <1>26 DEF Next, Control, Data,
       Worker

-----------------------------------------------------------------------------
(* Locks.                                                                  *)

\* The mutex is free, or its holder waits for the GPU with it.
LEMMA LocksStep == TypeOK /\ InvLocks /\ [Next]_vars => InvLocks'
  <1> SUFFICES ASSUME TypeOK, InvLocks, [Next]_vars PROVE InvLocks'
    OBVIOUS
  <1> USE DEF TypeOK, InvLocks, Leaving, producer, converter, session,
        dataThread, controlThread
  <1>1. CASE GpuFinishes
    BY <1>1 DEF GpuFinishes
  <1>2. CASE Negotiate
    BY <1>2 DEF Negotiate, Quiet, MayNegotiate
  <1>3. CASE ControlFails
    BY <1>3 DEF ControlFails, Quiet
  <1>4. CASE AddBuffer
    BY <1>4 DEF AddBuffer, Quiet
  <1>5. CASE AddBufferImports
    BY <1>5 DEF AddBufferImports, MutexFree, Imported, ImportThrows, Changed,
          Cached
  <1>6. CASE RemoveBuffer
    BY <1>6 DEF RemoveBuffer, Quiet, Removes, MutexFree, Withdrawn
  <1>7. CASE BufferRemoved
    BY <1>7 DEF BufferRemoved, Settled, Release, Withdrawn
  <1>8. CASE OnProcess
    BY <1>8 DEF OnProcess
  <1>9. CASE Import
    BY <1>9 DEF Import, MutexFree, Imported, ImportThrows, Changed, Cached
  <1>10. CASE Convert
    BY <1>10 DEF Convert, MutexFree, Submit
  <1>11. CASE ConvertFails
    BY <1>11 DEF ConvertFails, MutexFree
  <1>12. CASE Converted
    BY <1>12 DEF Converted, Release
  <1>13. CASE ConvertTimesOut
    BY <1>13 DEF ConvertTimesOut
  <1>14. CASE Throw
    BY <1>14 DEF Throw
  <1>15. CASE Return
    BY <1>15 DEF Return
  <1>16. CASE BeginUpload
    BY <1>16 DEF BeginUpload, MutexFree, Submit
  <1>17. CASE Uploaded
    BY <1>17 DEF Uploaded, Release
  <1>18. CASE UploadFails
    BY <1>18 DEF UploadFails, Settled, Release
  <1>19. CASE Leave
    BY <1>19 DEF Leave
  <1>20. CASE LockProcessing
    BY <1>20 DEF LockProcessing, CallbackOut
  <1>21. CASE Settle
    BY <1>21 DEF Settle, MutexFree
  <1>22. CASE SettleReturns
    BY <1>22 DEF SettleReturns, Settled, Release
  <1>23. CASE DestroySession
    BY <1>23 DEF DestroySession
  <1>24. CASE StopRetried
    BY <1>24 DEF StopRetried
  <1>25. CASE DestroyConverter
    BY <1>25 DEF DestroyConverter, Settled
  <1>26. CASE UNCHANGED vars
    BY <1>26 DEF vars
  <1> QED BY <1>1, <1>2, <1>3, <1>4, <1>5, <1>6, <1>7, <1>8, <1>9, <1>10,
       <1>11, <1>12, <1>13, <1>14, <1>15, <1>16, <1>17, <1>18, <1>19, <1>20,
       <1>21, <1>22, <1>23, <1>24, <1>25, <1>26 DEF Next, Control, Data,
       Worker

-----------------------------------------------------------------------------
(* The cache.                                                              *)

\* While the session lives, remove() keeps the cache true.
LEMMA CacheStep == TypeOK /\ InvLocks /\ InvCache /\ [Next]_vars => InvCache'
  <1> SUFFICES ASSUME TypeOK, InvLocks, InvCache, [Next]_vars PROVE InvCache'
    OBVIOUS
  <1> USE Records DEF TypeOK, InvLocks, InvCache, Leaving, producer,
        converter, session, dataThread, controlThread
  <1>1. CASE GpuFinishes
    BY <1>1 DEF GpuFinishes
  <1>2. CASE Negotiate
    BY <1>2 DEF Negotiate, Quiet, MayNegotiate
  <1>3. CASE ControlFails
    BY <1>3 DEF ControlFails, Quiet
  <1>4. CASE AddBuffer
    BY <1>4 DEF AddBuffer, Quiet
  <1>5. CASE AddBufferImports
    BY <1>5 DEF AddBufferImports, MutexFree, Imported, ImportThrows, Changed,
          Cached
  <1>6. CASE RemoveBuffer
    BY <1>6 DEF RemoveBuffer, Quiet, Removes, MutexFree, Withdrawn
  <1>7. CASE BufferRemoved
    BY <1>7 DEF BufferRemoved, Settled, Release, Withdrawn
  <1>8. CASE OnProcess
    BY <1>8 DEF OnProcess
  <1>9. CASE Import
    BY <1>9 DEF Import, MutexFree, Imported, ImportThrows, Changed, Cached
  <1>10. CASE Convert
    BY <1>10 DEF Convert, MutexFree, Submit
  <1>11. CASE ConvertFails
    BY <1>11 DEF ConvertFails, MutexFree
  <1>12. CASE Converted
    BY <1>12 DEF Converted, Release
  <1>13. CASE ConvertTimesOut
    BY <1>13 DEF ConvertTimesOut
  <1>14. CASE Throw
    BY <1>14 DEF Throw
  <1>15. CASE Return
    BY <1>15 DEF Return
  <1>16. CASE BeginUpload
    BY <1>16 DEF BeginUpload, MutexFree, Submit
  <1>17. CASE Uploaded
    BY <1>17 DEF Uploaded, Release
  <1>18. CASE UploadFails
    BY <1>18 DEF UploadFails, Settled, Release
  <1>19. CASE Leave
    BY <1>19 DEF Leave
  <1>20. CASE LockProcessing
    BY <1>20 DEF LockProcessing, CallbackOut
  <1>21. CASE Settle
    BY <1>21 DEF Settle, MutexFree
  <1>22. CASE SettleReturns
    BY <1>22 DEF SettleReturns, Settled, Release
  <1>23. CASE DestroySession
    BY <1>23 DEF DestroySession
  <1>24. CASE StopRetried
    BY <1>24 DEF StopRetried
  <1>25. CASE DestroyConverter
    BY <1>25 DEF DestroyConverter, Settled
  <1>26. CASE UNCHANGED vars
    BY <1>26 DEF vars
  <1> QED BY <1>1, <1>2, <1>3, <1>4, <1>5, <1>6, <1>7, <1>8, <1>9, <1>10,
       <1>11, <1>12, <1>13, <1>14, <1>15, <1>16, <1>17, <1>18, <1>19, <1>20,
       <1>21, <1>22, <1>23, <1>24, <1>25, <1>26 DEF Next, Control, Data,
       Worker

-----------------------------------------------------------------------------
(* Jobs.                                                                   *)

\* A job is submitted only where none is left.
LEMMA JobsStep ==
  TypeOK /\ InvLocks /\ InvCache /\ InvJobs /\ [Next]_vars => InvJobs'
  <1> SUFFICES ASSUME TypeOK, InvLocks, InvCache, InvJobs, [Next]_vars
               PROVE  InvJobs'
    OBVIOUS
  <1> USE Records DEF TypeOK, InvLocks, InvCache, InvJobs, Leaving, After,
        producer, converter, session, dataThread, controlThread
  <1>1. CASE GpuFinishes
    BY <1>1 DEF GpuFinishes
  <1>2. CASE Negotiate
    BY <1>2 DEF Negotiate, Quiet, MayNegotiate
  <1>3. CASE ControlFails
    BY <1>3 DEF ControlFails, Quiet
  <1>4. CASE AddBuffer
    BY <1>4 DEF AddBuffer, Quiet
  <1>5. CASE AddBufferImports
    BY <1>5 DEF AddBufferImports, MutexFree, Imported, ImportThrows, Changed,
          Cached
  <1>6. CASE RemoveBuffer
    BY <1>6 DEF RemoveBuffer, Quiet, Removes, MutexFree, Withdrawn
  <1>7. CASE BufferRemoved
    BY <1>7 DEF BufferRemoved, Settled, Release, Withdrawn
  <1>8. CASE OnProcess
    BY <1>8 DEF OnProcess
  <1>9. CASE Import
    BY <1>9 DEF Import, MutexFree, Imported, ImportThrows, Changed, Cached
  <1>10. CASE Convert
    BY <1>10 DEF Convert, MutexFree, Submit
  <1>11. CASE ConvertFails
    BY <1>11 DEF ConvertFails, MutexFree
  <1>12. CASE Converted
    BY <1>12 DEF Converted, Release
  <1>13. CASE ConvertTimesOut
    BY <1>13 DEF ConvertTimesOut
  <1>14. CASE Throw
    BY <1>14 DEF Throw
  <1>15. CASE Return
    BY <1>15 DEF Return
  <1>16. CASE BeginUpload
    BY <1>16 DEF BeginUpload, MutexFree, Submit
  <1>17. CASE Uploaded
    BY <1>17 DEF Uploaded, Release
  <1>18. CASE UploadFails
    BY <1>18 DEF UploadFails, Settled, Release
  <1>19. CASE Leave
    BY <1>19 DEF Leave
  <1>20. CASE LockProcessing
    BY <1>20 DEF LockProcessing, CallbackOut
  <1>21. CASE Settle
    BY <1>21 DEF Settle, MutexFree
  <1>22. CASE SettleReturns
    BY <1>22 DEF SettleReturns, Settled, Release
  <1>23. CASE DestroySession
    BY <1>23 DEF DestroySession
  <1>24. CASE StopRetried
    BY <1>24 DEF StopRetried
  <1>25. CASE DestroyConverter
    BY <1>25 DEF DestroyConverter, Settled
  <1>26. CASE UNCHANGED vars
    BY <1>26 DEF vars
  <1> QED BY <1>1, <1>2, <1>3, <1>4, <1>5, <1>6, <1>7, <1>8, <1>9, <1>10,
       <1>11, <1>12, <1>13, <1>14, <1>15, <1>16, <1>17, <1>18, <1>19, <1>20,
       <1>21, <1>22, <1>23, <1>24, <1>25, <1>26 DEF Next, Control, Data,
       Worker

-----------------------------------------------------------------------------
(* The invariant, and what follows from it.                                *)

\* All of the above holds in every state.
THEOREM Invariant == Spec => []IInv
  <1>1. IInv /\ [Next]_vars => IInv'
    BY TypeStep, LocksStep, CacheStep, JobsStep DEF IInv
  <1> QED BY <1>1, InitIInv, PTL DEF Spec

\* Type correctness: a callback always holds the lock of the callback, and an
\* upload within the session is one of a CPU picture.
THEOREM TypeCorrect == Spec => []TypeOK
  <1>1. IInv => TypeOK
    BY DEF IInv
  <1> QED BY <1>1, Invariant, PTL

\* What is converted is the picture in the buffer that was dequeued, however
\* addresses and descriptors are reused: convert() finds the import of its
\* buffer, because remove() and the check of import() keep the cache true
\* while the session lives, and a session that stops converts no more.
THEOREM ImportIsFresh == Spec => []FreshImport
  <1>1. IInv => FreshImport
    BY DEF IInv, InvJobs, FreshImport
  <1> QED BY <1>1, Invariant, PTL

\* The GPU never works on what the converter has forgotten, destroyed or given
\* back: the job that timed out is the only one, since the capture stops with
\* it, and settle(), remove() and the destructor wait for it.
THEOREM ReadsAreSettled == Spec => []GpuReadsSettled
  <1>1. IInv => GpuReadsSettled
    <2> SUFFICES ASSUME IInv PROVE GpuReadsSettled
      OBVIOUS
    <2> USE DEF IInv, InvJobs
    <2>1. gpu \subseteq {pending}
      OBVIOUS
    <2>2. ASSUME NEW job \in gpu \ {Upload}
          PROVE  /\ \E b \in Buffers : imports[b] = job
                 /\ \A b \in Buffers : shared[b] = job => b \in held
                 /\ worker \notin {"destroy", "retried", "retriedUpload",
                                   "end", "gone"}
      BY DEF After
    <2>3. worker \in {"end", "gone"} => gpu = {}
      BY DEF After
    <2> QED BY <2>1, <2>2, <2>3 DEF GpuReadsSettled
  <1> QED BY <1>1, Invariant, PTL

\* The real-time thread never waits for the mutex: whoever holds it does so
\* while no callback can run.
THEOREM DataThreadNeverWaits == Spec => []RtNeverBlocked
  <1>1. IInv => RtNeverBlocked
    BY DEF IInv, TypeOK, InvLocks, RtNeverBlocked, MutexFree, Leaving
  <1> QED BY <1>1, Invariant, PTL
=============================================================================
