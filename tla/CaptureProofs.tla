----------------------------- MODULE CaptureProofs ---------------------------
(* Theorems about a capture session with any pool and any producer.        *)
EXTENDS Capture, SequenceTheorems, TLAPS

\* What the frames are used for: at most two wait in the queue, whatever holds
\* one still finds its picture there, the frame being written is nobody's, and
\* no frame is used before the format has been settled by a first picture.
InvFrames ==
    /\ Len(queue) <= 2
    /\ \A i \in 1..Len(queue) : contents[queue[i].frame] = queue[i].n
    /\ sample # None => contents[sample.frame] = sample.n
    /\ lastSample # None => contents[lastSample.frame] = lastSample.n
    /\ data \in {"write", "push"} =>
         /\ frame \in Frames
         /\ frame # sample.frame /\ frame # lastSample.frame
         /\ \A i \in 1..Len(queue) : queue[i].frame # frame
    /\ data = "push" => contents[frame] = latest
    /\ queue # <<>> \/ sample # None \/ lastSample # None
         \/ data \in {"write", "push"} => logged

\* Where the producer's buffers are: with the producer, filled, or in the
\* callback's hands; those that a failure has kept are missing.
InHands == IF latest # NoPicture THEN 1 ELSE 0
InvBuffers ==
    /\ ready \in Seq(Nat \ {0})
    /\ free + Len(ready) + InHands <= Buffers
    /\ ~stopping => free + Len(ready) + InHands = Buffers
    /\ data \in {"idle", "entered"} => latest = NoPicture
    /\ data \in {"consume", "write", "push", "return"} => latest # NoPicture

IInv == TypeOK /\ InvFrames /\ InvBuffers

-----------------------------------------------------------------------------
(* Lemmas about sequences and frames.                                      *)

\* The rest of a sequence that is not empty.
LEMMA TailFacts ==
  ASSUME NEW S, NEW q \in Seq(S), q # <<>>
  PROVE  /\ Head(q) \in S /\ Tail(q) \in Seq(S)
         /\ Len(q) \in Nat \ {0} /\ Len(Tail(q)) = Len(q) - 1
         /\ \A i \in 1..Len(Tail(q)) : Tail(q)[i] = q[i + 1]
  BY HeadTailProperties, EmptySeq

\* What Push keeps of the queue.
LEMMA PushFacts ==
  ASSUME NEW q \in Seq(Sample), Len(q) <= 2, NEW s \in Sample
  PROVE  LET p == Append(IF Len(q) = 2 THEN Tail(q) ELSE q, s) IN
         /\ p \in Seq(Sample) /\ Len(p) <= 2
         /\ \A i \in 1..Len(p) : p[i] = s \/ \E j \in 1..Len(q) : p[i] = q[j]
  <1> DEFINE rest == IF Len(q) = 2 THEN Tail(q) ELSE q
  <1>1. /\ rest \in Seq(Sample) /\ Len(rest) \in {0, 1}
        /\ \A i \in 1..Len(rest) : \E j \in 1..Len(q) : rest[i] = q[j]
    <2>1. CASE Len(q) = 2
      <3>1. q # <<>>
        BY <2>1, EmptySeq
      <3>2. /\ Tail(q) \in Seq(Sample) /\ Len(Tail(q)) = 1
            /\ \A i \in 1..Len(Tail(q)) : Tail(q)[i] = q[i + 1]
        BY <2>1, <3>1, TailFacts
      <3> QED BY <2>1, <3>2
    <2>2. CASE Len(q) # 2
      <3>1. Len(q) \in Nat
        BY LenProperties
      <3> DEFINE n == Len(q)
      <3>2. n \in Nat /\ n <= 2 /\ n # 2
        BY <2>2, <3>1
      <3> HIDE DEF n
      <3>3. n \in {0, 1}
        BY ONLY <3>2
      <3> QED BY <2>2, <3>3 DEF n
    <2> QED BY <2>1, <2>2
  <1> HIDE DEF rest
  <1> DEFINE p == Append(rest, s)
  <1>2. /\ p \in Seq(Sample) /\ Len(p) = Len(rest) + 1
        /\ \A i \in 1..Len(rest) : p[i] = rest[i]
        /\ p[Len(rest) + 1] = s
    BY <1>1, AppendProperties
  <1> HIDE DEF p
  <1>3. p \in Seq(Sample) /\ Len(p) <= 2
    BY <1>1, <1>2
  <1>4. ASSUME NEW i \in 1..Len(p)
        PROVE  p[i] = s \/ \E j \in 1..Len(q) : p[i] = q[j]
    <2>1. i \in 1..Len(rest) \/ i = Len(rest) + 1
      BY <1>1, <1>2
    <2> QED BY <1>1, <1>2, <2>1
  <1> QED BY <1>3, <1>4 DEF p, rest

\* Queue, encoded frame and repeated frame use four frames at most.
LEMMA FourInUse ==
  ASSUME TypeOK, Len(queue) <= 2, PoolSize >= 5
  PROVE  FreeFrames # {}
  <1> DEFINE a == IF Len(queue) >= 1 THEN queue[1].frame ELSE 0
             b == IF Len(queue) = 2 THEN queue[2].frame ELSE 0
  <1>1. Len(queue) \in Nat
    BY LenProperties DEF TypeOK
  <1>2. ASSUME NEW i \in 1..Len(queue)
        PROVE  queue[i].frame \in {a, b}
    <2>1. (i = 1 /\ Len(queue) >= 1) \/ (i = 2 /\ Len(queue) = 2)
      BY <1>1
    <2> QED BY <2>1
  <1> HIDE DEF a, b
  <1>3. QueuedFrames \subseteq {a, b}
    BY <1>2 DEF QueuedFrames
  <1>4. \E f \in 1..5 : f \notin {a, b, sample.frame, lastSample.frame}
    OBVIOUS
  <1>5. 1..5 \subseteq Frames
    BY CaptureAssumption DEF Frames
  <1> QED BY <1>3, <1>4, <1>5 DEF FreeFrames

\* A session begins with nothing.
LEMMA InitIInv == Init => IInv
  <1> SUFFICES ASSUME Init PROVE IInv
    OBVIOUS
  <1> USE CaptureAssumption DEF Init, NoPicture
  <1>1. TypeOK
    <2>1. ready \in Seq(Nat) /\ queue \in Seq(Sample)
      BY EmptySeq
    <2>2. /\ logged \in BOOLEAN /\ hardware \in BOOLEAN /\ stopping \in BOOLEAN
          /\ error \in BOOLEAN /\ streamed \in BOOLEAN
      OBVIOUS
    <2>3. contents \in [Frames -> Nat]
      OBVIOUS
    <2>4. free \in 0..Buffers
      OBVIOUS
    <2> QED BY <2>1, <2>2, <2>3, <2>4 DEF TypeOK
  <1>2. InvFrames
    BY DEF InvFrames
  <1>3. InvBuffers
    BY DEF InvBuffers, InHands
  <1> QED BY <1>1, <1>2, <1>3 DEF IInv

\* Every step keeps the types.
LEMMA TypeStep ==
  IInv /\ [Next]_vars => TypeOK'
  <1> SUFFICES ASSUME IInv, [Next]_vars
               PROVE  TypeOK'
    OBVIOUS
  <1> USE CaptureAssumption DEF IInv, TypeOK, NoPicture, producer, callback,
          session, samples, worker
  <1>1. CASE Control
    <2>1. CASE StateStreaming
      BY <2>1 DEF StateStreaming
    <2>2. CASE StreamError
      BY <2>2 DEF StreamError
    <2>3. CASE StreamEnded
      BY <2>3 DEF StreamEnded
    <2>4. CASE FormatChanged
      <3>1. ready' \in Seq(Nat) /\ queue' \in Seq(Sample)
        BY <2>4, EmptySeq DEF FormatChanged, Unexpected, Refused, Negotiated
      <3>2. /\ logged' \in BOOLEAN /\ hardware' \in BOOLEAN
            /\ stopping' \in BOOLEAN /\ error' \in BOOLEAN
        BY <2>4 DEF FormatChanged, Unexpected, Refused, Negotiated
      <3>3. /\ free' \in 0..Buffers /\ recorded' \in Nat
            /\ memory' \in {"none", "cpu", "dma"}
        BY <2>4 DEF FormatChanged, Unexpected, Refused, Negotiated, Offered
      <3> QED BY <2>4, <3>1, <3>2, <3>3 DEF FormatChanged
    <2>5. CASE AddBufferFails
      BY <2>5 DEF AddBufferFails
    <2> QED BY <1>1, <2>1, <2>2, <2>3, <2>4, <2>5 DEF Control
  <1>2. CASE OnProcess
    <2>1. CASE LeaveEarly
      BY <2>1 DEF LeaveEarly, GivesUp
    <2>2. CASE Lock
      BY <2>2 DEF Lock
    <2>3. CASE Dequeue
      <3>1. ready # <<>> /\ ready \in Seq(Nat \ {0})
        BY <2>3 DEF Dequeue, InvBuffers
      <3>2. /\ Head(ready) \in Nat \ {0} /\ Tail(ready) \in Seq(Nat \ {0})
            /\ Len(ready) \in Nat \ {0} /\ Len(Tail(ready)) = Len(ready) - 1
        BY <3>1, TailFacts
      <3>3. ready' \in Seq(Nat)
        BY <2>3, <3>1, TailFacts, Zenon DEF Dequeue, TypeOK
      <3>4. free' \in 0..Buffers /\ drops' \in Nat
        BY <2>3, <3>2 DEF Dequeue, Superseded, InvBuffers, InHands
      <3> QED BY <2>3, <3>2, <3>3, <3>4 DEF Dequeue
    <2>4. CASE Drained
      BY <2>4 DEF Drained
    <2>5. CASE DropEmpty
      BY <2>5 DEF DropEmpty
    <2>6. CASE Throw
      <3>1. /\ logged' \in BOOLEAN /\ hardware' \in BOOLEAN
            /\ stopping' \in BOOLEAN /\ error' \in BOOLEAN
        BY <2>6 DEF Throw, Thrown
      <3> QED BY <2>6, <3>1 DEF Throw, Thrown
    <2>7. CASE TooSmall
      BY <2>7 DEF TooSmall
    <2>8. CASE PickFrame
      BY <2>8 DEF PickFrame, AnyOf, FreeFrames
    <2>9. CASE Write
      <3>1. contents' \in [Frames -> Nat]
        BY <2>9 DEF Write
      <3> QED BY <2>9, <3>1 DEF Write
    <2>10. CASE ConversionFails
      BY <2>10 DEF ConversionFails, Thrown
    <2>11. CASE Push
      <3>1. [frame |-> frame, n |-> latest] \in Sample
        BY <2>11 DEF Push, InvFrames, Sample
      <3>2. queue' \in Seq(Sample)
        BY <2>11, <3>1, PushFacts DEF Push, QueueFull, InvFrames
      <3> QED BY <2>11, <3>2 DEF Push
    <2>12. CASE Return
      <3>1. Len(ready) \in Nat
        BY LenProperties
      <3>2. free' \in 0..Buffers
        BY <2>12, <3>1 DEF Return, InvBuffers, InHands
      <3> QED BY <2>12, <3>2 DEF Return
    <2> QED BY <1>2, <2>1, <2>2, <2>3, <2>4, <2>5, <2>6, <2>7, <2>8, <2>9,
           <2>10, <2>11, <2>12 DEF OnProcess
  <1>3. CASE Owner
    <2>1. CASE Connect
      BY <2>1 DEF Connect
    <2>2. CASE ConnectFails
      BY <2>2 DEF ConnectFails
    <2>3. CASE Next_
      BY <2>3 DEF Next_, HasError
    <2>4. CASE Take
      BY <2>4 DEF Take, LeftBehind, StaleIn
    <2>5. CASE NothingTaken
      BY <2>5 DEF NothingTaken
    <2>6. CASE Encode
      BY <2>6 DEF Encode
    <2>7. CASE LockLoop
      BY <2>7 DEF LockLoop
    <2>8. CASE LockProcessing
      BY <2>8 DEF LockProcessing, ProcessingFree
    <2>9. CASE Destroy
      BY <2>9 DEF Destroy
    <2> QED BY <1>3, <2>1, <2>2, <2>3, <2>4, <2>5, <2>6, <2>7, <2>8, <2>9 DEF
           Owner
  <1>4. CASE Produce
    BY <1>4 DEF Produce
  <1>5. CASE Enter
    BY <1>5 DEF Enter
  <1>6. CASE LeaveLoop
    BY <1>6 DEF LeaveLoop
  <1>7. CASE Finished
    BY <1>7 DEF Finished, vars
  <1>8. CASE UNCHANGED vars
    BY <1>8 DEF vars
  <1> QED BY <1>1, <1>2, <1>3, <1>4, <1>5, <1>6, <1>7, <1>8 DEF Next

\* A frame is picked only if nobody else has it, and is written until it is
\* queued; samples only move from the queue to the worker.
LEMMA FramesStep ==
  TypeOK /\ InvFrames /\ [Next]_vars => InvFrames'
  <1> SUFFICES ASSUME TypeOK, InvFrames, [Next]_vars
               PROVE  InvFrames'
    OBVIOUS
  <1> USE CaptureAssumption DEF TypeOK, InvFrames, producer, callback,
          session, samples, worker
  <1>1. CASE Control
    <2>1. CASE StateStreaming
      BY <2>1 DEF StateStreaming
    <2>2. CASE StreamError
      BY <2>2 DEF StreamError
    <2>3. CASE StreamEnded
      BY <2>3 DEF StreamEnded
    <2>4. CASE FormatChanged
      BY <2>4 DEF FormatChanged, Unexpected, Refused, Negotiated
    <2>5. CASE AddBufferFails
      BY <2>5 DEF AddBufferFails
    <2> QED BY <1>1, <2>1, <2>2, <2>3, <2>4, <2>5 DEF Control
  <1>2. CASE OnProcess
    <2>1. CASE LeaveEarly
      BY <2>1 DEF LeaveEarly, GivesUp
    <2>2. CASE Lock
      BY <2>2 DEF Lock
    <2>3. CASE Dequeue
      BY <2>3 DEF Dequeue, Superseded
    <2>4. CASE Drained
      BY <2>4 DEF Drained
    <2>5. CASE DropEmpty
      BY <2>5 DEF DropEmpty
    <2>6. CASE Throw
      BY <2>6 DEF Throw, Thrown
    <2>7. CASE TooSmall
      BY <2>7 DEF TooSmall
    <2>8. CASE PickFrame
      BY <2>8 DEF PickFrame, AnyOf, FreeFrames, QueuedFrames
    <2>9. CASE Write
      BY <2>9 DEF Write
    <2>10. CASE ConversionFails
      BY <2>10 DEF ConversionFails, Thrown
    <2>11. CASE Push
      <3> DEFINE new == [frame |-> frame, n |-> latest]
      <3>1. new \in Sample /\ contents[frame] = latest /\ logged
        BY <2>11 DEF Push, Sample
      <3>2. /\ Len(queue') <= 2
            /\ \A i \in 1..Len(queue') :
                 \/ queue'[i] = new
                 \/ \E j \in 1..Len(queue) : queue'[i] = queue[j]
        BY <2>11, <3>1, PushFacts DEF Push, QueueFull
      <3>3. \A i \in 1..Len(queue') : contents[queue'[i].frame] = queue'[i].n
        BY <3>1, <3>2
      <3>4. /\ UNCHANGED <<contents, sample, lastSample, logged>>
            /\ data' = "return"
        BY <2>11 DEF Push
      <3> QED BY <3>1, <3>2, <3>3, <3>4
    <2>12. CASE Return
      BY <2>12 DEF Return
    <2> QED BY <1>2, <2>1, <2>2, <2>3, <2>4, <2>5, <2>6, <2>7, <2>8, <2>9,
           <2>10, <2>11, <2>12 DEF OnProcess
  <1>3. CASE Owner
    <2>1. CASE Connect
      BY <2>1 DEF Connect
    <2>2. CASE ConnectFails
      BY <2>2 DEF ConnectFails
    <2>3. CASE Next_
      BY <2>3 DEF Next_, HasError
    <2>4. CASE Take
      BY <2>4 DEF Take, LeftBehind, StaleIn
    <2>5. CASE NothingTaken
      BY <2>5 DEF NothingTaken
    <2>6. CASE Encode
      <3>1. UNCHANGED <<queue, contents, data, frame, latest, logged>>
            /\ lastSample' = sample /\ sample' = None
        BY <2>6 DEF Encode
      <3>2. data \in {"write", "push"} => frame # 0
        BY DEF Frames
      <3> QED BY <3>1, <3>2 DEF None
    <2>7. CASE LockLoop
      BY <2>7 DEF LockLoop
    <2>8. CASE LockProcessing
      BY <2>8 DEF LockProcessing, ProcessingFree
    <2>9. CASE Destroy
      BY <2>9 DEF Destroy
    <2> QED BY <1>3, <2>1, <2>2, <2>3, <2>4, <2>5, <2>6, <2>7, <2>8, <2>9 DEF
           Owner
  <1>4. CASE Produce
    BY <1>4 DEF Produce
  <1>5. CASE Enter
    BY <1>5 DEF Enter
  <1>6. CASE LeaveLoop
    BY <1>6 DEF LeaveLoop
  <1>7. CASE Finished
    BY <1>7 DEF Finished, vars
  <1>8. CASE UNCHANGED vars
    BY <1>8 DEF vars
  <1> QED BY <1>1, <1>2, <1>3, <1>4, <1>5, <1>6, <1>7, <1>8 DEF Next

\* Every buffer that is dequeued is given back, superseded or returned.
LEMMA BuffersStep ==
  TypeOK /\ InvBuffers /\ [Next]_vars => InvBuffers'
  <1> SUFFICES ASSUME TypeOK, InvBuffers, [Next]_vars
               PROVE  InvBuffers'
    OBVIOUS
  <1> USE CaptureAssumption DEF TypeOK, InvBuffers, InHands, NoPicture,
          producer, callback, session, samples, worker
  <1>1. CASE Control
    <2>1. CASE StateStreaming
      BY <2>1 DEF StateStreaming
    <2>2. CASE StreamError
      BY <2>2 DEF StreamError
    <2>3. CASE StreamEnded
      BY <2>3 DEF StreamEnded
    <2>4. CASE FormatChanged
      <3>1. <<>> \in Seq(Nat \ {0}) /\ Len(<<>>) = 0
        BY EmptySeq
      <3>2. latest = NoPicture /\ data' = data /\ latest' = latest
        BY <2>4 DEF FormatChanged
      <3>3. CASE UNCHANGED <<free, ready>> /\ stopping' \in {stopping, TRUE}
        BY <3>2, <3>3
      <3>4. CASE free' = Buffers /\ ready' = <<>>
        BY <3>1, <3>2, <3>4
      <3>5. \/ UNCHANGED <<free, ready>> /\ stopping' \in {stopping, TRUE}
            \/ free' = Buffers /\ ready' = <<>>
        BY <2>4 DEF FormatChanged, Unexpected, Refused, Negotiated
      <3> QED BY <3>3, <3>4, <3>5
    <2>5. CASE AddBufferFails
      BY <2>5 DEF AddBufferFails
    <2> QED BY <1>1, <2>1, <2>2, <2>3, <2>4, <2>5 DEF Control
  <1>2. CASE OnProcess
    <2>1. CASE LeaveEarly
      BY <2>1 DEF LeaveEarly, GivesUp
    <2>2. CASE Lock
      BY <2>2 DEF Lock
    <2>3. CASE Dequeue
      <3>1. ready # <<>> /\ ready \in Seq(Nat \ {0})
        BY <2>3 DEF Dequeue, InvBuffers
      <3>2. /\ Head(ready) \in Nat \ {0} /\ Tail(ready) \in Seq(Nat \ {0})
            /\ Len(ready) \in Nat \ {0} /\ Len(Tail(ready)) = Len(ready) - 1
        BY <3>1, TailFacts
      <3>3. /\ ready' \in Seq(Nat \ {0}) /\ Len(ready') = Len(ready) - 1
            /\ latest' # NoPicture /\ InHands' = 1
            /\ free' = free + InHands
            /\ UNCHANGED <<data, stopping>> /\ data = "drain"
        BY <2>3, <3>2 DEF Dequeue, Superseded
      <3>4. free \in Int /\ Buffers \in Int /\ InHands \in {0, 1}
        OBVIOUS
      <3>5. /\ free + Len(ready) + InHands <= Buffers
            /\ ~stopping => free + Len(ready) + InHands = Buffers
        OBVIOUS
      <3>6. /\ free' + Len(ready') + InHands' <= Buffers
            /\ ~stopping' => free' + Len(ready') + InHands' = Buffers
        BY ONLY <3>2, <3>3, <3>4, <3>5
      <3> QED BY <3>3, <3>6
    <2>4. CASE Drained
      BY <2>4 DEF Drained
    <2>5. CASE DropEmpty
      BY <2>5 DEF DropEmpty
    <2>6. CASE Throw
      BY <2>6 DEF Throw, Thrown
    <2>7. CASE TooSmall
      BY <2>7 DEF TooSmall
    <2>8. CASE PickFrame
      BY <2>8 DEF PickFrame, AnyOf, FreeFrames
    <2>9. CASE Write
      BY <2>9 DEF Write
    <2>10. CASE ConversionFails
      BY <2>10 DEF ConversionFails, Thrown
    <2>11. CASE Push
      BY <2>11 DEF Push, QueueFull
    <2>12. CASE Return
      BY <2>12 DEF Return
    <2> QED BY <1>2, <2>1, <2>2, <2>3, <2>4, <2>5, <2>6, <2>7, <2>8, <2>9,
           <2>10, <2>11, <2>12 DEF OnProcess
  <1>3. CASE Owner
    <2>1. CASE Connect
      BY <2>1 DEF Connect
    <2>2. CASE ConnectFails
      BY <2>2 DEF ConnectFails
    <2>3. CASE Next_
      BY <2>3 DEF Next_, HasError
    <2>4. CASE Take
      BY <2>4 DEF Take, LeftBehind, StaleIn
    <2>5. CASE NothingTaken
      BY <2>5 DEF NothingTaken
    <2>6. CASE Encode
      BY <2>6 DEF Encode
    <2>7. CASE LockLoop
      BY <2>7 DEF LockLoop
    <2>8. CASE LockProcessing
      BY <2>8 DEF LockProcessing, ProcessingFree
    <2>9. CASE Destroy
      BY <2>9 DEF Destroy
    <2> QED BY <1>3, <2>1, <2>2, <2>3, <2>4, <2>5, <2>6, <2>7, <2>8, <2>9 DEF
           Owner
  <1>4. CASE Produce
    <2>1. /\ Append(ready, recorded + 1) \in Seq(Nat \ {0})
          /\ Len(Append(ready, recorded + 1)) = Len(ready) + 1
          /\ Len(ready) \in Nat
      BY AppendProperties, LenProperties
    <2>2. /\ ready' \in Seq(Nat \ {0}) /\ Len(ready') = Len(ready) + 1
          /\ free' = free - 1
          /\ UNCHANGED <<data, latest, stopping>>
      BY <1>4, <2>1 DEF Produce
    <2> QED BY <2>1, <2>2
  <1>5. CASE Enter
    BY <1>5 DEF Enter
  <1>6. CASE LeaveLoop
    BY <1>6 DEF LeaveLoop
  <1>7. CASE Finished
    BY <1>7 DEF Finished, vars
  <1>8. CASE UNCHANGED vars
    BY <1>8 DEF vars
  <1> QED BY <1>1, <1>2, <1>3, <1>4, <1>5, <1>6, <1>7, <1>8 DEF Next

-----------------------------------------------------------------------------
(* The invariant, and what follows from it.                                *)

\* All of the above holds in every state.
THEOREM Invariant == Spec => []IInv
  <1>1. IInv /\ [Next]_vars => IInv'
    BY TypeStep, FramesStep, BuffersStep DEF IInv
  <1> QED BY <1>1, InitIInv, PTL DEF Spec

\* Type correctness, with the producer never owed more buffers than it has.
THEOREM TypeCorrect == Spec => []TypeOK
  <1>1. IInv => TypeOK
    BY DEF IInv
  <1> QED BY <1>1, Invariant, PTL

\* Nobody's frame is written over, however the data thread's use_count() and
\* the worker's moves interleave, for a pool of any size.
THEOREM FramesStayIntact == Spec => []Intact
  <1>1. IInv => Intact
    BY DEF IInv, InvFrames, Intact, Held
  <1> QED BY <1>1, Invariant, PTL

\* Five frames are enough: "Queue (2) + frame being encoded + last frame kept
\* for static repeats, plus one spare".
THEOREM FiveAreEnough ==
  ASSUME PoolSize >= 5
  PROVE  Spec => []NoStarvation
  <1>1. IInv => NoStarvation
    BY FourInUse DEF IInv, InvFrames, NoStarvation
  <1> QED BY <1>1, Invariant, PTL

\* Pictures in use pin the kind of memory: the format changes only before the
\* first picture.
THEOREM MemoryIsKept == Spec => PoolKept
  <1>1. IInv /\ [Next]_vars =>
          [Held # {} => memory' = memory /\ hardware' = hardware]_vars
    <2> SUFFICES ASSUME IInv, [Next]_vars, Held # {}
                 PROVE  memory' = memory /\ hardware' = hardware
      OBVIOUS
    <2>1. queue # <<>> \/ sample # None \/ lastSample # None
      <3>1. queue = <<>> => 1..Len(queue) = {}
        OBVIOUS
      <3> QED BY <3>1 DEF Held
    <2>2. logged
      BY <2>1 DEF IInv, InvFrames
    <2>3. CASE FormatChanged
      BY <2>2, <2>3 DEF FormatChanged, Unexpected, Refused, Negotiated,
                        Captured
    <2>4. CASE UNCHANGED <<memory, hardware>>
      BY <2>4
    <2>5. FormatChanged \/ UNCHANGED <<memory, hardware>>
      BY DEF Next, Control, OnProcess, Owner, Produce, StateStreaming,
             StreamError, StreamEnded, AddBufferFails, Enter, LeaveEarly, Lock,
             Dequeue, Drained, DropEmpty, Throw, Thrown, TooSmall, PickFrame,
             Write, ConversionFails, Push, Return, LeaveLoop, Connect,
             ConnectFails, Next_, Take, NothingTaken, Encode, LockLoop,
             LockProcessing, Destroy, Finished, vars, session
    <2> QED BY <2>3, <2>4, <2>5
  <1> QED BY <1>1, Invariant, PTL DEF Spec, PoolKept

-----------------------------------------------------------------------------
(* The account of every picture.                                           *)

\* A callback with a picture of which nobody else knows yet.
Carrying == latest # NoPicture /\ data \in {"drain", "consume", "write", "push"}

\* Every picture dequeued is somewhere, once.
InvCounts ==
    arrivals = drops + taken + Len(queue) + lost + (IF Carrying THEN 1 ELSE 0)

\* The session got everything it has before picture p.
Before(p) ==
    /\ lastSample.n < p /\ sample.n < p
    /\ \A i \in 1..Len(queue) : queue[i].n < p

\* Pictures stay in order: repeated, encoded, queued, carried, filled.
InvReady ==
    /\ \A i \in 1..Len(ready) : Before(ready[i]) /\ ready[i] <= recorded
                                /\ latest < ready[i]
    /\ \A i, j \in 1..Len(ready) : i < j => ready[i] < ready[j]
    /\ Before(recorded + 1) /\ latest <= recorded
    /\ Carrying => Before(latest)

InvTaken ==
    /\ sample.n # 0 => lastSample.n < sample.n
    /\ \A i \in 1..Len(queue) : queue[i].n # 0 /\ lastSample.n < queue[i].n
                                /\ sample.n < queue[i].n
    /\ \A i, j \in 1..Len(queue) : i < j => queue[i].n < queue[j].n

Account == InvCounts /\ InvReady /\ InvTaken

counted == <<queue, arrivals, drops, sample, lastSample, taken, lost, latest,
             data, ready, recorded>>

\* Steps that touch neither pictures nor counters.
LEMMA QuietSteps ==
  ASSUME \/ StateStreaming \/ StreamError \/ StreamEnded \/ AddBufferFails
         \/ Connect \/ ConnectFails \/ Next_ \/ NothingTaken \/ LockLoop
         \/ LockProcessing \/ Destroy \/ LeaveLoop \/ Finished
         \/ UNCHANGED vars
  PROVE  UNCHANGED counted
  BY DEF counted, StateStreaming, StreamError, StreamEnded, AddBufferFails,
         Connect, ConnectFails, Next_, NothingTaken, LockLoop, LockProcessing,
         Destroy, LeaveLoop, Finished, vars, producer, callback, session,
         samples, worker

\* Every step that takes a picture from somewhere puts it somewhere or counts it.
LEMMA CountsStep ==
  TypeOK /\ InvBuffers /\ InvCounts /\ [Next]_vars => InvCounts'
  <1> SUFFICES ASSUME TypeOK, InvBuffers, InvCounts, [Next]_vars
               PROVE  InvCounts'
    OBVIOUS
  <1>1. /\ arrivals \in Nat /\ drops \in Nat /\ taken \in Nat /\ lost \in Nat
        /\ Len(queue) \in Nat /\ queue \in Seq(Sample)
        /\ latest \in Nat /\ ready \in Seq(Nat \ {0})
    BY LenProperties DEF TypeOK, InvBuffers
  <1> USE DEF InvCounts, Carrying, NoPicture, producer, callback, session,
              samples, worker
  <1>2. CASE UNCHANGED counted
    BY <1>2 DEF counted
  <1>3. CASE FormatChanged
    BY <1>3 DEF FormatChanged
  <1>4. CASE Produce
    BY <1>4 DEF Produce
  <1>5. CASE Enter \/ LeaveEarly \/ Lock
    <2>1. data \in {"idle", "entered"} /\ latest = 0
      BY <1>5 DEF Enter, LeaveEarly, Lock, InvBuffers
    <2> QED BY <1>5, <2>1 DEF Enter, LeaveEarly, Lock
  <1>6. CASE Dequeue
    <2>1. Head(ready) # 0
      BY <1>1, <1>6, TailFacts DEF Dequeue
    <2>2. /\ arrivals' = arrivals + 1 /\ data = "drain"
          /\ latest' # 0 /\ UNCHANGED <<data, queue, taken, lost>>
          /\ drops' = drops + (IF latest # 0 THEN 1 ELSE 0)
      BY <1>1, <1>6, <2>1 DEF Dequeue, Superseded
    <2> QED BY <1>1, <2>2
  <1>7. CASE Drained \/ DropEmpty \/ Write \/ PickFrame \/ TooSmall
    <2>1. CASE Drained
      <3>1. /\ data = "drain"
            /\ data' = IF latest = 0 THEN "idle" ELSE "consume"
            /\ UNCHANGED <<latest, arrivals, drops, taken, queue, lost>>
        BY <2>1 DEF Drained
      <3> QED BY <1>1, <3>1
    <2>2. CASE Write
      BY <1>1, <2>2 DEF Write
    <2>3. CASE DropEmpty \/ TooSmall
      <3>1. Carrying /\ ~Carrying'
        BY <2>3 DEF DropEmpty, TooSmall, InvBuffers
      <3>2. /\ \/ drops' = drops + 1 /\ UNCHANGED lost
               \/ lost' = lost + 1 /\ UNCHANGED drops
            /\ UNCHANGED <<arrivals, taken, queue>>
        BY <2>3 DEF DropEmpty, TooSmall
      <3> QED BY ONLY <1>1, <3>1, <3>2, InvCounts DEF InvCounts
    <2>4. CASE PickFrame
      <3>1. data = "consume" /\ latest # 0 /\ Carrying
        BY <2>4 DEF PickFrame, InvBuffers
      <3>2. \/ drops' = drops + 1 /\ data' = "return"
            \/ UNCHANGED drops /\ data' = "write"
        BY <2>4 DEF PickFrame
      <3>3. UNCHANGED <<latest, arrivals, taken, queue, lost>>
        BY <2>4 DEF PickFrame
      <3> QED BY <1>1, <3>1, <3>2, <3>3
    <2> QED BY <1>7, <2>1, <2>2, <2>3, <2>4
  <1>8. CASE Throw \/ ConversionFails
    <2>1. Carrying
      BY <1>8 DEF Throw, ConversionFails, InvBuffers
    <2>2. /\ lost' = lost + 1 /\ data' = "idle"
          /\ UNCHANGED <<arrivals, drops, taken, queue>>
      BY <1>8 DEF Throw, ConversionFails, Thrown
    <2> QED BY <1>1, <2>1, <2>2
  <1>9. CASE Push
    <2> DEFINE rest == IF QueueFull THEN Tail(queue) ELSE queue
               s == [frame |-> frame, n |-> latest]
    <2>1. Len(rest) = Len(queue) - (IF QueueFull THEN 1 ELSE 0)
          /\ rest \in Seq(Sample)
      <3>1. CASE QueueFull
        <4>1. queue # <<>>
          BY <3>1 DEF QueueFull
        <4> QED BY <1>1, <3>1, <4>1, TailFacts
      <3>2. CASE ~QueueFull
        BY <1>1, <3>2
      <3> QED BY <3>1, <3>2
    <2>2. Len(Append(rest, s)) = Len(rest) + 1
      <3> HIDE DEF rest
      <3> QED BY <2>1
    <2>3. /\ queue' = Append(rest, s) /\ data = "push" /\ data' = "return"
          /\ drops' = drops + (IF QueueFull THEN 1 ELSE 0)
          /\ UNCHANGED <<arrivals, taken, lost, latest>>
      BY <1>9 DEF Push
    <2>4. latest # 0
      BY <2>3 DEF InvBuffers
    <2>5. Len(queue') = Len(queue) - (IF QueueFull THEN 1 ELSE 0) + 1
      <3> HIDE DEF rest
      <3> QED BY <1>1, <2>1, <2>2, <2>3
    <2>6. arrivals = drops + taken + Len(queue) + lost + 1
      BY <2>3, <2>4
    <2>7. ~Carrying'
      BY <2>3
    <2>8. arrivals' = drops' + taken' + Len(queue') + lost'
      <3> HIDE DEF rest, s
      <3>1. UNCHANGED <<arrivals, taken, lost>>
        BY <2>3
      <3>2. CASE QueueFull
        <4>1. drops' = drops + 1 /\ Len(queue') = Len(queue)
          BY <1>1, <2>3, <2>5, <3>2
        <4> QED BY ONLY <1>1, <2>6, <3>1, <4>1
      <3>3. CASE ~QueueFull
        <4>1. drops' = drops /\ Len(queue') = Len(queue) + 1
          BY <1>1, <2>3, <2>5, <3>3
        <4> QED BY ONLY <1>1, <2>6, <3>1, <4>1
      <3> QED BY <3>2, <3>3
    <2>9. /\ drops' \in Nat /\ taken' \in Nat /\ lost' \in Nat
          /\ Len(queue') \in Nat
      BY <1>1, <2>3, <2>5 DEF QueueFull
    <2> QED BY ONLY <2>7, <2>8, <2>9 DEF InvCounts
  <1>10. CASE Return
    BY <1>1, <1>10 DEF Return
  <1>11. CASE Take
    <2>1. Len(queue') = 0
      BY <1>11 DEF Take, LeftBehind
    <2> QED BY <1>1, <1>11, <2>1 DEF Take, StaleIn
  <1>12. CASE Encode
    BY <1>12 DEF Encode
  <1> QED BY <1>2, <1>3, <1>4, <1>5, <1>6, <1>7, <1>8, <1>9, <1>10, <1>11, <1>12,
             QuietSteps DEF Next, Control, OnProcess, Owner
\* The numbers of pictures are numbers.
LEMMA PictureTypes ==
  ASSUME TypeOK, InvBuffers
  PROVE  /\ lastSample.n \in Nat /\ sample.n \in Nat
         /\ queue \in Seq(Sample) /\ Len(queue) \in Nat
         /\ \A i \in 1..Len(queue) : queue[i] \in Sample /\ queue[i].n \in Nat
         /\ ready \in Seq(Nat \ {0}) /\ Len(ready) \in Nat
         /\ \A i \in 1..Len(ready) : ready[i] \in Nat \ {0}
         /\ recorded \in Nat /\ latest \in Nat
  <1>1. lastSample.n \in Nat /\ sample.n \in Nat
    BY DEF TypeOK, Sample, None
  <1>2. queue \in Seq(Sample) /\ ready \in Seq(Nat \ {0})
    BY DEF TypeOK, InvBuffers
  <1>3. \A i \in 1..Len(queue) : queue[i] \in Sample /\ queue[i].n \in Nat
    <2>1. \A i \in 1..Len(queue) : queue[i] \in Sample
      BY <1>2, ElementOfSeq
    <2> QED BY <2>1 DEF Sample
  <1>4. \A i \in 1..Len(ready) : ready[i] \in Nat \ {0}
    BY <1>2, ElementOfSeq
  <1>5. recorded \in Nat /\ latest \in Nat
    BY DEF TypeOK
  <1> QED BY <1>1, <1>2, <1>3, <1>4, <1>5, LenProperties

\* Pictures keep their order from the producer to the repeated frame.
LEMMA OrderStep ==
  ASSUME TypeOK, InvBuffers, InvReady, InvTaken, [Next]_vars
  PROVE  InvReady' /\ InvTaken'
  <1>0. /\ lastSample.n \in Nat /\ sample.n \in Nat
        /\ queue \in Seq(Sample) /\ Len(queue) \in Nat
        /\ \A i \in 1..Len(queue) : queue[i].n \in Nat
        /\ ready \in Seq(Nat \ {0}) /\ Len(ready) \in Nat
        /\ \A i \in 1..Len(ready) : ready[i] \in Nat \ {0}
        /\ recorded \in Nat /\ latest \in Nat
    BY PictureTypes
  <1> USE DEF InvReady, InvTaken, Before, Carrying, NoPicture, producer, callback,
              session, samples, worker
  <1>1. CASE UNCHANGED counted
    BY <1>1 DEF counted
  <1>2. CASE FormatChanged
    <2>1. UNCHANGED <<queue, sample, lastSample, latest, data, recorded>>
      BY <1>2 DEF FormatChanged, Unexpected, Refused, Negotiated
    <2>2. ready' = ready \/ ready' = <<>>
      BY <1>2 DEF FormatChanged, Unexpected, Refused, Negotiated
    <2> QED BY <2>1, <2>2
  <1>3. CASE Produce
    <2>1. /\ ready' = Append(ready, recorded + 1) /\ recorded' = recorded + 1
          /\ UNCHANGED <<queue, sample, lastSample, latest, data>>
      BY <1>3 DEF Produce
    <2>2. /\ Len(ready') = Len(ready) + 1
          /\ \A i \in 1..Len(ready) : ready'[i] = ready[i]
          /\ ready'[Len(ready) + 1] = recorded + 1
      BY <1>0, <2>1
    <2>3. \A i \in 1..Len(ready') : i \in 1..Len(ready) \/ i = Len(ready) + 1
      BY <1>0, <2>2
    <2>4. \A p : Before(p)' <=> Before(p)
      BY <2>1
    <2>5. InvTaken'
      BY <2>1
    <2>6. ASSUME NEW i \in 1..Len(ready')
          PROVE  /\ Before(ready[i])'
                 /\ ready'[i] <= recorded' /\ latest' < ready'[i]
      <3>1. CASE i \in 1..Len(ready)
        BY <1>0, <2>1, <2>2, <2>4, <3>1
      <3>2. CASE i = Len(ready) + 1
        BY <1>0, <2>1, <2>2, <2>4, <3>2
      <3> QED BY <2>3, <3>1, <3>2
    <2>7. ASSUME NEW i \in 1..Len(ready'), NEW j \in 1..Len(ready'), i < j
          PROVE  ready'[i] < ready'[j]
      <3>1. i \in 1..Len(ready) /\ ready'[i] = ready[i]
        BY <1>0, <2>2, <2>3, <2>7
      <3>2. CASE j \in 1..Len(ready)
        BY <2>2, <2>7, <3>1, <3>2
      <3>3. CASE j = Len(ready) + 1
        BY <1>0, <2>2, <3>1, <3>3
      <3> QED BY <2>3, <3>2, <3>3
    <2>8. Before(recorded + 1)' /\ latest' <= recorded'
      BY <1>0, <2>1
    <2>9. Carrying' => Before(latest)'
      BY <2>1
    <2> QED BY <2>5, <2>6, <2>7, <2>8, <2>9
  <1>4. CASE Enter \/ LeaveEarly \/ Lock
    <2>1. latest = 0
      BY <1>4 DEF Enter, LeaveEarly, Lock, InvBuffers
    <2>2. UNCHANGED <<queue, sample, lastSample, latest, ready, recorded>>
      BY <1>4 DEF Enter, LeaveEarly, Lock
    <2> QED BY <2>1, <2>2
  <1>5. CASE Dequeue
    <2>1. ready # <<>> /\ latest' = Head(ready) /\ ready' = Tail(ready)
          /\ UNCHANGED <<queue, sample, lastSample, data, recorded>>
      BY <1>5 DEF Dequeue
    <2>2. /\ Head(ready) = ready[1] /\ Len(ready') = Len(ready) - 1
          /\ Len(ready) \in Nat \ {0}
          /\ \A i \in 1..Len(ready') : ready'[i] = ready[i + 1]
      BY <2>1, <1>0, TailFacts
    <2>3. InvTaken'
      BY <2>1
    <2>4. \A i \in 1..Len(ready') : i + 1 \in 1..Len(ready)
      BY <2>2
    <2>5. 1 \in 1..Len(ready) /\ latest' = ready[1]
      BY <2>1, <2>2
    <2>6. Before(latest)' /\ latest' <= recorded' /\ Before(recorded + 1)'
      BY <2>1, <2>5
    <2>7. \A i \in 1..Len(ready') : Before(ready[i])' /\ ready'[i] <= recorded'
                                     /\ latest' < ready'[i]
      BY <2>1, <2>2, <2>4, <2>5
    <2>8. ASSUME NEW i \in 1..Len(ready'), NEW j \in 1..Len(ready'), i < j
          PROVE  ready'[i] < ready'[j]
      BY <2>2, <2>4, <2>8
    <2> QED BY <2>3, <2>6, <2>7, <2>8
  <1>6. CASE \/ Drained \/ DropEmpty \/ Throw \/ TooSmall \/ PickFrame \/ Write
             \/ ConversionFails \/ Return
    <2>1. UNCHANGED <<queue, sample, lastSample, ready, recorded>>
      BY <1>6 DEF Drained, DropEmpty, Throw, Thrown, TooSmall, PickFrame, Write,
                  ConversionFails, Return
    <2>2. latest' = latest \/ latest' = 0
      BY <1>6 DEF Drained, DropEmpty, Throw, Thrown, TooSmall, PickFrame, Write,
                  ConversionFails, Return
    <2>3. Carrying' => Carrying /\ latest' = latest
      BY <1>6 DEF Drained, DropEmpty, Throw, Thrown, TooSmall, PickFrame, Write,
                  ConversionFails, Return
    <2> QED BY <2>1, <2>2, <2>3, <1>0
  <1>7. CASE Push
    <2> DEFINE rest == IF QueueFull THEN Tail(queue) ELSE queue
               s == [frame |-> frame, n |-> latest]
               d == IF QueueFull THEN 1 ELSE 0
    <2>1. /\ rest \in Seq(Sample) /\ Len(rest) \in Nat /\ d \in {0, 1}
          /\ Len(rest) = Len(queue) - d
          /\ \A i \in 1..Len(rest) : rest[i] = queue[i + d]
      <3>1. CASE QueueFull
        <4>1. queue # <<>>
          BY <3>1, EmptySeq DEF QueueFull
        <4> QED BY <3>1, <4>1, TailFacts, <1>0
      <3>2. CASE ~QueueFull
        BY <3>2, <1>0
      <3> QED BY <3>1, <3>2
    <2>2. /\ queue' = Append(rest, s) /\ data = "push" /\ data' = "return"
          /\ UNCHANGED <<sample, lastSample, latest, ready, recorded>>
      BY <1>7 DEF Push
    <2> HIDE DEF rest, d
    <2>3. /\ Len(queue') = Len(rest) + 1
          /\ \A i \in 1..Len(rest) : queue'[i] = rest[i]
          /\ queue'[Len(rest) + 1] = s
      BY <2>1, <2>2
    <2>4. Carrying /\ Before(latest)
      BY <2>2 DEF InvBuffers
    <2>s. s.n = latest
      OBVIOUS
    <2> HIDE DEF s
    <2>5. ASSUME NEW i \in 1..Len(queue')
          PROVE  \/ /\ i \in 1..Len(rest) /\ i + d \in 1..Len(queue)
                    /\ queue'[i] = queue[i + d]
                 \/ i = Len(rest) + 1 /\ queue'[i].n = latest
      <3>1. CASE i = Len(rest) + 1
        BY ONLY <2>3, <2>s, <3>1
      <3>2. CASE i # Len(rest) + 1
        <4>1. i \in 1..Len(rest)
          BY ONLY <2>1, <2>3, <3>2, i \in 1..Len(queue')
        <4>2. i + d \in 1..Len(queue)
          BY ONLY <1>0, <2>1, <4>1
        <4> QED BY ONLY <2>1, <2>3, <4>1, <4>2
      <3> QED BY <3>1, <3>2
    <2>6. ASSUME NEW i \in 1..Len(queue')
          PROVE  /\ queue'[i].n # 0 /\ queue'[i].n \in Nat /\ queue'[i].n <= latest
                 /\ lastSample.n < queue'[i].n /\ sample.n < queue'[i].n
      <3>1. CASE queue'[i].n = latest
        BY <1>0, <2>4, <3>1
      <3>2. CASE i + d \in 1..Len(queue) /\ queue'[i] = queue[i + d]
        BY <1>0, <2>4, <3>2
      <3> QED BY <2>5, <3>1, <3>2
    <2>7. ASSUME NEW i \in 1..Len(queue'), NEW j \in 1..Len(queue'), i < j
          PROVE  queue'[i].n < queue'[j].n
      <3>1. /\ i \in 1..Len(rest) /\ i + d \in 1..Len(queue)
            /\ queue'[i] = queue[i + d]
        BY <2>1, <2>3, <2>5, <2>7
      <3>2. CASE j = Len(rest) + 1 /\ queue'[j].n = latest
        BY <2>4, <3>1, <3>2
      <3>3. CASE j + d \in 1..Len(queue) /\ queue'[j] = queue[j + d]
        <4>1. i + d < j + d
          BY <2>1, <2>7
        <4> QED BY <3>1, <3>3, <4>1
      <3> QED BY <2>5, <3>2, <3>3
    <2>8. InvTaken'
      BY <2>2, <2>6, <2>7
    <2>9. \A p \in Nat : latest < p /\ Before(p) => Before(p)'
      BY <2>2, <2>6, <1>0
    <2>10. \A i \in 1..Len(ready) : Before(ready[i])'
      BY <1>0, <2>2, <2>9
    <2>11. Before(recorded + 1)'
      <3>1. recorded + 1 \in Nat /\ latest < recorded + 1 /\ Before(recorded + 1)
        BY <1>0
      <3>2. lastSample'.n < recorded + 1 /\ sample'.n < recorded + 1
            /\ \A i \in 1..Len(queue') : queue'[i].n < recorded + 1
        BY <2>9, <3>1
      <3> QED BY <2>2, <3>2
    <2>12. InvReady'
      BY <2>2, <2>10, <2>11
    <2> QED BY <2>8, <2>12
  <1>8. CASE Take
    <2>1. /\ queue # <<>> /\ queue' = <<>> /\ sample' = queue[Len(queue)]
          /\ UNCHANGED <<lastSample, latest, data, ready, recorded>>
      BY <1>8 DEF Take, LeftBehind
    <2>2. Len(queue) \in 1..Len(queue)
      BY <2>1, <1>0, EmptySeq
    <2> QED BY <2>1, <2>2
  <1>9. CASE Encode
    <2>1. /\ lastSample' = sample /\ sample'.n = 0
          /\ UNCHANGED <<queue, latest, data, ready, recorded>>
      BY <1>9 DEF Encode, None
    <2>2. \A p : Before(p) /\ 0 < p => Before(p)'
      BY <2>1
    <2>3. InvTaken'
      BY <2>1, <1>0
    <2> QED BY <2>1, <2>2, <2>3, <1>0
  <1> QED BY <1>1, <1>2, <1>3, <1>4, <1>5, <1>6, <1>7, <1>8, <1>9,
             QuietSteps DEF Next, Control, OnProcess, Owner

\* The account holds from the start.
LEMMA AccountInit == Init => Account
  <1> SUFFICES ASSUME Init PROVE Account
    OBVIOUS
  <1> USE DEF Init, NoPicture
  <1>1. InvCounts
    BY DEF InvCounts, Carrying
  <1>2. InvReady
    BY DEF InvReady, Before, Carrying, None
  <1>3. InvTaken
    BY DEF InvTaken, None
  <1> QED BY <1>1, <1>2, <1>3 DEF Account

\* What the worker is handed is in order.
LEMMA NumbersInOrder ==
  ASSUME TypeOK, InvBuffers, InvTaken
  PROVE  \A i, j \in 1..Len(Numbers) :
            i < j /\ Numbers[j] # 0 => Numbers[i] < Numbers[j]
  <1> DEFINE a == <<lastSample.n, sample.n>>
             b == [i \in 1..Len(queue) |-> queue[i].n]
  <1>1. /\ lastSample.n \in Nat /\ sample.n \in Nat /\ Len(queue) \in Nat
        /\ \A i \in 1..Len(queue) : queue[i].n \in Nat
    BY PictureTypes
  <1>2. /\ a \in Seq(Nat) /\ Len(a) = 2 /\ a[1] = lastSample.n /\ a[2] = sample.n
    BY <1>1
  <1>3. /\ b \in Seq(Nat) /\ Len(b) = Len(queue)
        /\ \A i \in 1..Len(queue) : b[i] = queue[i].n
    BY <1>1
  <1> HIDE DEF a, b
  <1>4. /\ Len(a \o b) = 2 + Len(queue)
        /\ \A i \in 1..Len(a \o b) :
             (a \o b)[i] = IF i <= 2 THEN a[i] ELSE b[i - 2]
    <2>1. /\ Len(a \o b) = Len(a) + Len(b)
          /\ \A i \in 1..(Len(a) + Len(b)) :
               (a \o b)[i] = IF i <= Len(a) THEN a[i] ELSE b[i - Len(a)]
      <3>1. a \in Seq(Nat) /\ b \in Seq(Nat)
        BY <1>2, <1>3
      <3> QED BY ONLY <3>1, ConcatProperties
    <2> QED BY ONLY <1>2, <1>3, <2>1
  <1>5. Numbers = a \o b
    BY DEF Numbers, a, b
  <1> SUFFICES ASSUME NEW i \in 1..Len(Numbers), NEW j \in 1..Len(Numbers),
                      i < j, Numbers[j] # 0
               PROVE  Numbers[i] < Numbers[j]
    OBVIOUS
  <1>6. CASE j <= 2
    <2>1. i = 1 /\ j = 2
      BY <1>6
    <2>2. Numbers[1] = lastSample.n /\ Numbers[2] = sample.n
      BY <1>1, <1>2, <1>4, <1>5
    <2> QED BY <2>1, <2>2 DEF InvTaken
  <1>7. CASE j > 2
    <2>1. j - 2 \in 1..Len(queue) /\ Numbers[j] = queue[j - 2].n
      <3>1. j \in 1..(2 + Len(queue)) /\ ~(j <= 2)
        BY <1>1, <1>4, <1>5, <1>7
      <3>2. j - 2 \in 1..Len(queue)
        BY <1>1, <3>1
      <3> QED BY <1>3, <1>4, <1>5, <3>1, <3>2
    <2>2. CASE i <= 2
      <3>1. Numbers[i] \in {lastSample.n, sample.n}
        BY <1>2, <1>4, <1>5, <2>2
      <3> QED BY <2>1, <3>1 DEF InvTaken
    <2>3. CASE i > 2
      <3>1. i - 2 \in 1..Len(queue) /\ i - 2 < j - 2
        BY <1>1, <1>4, <1>5, <2>3
      <3>2. Numbers[i] = queue[i - 2].n
        BY <1>3, <1>4, <1>5, <2>3, <3>1
      <3> QED BY <2>1, <3>1, <3>2 DEF InvTaken
    <2> QED BY <2>2, <2>3
  <1> QED BY <1>6, <1>7

\* Whatever the three threads do, no picture is lost without trace, overtaken or
\* handed out twice, and between callbacks the producer has all its buffers.
THEOREM EveryPictureAccounted == Spec => []Accounted
  <1>1. IInv /\ Account /\ [Next]_vars => Account'
    BY CountsStep, OrderStep DEF IInv, Account
  <1>2. IInv /\ Account => Accounted
    <2> SUFFICES ASSUME IInv, Account
                 PROVE  Accounted
      OBVIOUS
    <2>1. InHand = IF Carrying THEN 1 ELSE 0
      BY DEF InHand, Carrying
    <2>2. data = "idle" /\ ~stopping => free + Len(ready) = Buffers
      <3>1. data = "idle" => InHands = 0
        BY DEF IInv, InvBuffers, InHands
      <3>2. free \in Nat /\ Len(ready) \in Nat
        BY LenProperties, CaptureAssumption DEF IInv, TypeOK
      <3> QED BY <3>1, <3>2 DEF IInv, InvBuffers
    <2>3. arrivals = drops + taken + Len(queue) + lost + InHand
      BY <2>1 DEF Account, InvCounts
    <2> QED BY <2>2, <2>3, NumbersInOrder DEF IInv, Account, Accounted
  <1> QED BY <1>1, <1>2, AccountInit, Invariant, PTL DEF Spec

-----------------------------------------------------------------------------
(* A session is a FrameSource.                                             *)

\* What the worker has in hand is the picture its sample is numbered with.
LEMMA PictureIsNumber ==
  ASSUME IInv, IInv'
  PROVE  /\ Picture(sample) = sample.n /\ Picture(lastSample) = lastSample.n
         /\ Picture(sample)' = sample'.n /\ Picture(lastSample)' = lastSample'.n
  BY DEF IInv, InvFrames, Picture, None

\* What the worker's place in the code means to the source.
LEMMA UserFacts ==
  /\ owner \in {"connect", "next"} => User = "idle"
  /\ owner = "wait" => User = "waiting"
  /\ owner = "encode" => User = "encoding"
  /\ owner \in {"lockLoop", "lockProcessing", "destroy", "gone"} => User = "left"
  BY DEF User

LEMMA UserFactsNext ==
  /\ owner' \in {"connect", "next"} => User' = "idle"
  /\ owner' = "wait" => User' = "waiting"
  /\ owner' = "encode" => User' = "encoding"
  /\ owner' \in {"lockLoop", "lockProcessing", "destroy", "gone"} => User' = "left"
  BY DEF User

\* Before anything is connected, nobody has a picture.
LEMMA SourceInit == Init => Source!Init
  <1> SUFFICES ASSUME Init PROVE Source!Init
    OBVIOUS
  <1>1. Picture(sample) = 0 /\ Picture(lastSample) = 0
    BY DEF Init, Picture
  <1>2. User = "idle"
    BY UserFacts DEF Init
  <1> QED BY <1>1, <1>2 DEF Init, Source!Init

\* Where the worker does nothing it sees nothing: neither what the data thread
\* writes nor what PipeWire negotiates changes a picture it has.
LEMMA SeenKept ==
  ASSUME IInv, IInv', UNCHANGED <<owner, sample, lastSample>>
  PROVE  UNCHANGED <<User, Picture(sample), Picture(lastSample)>>
  <1>1. UNCHANGED User
    BY DEF User
  <1> QED BY <1>1, PictureIsNumber

\* A format is settled only while nobody has a picture.
LEMMA FormatSettles ==
  ASSUME IInv, IInv', FormatChanged
  PROVE  Source!Settle \/ Source!Fail
  <1>1. UNCHANGED <<owner, sample, lastSample, recorded>>
    BY DEF FormatChanged, Unexpected, Refused, Negotiated, producer, worker
  <1>2. UNCHANGED <<User, Picture(sample), Picture(lastSample)>>
    BY <1>1, SeenKept
  <1>3. CASE error' = TRUE /\ UNCHANGED memory
    BY <1>1, <1>2, <1>3 DEF Source!Fail
  <1>4. CASE ~Captured /\ memory' \in Offered /\ UNCHANGED error
    <2>1. sample = None /\ lastSample = None
      BY <1>4 DEF Captured, IInv, InvFrames
    <2>2. Picture(sample) = 0 /\ Picture(lastSample) = 0
      BY <2>1 DEF Picture
    <2>3. memory' \in Source!Kinds
      BY <1>4 DEF Offered, Source!Kinds
    <2> QED BY <1>1, <1>2, <1>4, <2>2, <2>3 DEF Source!Settle
  <1> QED BY <1>3, <1>4 DEF FormatChanged, Unexpected, Refused, Negotiated

\* A sample that is taken is newer than the one kept, and has been recorded.
LEMMA TakeAnswers ==
  ASSUME IInv, Account, IInv', Take
  PROVE  Source!Answer
  <1>1. /\ sample' = queue[Len(queue)] /\ owner = "wait" /\ owner' = "encode"
        /\ UNCHANGED <<lastSample, recorded, error, memory>>
    BY DEF Take, producer, session
  <1>2. Len(queue) \in 1..Len(queue)
    <2>1. queue \in Seq(Sample) /\ queue # <<>>
      BY DEF Take, IInv, TypeOK
    <2>2. Len(queue) \in Nat \ {0}
      BY <2>1, TailFacts
    <2> QED BY <2>2
  <1>3. lastSample.n \in Nat /\ sample'.n \in Nat /\ recorded \in Nat
    BY <1>1, <1>2, PictureTypes DEF IInv
  <1>4. lastSample.n < sample'.n /\ sample'.n < recorded + 1
    BY <1>1, <1>2 DEF Account, InvTaken, InvReady, Before
  <1>5. sample'.n \in (lastSample.n + 1)..recorded
    BY <1>3, <1>4
  <1>6. /\ Picture(sample)' = sample'.n /\ Picture(lastSample) = lastSample.n
        /\ Picture(lastSample)' = lastSample.n
    BY <1>1, PictureIsNumber
  <1>7. User = "waiting" /\ User' = "encoding"
    BY <1>1, UserFacts, UserFactsNext
  <1> QED BY <1>1, <1>5, <1>6, <1>7 DEF Source!Answer

\* The frame that was encoded is the one kept, as the picture it was.
LEMMA EncodeKeeps ==
  ASSUME IInv, IInv', Encode
  PROVE  Source!Keep
  <1>1. /\ lastSample' = sample /\ sample' = None
        /\ owner = "encode" /\ owner' = "next"
        /\ UNCHANGED <<recorded, error, memory>>
    BY DEF Encode, producer, session
  <1>2. Picture(lastSample)' = Picture(sample) /\ Picture(sample)' = 0
    BY <1>1, PictureIsNumber DEF None
  <1>3. User = "encoding" /\ User' = "idle"
    BY <1>1, UserFacts, UserFactsNext
  <1> QED BY <1>1, <1>2, <1>3 DEF Source!Keep

\* The worker's steps that move no sample.
LEMMA WorkerMoves ==
  ASSUME IInv, IInv',
         \/ Connect \/ ConnectFails \/ LeaveLoop \/ Next_ \/ NothingTaken
         \/ LockLoop \/ LockProcessing \/ Destroy
  PROVE  [Source!Next]_(Source!vars)
  <1> USE DEF producer, session, samples
  <1>1. /\ UNCHANGED <<recorded, error, memory, sample, lastSample>>
        /\ UNCHANGED <<Picture(sample), Picture(lastSample)>>
    <2>1. UNCHANGED <<recorded, error, memory, sample, lastSample>>
      BY DEF Connect, ConnectFails, LeaveLoop, Next_, NothingTaken, LockLoop,
             LockProcessing, Destroy
    <2> QED BY <2>1, PictureIsNumber
  <1>2. CASE ConnectFails \/ LeaveLoop
    <2>1. User = "idle" /\ User' = "left"
      BY <1>2, UserFacts, UserFactsNext DEF ConnectFails, LeaveLoop
    <2> QED BY <1>1, <2>1 DEF Source!Leave, Source!Next
  <1>3. CASE Next_
    <2>1. User = "idle" /\ User' = "waiting" /\ ~error
      BY <1>3, UserFacts, UserFactsNext DEF Next_, HasError
    <2> QED BY <1>1, <2>1 DEF Source!Ask, Source!Next
  <1>4. CASE NothingTaken
    <2>1. User = "waiting" /\ User' = "idle"
      BY <1>4, UserFacts, UserFactsNext DEF NothingTaken
    <2> QED BY <1>1, <2>1 DEF Source!NoAnswer, Source!Next
  <1>5. CASE Connect \/ LockLoop \/ LockProcessing \/ Destroy
    <2>1. UNCHANGED User
      BY <1>5, UserFacts, UserFactsNext DEF Connect, LockLoop, LockProcessing,
             Destroy
    <2> QED BY <1>1, <2>1 DEF Source!vars
  <1> QED BY <1>2, <1>3, <1>4, <1>5

\* The worker of a session with any pool and any producer has a FrameSource in
\* front of it: each of its steps, and what it can see of every step of the
\* other threads, is one that FrameSource has.
THEOREM CaptureImplementsSource == Spec => FrameSpec
  <1>1. IInv /\ Account /\ IInv' /\ [Next]_vars => [Source!Next]_(Source!vars)
    <2> SUFFICES ASSUME IInv, Account, IInv', [Next]_vars
                 PROVE  [Source!Next]_(Source!vars)
      OBVIOUS
    <2> USE DEF producer, callback, session, samples, worker
    <2>1. CASE FormatChanged
      BY <2>1, FormatSettles DEF Source!Next
    <2>2. CASE Take
      BY <2>2, TakeAnswers DEF Source!Next
    <2>3. CASE Encode
      BY <2>3, EncodeKeeps DEF Source!Next
    <2>4. CASE \/ Connect \/ ConnectFails \/ LeaveLoop \/ Next_ \/ NothingTaken
               \/ LockLoop \/ LockProcessing \/ Destroy
      BY <2>4, WorkerMoves
    <2>5. CASE UNCHANGED <<owner, sample, lastSample, memory>>
      <3>1. UNCHANGED <<User, Picture(sample), Picture(lastSample)>>
        BY <2>5, SeenKept
      <3>2. CASE Produce
        BY <2>5, <3>1, <3>2 DEF Produce, Source!Record, Source!Next
      <3>3. CASE error' = TRUE /\ UNCHANGED recorded
        BY <2>5, <3>1, <3>3 DEF Source!Fail, Source!Next
      <3>4. CASE UNCHANGED <<error, recorded>>
        BY <2>5, <3>1, <3>4 DEF Source!vars
      <3>5. Produce \/ (error' = TRUE /\ UNCHANGED recorded)
              \/ UNCHANGED <<error, recorded>>
              \/ FormatChanged \/ Owner \/ LeaveLoop
        BY DEF Next, Control, OnProcess, StateStreaming, StreamError, StreamEnded,
               AddBufferFails, Enter, LeaveEarly, Lock, Dequeue, Drained,
               DropEmpty, Throw, Thrown, TooSmall, PickFrame, Write,
               ConversionFails, Push, Return, Finished, vars
      <3> QED BY <2>1, <2>2, <2>3, <2>4, <3>2, <3>3, <3>4, <3>5 DEF Owner
    <2>6. \/ FormatChanged \/ Owner \/ LeaveLoop
          \/ UNCHANGED <<owner, sample, lastSample, memory>>
      BY DEF Next, Control, OnProcess, Produce, StateStreaming, StreamError,
             StreamEnded, AddBufferFails, Enter, LeaveEarly, Lock, Dequeue, Drained,
             DropEmpty, Throw, Thrown, TooSmall, PickFrame, Write,
             ConversionFails, Push, Return, Finished, vars
    <2> QED BY <2>1, <2>2, <2>3, <2>4, <2>5, <2>6 DEF Owner
  <1>2. IInv /\ Account /\ [Next]_vars => Account'
    BY CountsStep, OrderStep DEF IInv, Account
  <1> QED BY <1>1, <1>2, AccountInit, SourceInit, Invariant, PTL
          DEF Spec, FrameSpec, Source!Spec

-----------------------------------------------------------------------------
(* What follows from the abstract source alone, and so for any capture that *)
(* implements it.                                                          *)

\* The source never answers with a picture that is not newer than the one
\* kept, and invents none.
SourceInOrder(new, old) ==
    /\ old \in 0..recorded /\ new \in 0..recorded
    /\ new # 0 => old < new

\* One step of the source.
LEMMA SourceStep ==
  ASSUME recorded \in Nat, SourceInOrder(Picture(sample), Picture(lastSample)),
         [Source!Next]_(Source!vars)
  PROVE  recorded' \in Nat
         /\ SourceInOrder(Picture(sample), Picture(lastSample))'
  <1> USE DEF SourceInOrder
  <1>1. CASE Source!Record
    BY <1>1 DEF Source!Record
  <1>2. CASE \/ Source!Fail \/ Source!Settle \/ Source!Ask \/ Source!NoAnswer
             \/ Source!Leave \/ UNCHANGED Source!vars
    BY <1>2 DEF Source!Fail, Source!Settle, Source!Ask, Source!NoAnswer,
                Source!Leave, Source!vars
  <1>3. CASE Source!Answer
    BY <1>3 DEF Source!Answer
  <1>4. CASE Source!Keep
    BY <1>4 DEF Source!Keep
  <1> QED BY <1>1, <1>2, <1>3, <1>4 DEF Source!Next

\* With a FrameSource, what is encoded is newer than what was encoded before
\* it: a repeat never comes between a picture and an older one.
THEOREM SourceIsInOrder ==
  Source!Spec => []SourceInOrder(Picture(sample), Picture(lastSample))
  <1> DEFINE Inv == recorded \in Nat
                    /\ SourceInOrder(Picture(sample), Picture(lastSample))
  <1>1. Source!Init => Inv
    BY DEF Source!Init, SourceInOrder
  <1>2. Inv /\ [Source!Next]_(Source!vars) => Inv'
    BY SourceStep
  <1>3. Inv => SourceInOrder(Picture(sample), Picture(lastSample))
    OBVIOUS
  <1> HIDE DEF Inv
  <1> QED BY <1>1, <1>2, <1>3, PTL DEF Source!Spec

\* And so it is with the capture session.
THEOREM EncodesInOrder ==
  Spec => []SourceInOrder(Picture(sample), Picture(lastSample))
  BY CaptureImplementsSource, SourceIsInOrder, PTL DEF FrameSpec

-----------------------------------------------------------------------------
(* The end of a session: ~Impl() against onProcess().                      *)

\* Who holds the processing lock, and where the callback can then be.  The
\* session that is destroyed is stopping, and one that is gone runs no callback.
InvTeardown ==
    /\ processing = "data" <=> data \in {"drain", "consume", "write", "push",
                                         "return"}
    /\ processing = "owner" <=> owner = "destroy"
    /\ owner \in {"lockLoop", "lockProcessing", "destroy", "gone"} => stopping
    /\ owner = "gone" => data = "idle"

\* Each step keeps it: the callback lets go of the lock on each way out.
LEMMA TeardownStep == TypeOK /\ InvTeardown /\ [Next]_vars => InvTeardown'
  <1> SUFFICES ASSUME TypeOK, InvTeardown, [Next]_vars
               PROVE  InvTeardown'
    OBVIOUS
  <1> USE DEF InvTeardown, producer, callback, session, samples, worker
  <1>1. CASE Produce \/ Control
    <2> USE DEF LoopUnlocked
    <2>1. CASE Produce \/ StateStreaming \/ StreamError \/ StreamEnded
      BY <2>1 DEF Produce, StateStreaming, StreamError, StreamEnded
    <2>2. CASE FormatChanged
      BY <2>2 DEF FormatChanged, Unexpected, Refused, Negotiated
    <2>3. CASE AddBufferFails
      BY <2>3 DEF AddBufferFails
    <2> QED BY <1>1, <2>1, <2>2, <2>3 DEF Control
  <1>2. CASE Enter \/ OnProcess
    <2>1. CASE Enter \/ LeaveEarly \/ Lock
      BY <2>1 DEF TypeOK, Enter, LeaveEarly, Lock, GivesUp
    <2>2. CASE Dequeue \/ Drained \/ DropEmpty \/ TooSmall \/ PickFrame
      BY <2>2 DEF Dequeue, Drained, DropEmpty, TooSmall, PickFrame
    <2>3. CASE Throw \/ Write \/ ConversionFails \/ Push \/ Return
      BY <2>3 DEF Throw, Thrown, Write, ConversionFails, Push, Return
    <2> QED BY <1>2, <2>1, <2>2, <2>3 DEF OnProcess
  <1>3. CASE LeaveLoop \/ Owner
    <2>1. CASE LeaveLoop \/ Connect \/ ConnectFails \/ Next_ \/ Take
               \/ NothingTaken \/ Encode
      BY <2>1 DEF LeaveLoop, Connect, ConnectFails, Next_, Take, NothingTaken,
                  Encode
    <2>2. CASE LockLoop \/ LockProcessing \/ Destroy
      BY <2>2 DEF LockLoop, LockProcessing, ProcessingFree, Destroy
    <2> QED BY <1>3, <2>1, <2>2 DEF Owner
  <1>4. CASE Finished \/ UNCHANGED vars
    BY <1>4 DEF Finished, vars
  <1> QED BY <1>1, <1>2, <1>3, <1>4 DEF Next

LEMMA Teardown == Spec => []InvTeardown
  <1>1. Init => InvTeardown
    BY DEF Init, InvTeardown
  <1>2. IInv => TypeOK
    BY DEF IInv
  <1> QED BY <1>1, <1>2, TeardownStep, Invariant, PTL DEF Spec

\* While the destructor takes the stream apart, a callback that is still to
\* come finds the lock taken and leaves: it touches no frame, no buffer and no
\* queue, and when the destructor has returned nothing of the session runs.
NothingAfterTheEnd ==
    [][/\ owner = "destroy" => UNCHANGED <<latest, frame, samples, memory>>
       /\ owner # "gone"]_vars

\* The safety part of SessionEnds, for any pool and producer: the destructor
\* and the callback never work on the session at the same time.
THEOREM DestroysAlone == Spec => NothingAfterTheEnd
  <1> DEFINE Alone == /\ owner = "destroy" =>
                           UNCHANGED <<latest, frame, samples, memory>>
                      /\ owner # "gone"
  <1>1. InvTeardown /\ [Next]_vars => [Alone]_vars
    <2> SUFFICES ASSUME InvTeardown, Next, vars' # vars PROVE Alone
      OBVIOUS
    <2> USE DEF InvTeardown, producer, callback, session, samples, worker
    <2>1. CASE Produce
      BY <2>1 DEF Produce
    <2>2. CASE Control
      <3>1. LoopUnlocked
        BY <2>2 DEF Control, StateStreaming, StreamError, StreamEnded,
                    FormatChanged, AddBufferFails
      <3> QED BY <3>1 DEF LoopUnlocked
    <2>3. CASE Enter \/ LeaveEarly
      BY <2>3 DEF Enter, LeaveEarly
    <2>4. CASE \/ Lock \/ Dequeue \/ Drained \/ DropEmpty \/ Throw
               \/ TooSmall \/ PickFrame \/ Write \/ ConversionFails \/ Push
               \/ Return
      <3>1. processing \in {"none", "data"} /\ data # "idle"
        BY <2>4 DEF Lock, Dequeue, Drained, DropEmpty, Throw, TooSmall,
                    PickFrame, Write, ConversionFails, Push, Return
      <3> QED BY <3>1
    <2>5. CASE LeaveLoop \/ Owner
      BY <2>5 DEF LeaveLoop, Owner, Connect, ConnectFails, Next_, Take,
                  NothingTaken, Encode, LockLoop, LockProcessing, Destroy
    <2>6. CASE Finished
      BY <2>6 DEF Finished
    <2> QED BY <2>1, <2>2, <2>3, <2>4, <2>5, <2>6 DEF Next, OnProcess
  <1> HIDE DEF Alone
  <1>2. Spec => [][Alone]_vars
    BY <1>1, Teardown, PTL DEF Spec
  <1> QED BY <1>2 DEF NothingAfterTheEnd, Alone
=============================================================================
