-------------------------- MODULE StreamWorkerProofs -------------------------
(* Theorems about quest-streams with any number of streams.                *)
EXTENDS StreamWorker, TLAPS

\* A converter belongs to the first session; a worker that has not started has
\* no sample; no worker starts before the main thread says so.
InvSession ==
    /\ \A s \in Streams :
         /\ converter[s] => session[s] = 1
         /\ pc[s] = "start" => last[s] = 0
    /\ main = "starting" => \A s \in Streams : pc[s] = "start"

\* A worker that ended and did not fail the others had a frame; success is
\* reported when all have ended so.
InvEnd ==
    /\ ~failed => \A s \in Streams : pc[s] = "done" => consumed[s]
    /\ main = "success" => ~failed /\ \A s \in Streams : pc[s] = "done"

IInv == TypeOK /\ InvSession /\ InvEnd /\ RepeatAvailable /\ StaticRepeat

-----------------------------------------------------------------------------
(* Lemmas.                                                                 *)

\* Ages stay within their limits.
LEMMA OlderType ==
  ASSUME NEW limit \in Nat, NEW a \in [Streams -> 0..limit]
  PROVE  Older(a, limit) \in [Streams -> 0..limit]
  BY DEF Older

\* When the process starts.
LEMMA InitIInv == Init => IInv
  <1> SUFFICES ASSUME Init PROVE IInv
    OBVIOUS
  <1> USE WorkerAssumption DEF Init, All
  <1>1. TypeOK
    <2>1. AgeLimit \in Nat /\ IdleLimit \in Nat /\ Patience + 1 \in Nat
      BY DEF WorkerAssumption, AgeLimit, IdleLimit
    <2>2. /\ age \in [Streams -> 0..AgeLimit]
          /\ idle \in [Streams -> 0..IdleLimit]
          /\ sessionAge \in [Streams -> 0..Patience + 1]
      BY <2>1
    <2>3. /\ session \in [Streams -> 1..2] /\ last \in [Streams -> 0..2]
          /\ pc \in [Streams -> {"start", "loop", "next", "encode", "done"}]
      OBVIOUS
    <2> QED BY <2>2, <2>3 DEF TypeOK
  <1>2. InvSession /\ InvEnd /\ RepeatAvailable /\ StaticRepeat
    BY DEF InvSession, InvEnd, RepeatAvailable, StaticRepeat
  <1> QED BY <1>1, <1>2 DEF IInv

\* Every step keeps the types.
LEMMA TypeStep ==
  TypeOK /\ InvSession /\ [Next]_vars => TypeOK'
  <1> SUFFICES ASSUME TypeOK, InvSession, [Next]_vars
               PROVE  TypeOK'
    OBVIOUS
  <1> USE WorkerAssumption DEF TypeOK, InvSession, AgeLimit, IdleLimit, Set,
     shared, local, time
  <1>1. ASSUME NEW s \in Streams, Worker(s)
        PROVE  TypeOK'
    <2> UNCHANGED seconds
      BY <1>1 DEF Worker
    <2>1. CASE Started(s)
      <3>1. PICK c \in BOOLEAN :
              /\ converter' = [converter EXCEPT ![s] = c]
              /\ session' = [session EXCEPT ![s] = IF c THEN 1 ELSE 2]
        BY <2>1 DEF Started
      <3>2. /\ converter' \in [Streams -> BOOLEAN]
            /\ session' \in [Streams -> 1..2]
        BY <3>1
      <3> QED BY <2>1, <3>2 DEF Started
    <2>2. CASE StartFails(s)
      BY <2>2 DEF StartFails, Fail
    <2>3. CASE LoopTop(s)
      BY <2>3 DEF LoopTop
    <2>4. CASE NextSample(s)
      BY <2>4 DEF NextSample, Takes
    <2>5. CASE RetryOnCpu(s)
      BY <2>5 DEF RetryOnCpu, MayRetry, Forget
    <2>6. CASE CaptureFails(s)
      BY <2>6 DEF CaptureFails, Fail
    <2>7. CASE Submit(s)
      <3>1. /\ consumed' \in [Streams -> BOOLEAN]
            /\ last' \in [Streams -> 0..2]
        <4>1. session[s] \in 0..2
          OBVIOUS
        <4>2. CASE UNCHANGED <<consumed, last>>
          BY <4>2
        <4>3. CASE /\ consumed' = [consumed EXCEPT ![s] = TRUE]
                   /\ last' = [last EXCEPT ![s] = session[s]]
          BY <4>1, <4>3
        <4> QED BY <2>7, <4>2, <4>3 DEF Submit
      <3>2. /\ pc' \in [Streams -> {"start", "loop", "next", "encode", "done"}]
            /\ idle' \in [Streams -> 0..IdleLimit]
            /\ forcePending' \in [Streams -> BOOLEAN]
            /\ turned' \in [Streams -> BOOLEAN]
        BY <2>7 DEF Submit, TurnEnds
      <3> QED BY <2>7, <3>1, <3>2 DEF Submit
    <2>8. CASE SubmitFails(s)
      BY <2>8 DEF SubmitFails, Fail
    <2>9. CASE NoFrames(s)
      BY <2>9 DEF NoFrames, NothingToSubmit, Fail
    <2>10. CASE Waits(s)
      BY <2>10 DEF Waits, NothingToSubmit, Repeats, TurnEnds
    <2>11. CASE Finish(s)
      BY <2>11 DEF Finish, EndsWell, Fail
    <2> QED BY <1>1, <2>1, <2>2, <2>3, <2>4, <2>5, <2>6, <2>7, <2>8, <2>9,
       <2>10, <2>11 DEF Worker
  <1>2. CASE StartUp
    BY <1>2 DEF StartUp
  <1>3. CASE Join
    BY <1>3 DEF Join, Working
  <1>4. CASE Interrupt
    BY <1>4 DEF Interrupt
  <1>5. CASE NewClient
    BY <1>5 DEF NewClient, All, Working
  <1>6. CASE Tick
    <2>1. AgeLimit \in Nat /\ Patience + 1 \in Nat /\ IdleLimit \in Nat
      OBVIOUS
    <2>2. /\ age' \in [Streams -> 0..AgeLimit]
          /\ sessionAge' \in [Streams -> 0..Patience + 1]
          /\ idle' \in [Streams -> 0..IdleLimit]
      <3> HIDE DEF AgeLimit, IdleLimit
      <3> QED BY <1>6, <2>1, OlderType DEF Tick
    <2> QED BY <1>6, <2>2 DEF Tick, All
  <1>7. CASE Exited
    BY <1>7 DEF Exited, vars
  <1>8. CASE UNCHANGED vars
    BY <1>8 DEF vars
  <1> QED BY <1>1, <1>2, <1>3, <1>4, <1>5, <1>6, <1>7, <1>8 DEF Next, Main

\* The retry takes the converter away.
LEMMA SessionStep ==
  TypeOK /\ InvSession /\ [Next]_vars => InvSession'
  <1> SUFFICES ASSUME TypeOK, InvSession, [Next]_vars
               PROVE  InvSession'
    OBVIOUS
  <1> USE WorkerAssumption DEF TypeOK, Set, shared, local, time, InvSession
  <1>1. ASSUME NEW s \in Streams, Worker(s)
        PROVE  InvSession'
    <2> UNCHANGED seconds
      BY <1>1 DEF Worker
    <2>1. CASE Started(s)
      BY <2>1 DEF Started, All
    <2>2. CASE StartFails(s)
      BY <2>2 DEF StartFails, Fail
    <2>3. CASE LoopTop(s)
      BY <2>3 DEF LoopTop
    <2>4. CASE NextSample(s)
      BY <2>4 DEF NextSample, Takes
    <2>5. CASE RetryOnCpu(s)
      BY <2>5 DEF RetryOnCpu, MayRetry, Forget
    <2>6. CASE CaptureFails(s)
      BY <2>6 DEF CaptureFails, Fail
    <2>7. CASE Submit(s)
      BY <2>7 DEF Submit, Repeats, TurnEnds
    <2>8. CASE SubmitFails(s)
      BY <2>8 DEF SubmitFails, Fail
    <2>9. CASE NoFrames(s)
      BY <2>9 DEF NoFrames, NothingToSubmit, Fail
    <2>10. CASE Waits(s)
      BY <2>10 DEF Waits, NothingToSubmit, Repeats, TurnEnds
    <2>11. CASE Finish(s)
      BY <2>11 DEF Finish, EndsWell, Fail
    <2> QED BY <1>1, <2>1, <2>2, <2>3, <2>4, <2>5, <2>6, <2>7, <2>8, <2>9,
       <2>10, <2>11 DEF Worker
  <1>2. CASE StartUp
    BY <1>2 DEF StartUp
  <1>3. CASE Join
    BY <1>3 DEF Join, Working
  <1>4. CASE Interrupt
    BY <1>4 DEF Interrupt
  <1>5. CASE NewClient
    BY <1>5 DEF NewClient, All, Working
  <1>6. CASE Tick
    BY <1>6 DEF Tick, All, Older, Working
  <1>7. CASE Exited
    BY <1>7 DEF Exited, vars
  <1>8. CASE UNCHANGED vars
    BY <1>8 DEF vars
  <1> QED BY <1>1, <1>2, <1>3, <1>4, <1>5, <1>6, <1>7, <1>8 DEF Next, Main

\* Only a worker that had a frame ends without failing.
LEMMA EndStep ==
  TypeOK /\ InvSession /\ InvEnd /\ [Next]_vars => InvEnd'
  <1> SUFFICES ASSUME TypeOK, InvSession, InvEnd, [Next]_vars
               PROVE  InvEnd'
    OBVIOUS
  <1> USE WorkerAssumption DEF TypeOK, Set, shared, local, time, InvSession,
     InvEnd
  <1>1. ASSUME NEW s \in Streams, Worker(s)
        PROVE  InvEnd'
    <2> UNCHANGED seconds
      BY <1>1 DEF Worker
    <2>1. CASE Started(s)
      BY <2>1 DEF Started, All
    <2>2. CASE StartFails(s)
      BY <2>2 DEF StartFails, Fail
    <2>3. CASE LoopTop(s)
      BY <2>3 DEF LoopTop
    <2>4. CASE NextSample(s)
      BY <2>4 DEF NextSample, Takes
    <2>5. CASE RetryOnCpu(s)
      BY <2>5 DEF RetryOnCpu, MayRetry, Forget
    <2>6. CASE CaptureFails(s)
      BY <2>6 DEF CaptureFails, Fail
    <2>7. CASE Submit(s)
      BY <2>7 DEF Submit, Repeats, TurnEnds
    <2>8. CASE SubmitFails(s)
      BY <2>8 DEF SubmitFails, Fail
    <2>9. CASE NoFrames(s)
      BY <2>9 DEF NoFrames, NothingToSubmit, Fail
    <2>10. CASE Waits(s)
      BY <2>10 DEF Waits, NothingToSubmit, Repeats, TurnEnds
    <2>11. CASE Finish(s)
      BY <2>11 DEF Finish, EndsWell, Fail
    <2> QED BY <1>1, <2>1, <2>2, <2>3, <2>4, <2>5, <2>6, <2>7, <2>8, <2>9,
       <2>10, <2>11 DEF Worker
  <1>2. CASE StartUp
    BY <1>2 DEF StartUp
  <1>3. CASE Join
    BY <1>3 DEF Join, Working
  <1>4. CASE Interrupt
    BY <1>4 DEF Interrupt
  <1>5. CASE NewClient
    BY <1>5 DEF NewClient, All, Working
  <1>6. CASE Tick
    BY <1>6 DEF Tick, All, Older, Working
  <1>7. CASE Exited
    BY <1>7 DEF Exited, vars
  <1>8. CASE UNCHANGED vars
    BY <1>8 DEF vars
  <1> QED BY <1>1, <1>2, <1>3, <1>4, <1>5, <1>6, <1>7, <1>8 DEF Next, Main

\* The retry forgets the sample with the session.
LEMMA RepeatStep ==
  TypeOK /\ InvSession /\ RepeatAvailable /\ [Next]_vars => RepeatAvailable'
  <1> SUFFICES ASSUME TypeOK, InvSession, RepeatAvailable, [Next]_vars
               PROVE  RepeatAvailable'
    OBVIOUS
  <1> USE WorkerAssumption DEF TypeOK, Set, shared, local, time, InvSession,
     RepeatAvailable
  <1>1. ASSUME NEW s \in Streams, Worker(s)
        PROVE  RepeatAvailable'
    <2> UNCHANGED seconds
      BY <1>1 DEF Worker
    <2>1. CASE Started(s)
      BY <2>1 DEF Started, All
    <2>2. CASE StartFails(s)
      BY <2>2 DEF StartFails, Fail
    <2>3. CASE LoopTop(s)
      BY <2>3 DEF LoopTop
    <2>4. CASE NextSample(s)
      BY <2>4 DEF NextSample, Takes
    <2>5. CASE RetryOnCpu(s)
      BY <2>5 DEF RetryOnCpu, MayRetry, Forget
    <2>6. CASE CaptureFails(s)
      BY <2>6 DEF CaptureFails, Fail
    <2>7. CASE Submit(s)
      BY <2>7 DEF Submit, Repeats, TurnEnds
    <2>8. CASE SubmitFails(s)
      BY <2>8 DEF SubmitFails, Fail
    <2>9. CASE NoFrames(s)
      BY <2>9 DEF NoFrames, NothingToSubmit, Fail
    <2>10. CASE Waits(s)
      BY <2>10 DEF Waits, NothingToSubmit, Repeats, TurnEnds
    <2>11. CASE Finish(s)
      BY <2>11 DEF Finish, EndsWell, Fail
    <2> QED BY <1>1, <2>1, <2>2, <2>3, <2>4, <2>5, <2>6, <2>7, <2>8, <2>9,
       <2>10, <2>11 DEF Worker
  <1>2. CASE StartUp
    BY <1>2 DEF StartUp
  <1>3. CASE Join
    BY <1>3 DEF Join, Working
  <1>4. CASE Interrupt
    BY <1>4 DEF Interrupt
  <1>5. CASE NewClient
    BY <1>5 DEF NewClient, All, Working
  <1>6. CASE Tick
    BY <1>6 DEF Tick, All, Older, Working
  <1>7. CASE Exited
    BY <1>7 DEF Exited, vars
  <1>8. CASE UNCHANGED vars
    BY <1>8 DEF vars
  <1> QED BY <1>1, <1>2, <1>3, <1>4, <1>5, <1>6, <1>7, <1>8 DEF Next, Main

\* A turn either submits a frame, or finds the last one too young.
LEMMA StaticStep ==
  TypeOK /\ InvSession /\ StaticRepeat /\ [Next]_vars => StaticRepeat'
  <1> SUFFICES ASSUME TypeOK, InvSession, StaticRepeat, [Next]_vars
               PROVE  StaticRepeat'
    OBVIOUS
  <1> USE WorkerAssumption DEF TypeOK, Set, shared, local, time, InvSession,
     StaticRepeat
  <1>1. ASSUME NEW s \in Streams, Worker(s)
        PROVE  StaticRepeat'
    <2> UNCHANGED seconds
      BY <1>1 DEF Worker
    <2>1. CASE Started(s)
      BY <2>1 DEF Started, All
    <2>2. CASE StartFails(s)
      BY <2>2 DEF StartFails, Fail
    <2>3. CASE LoopTop(s)
      BY <2>3 DEF LoopTop
    <2>4. CASE NextSample(s)
      BY <2>4 DEF NextSample, Takes
    <2>5. CASE RetryOnCpu(s)
      BY <2>5 DEF RetryOnCpu, MayRetry, Forget
    <2>6. CASE CaptureFails(s)
      BY <2>6 DEF CaptureFails, Fail
    <2>7. CASE Submit(s)
      BY <2>7 DEF Submit, Repeats, TurnEnds
    <2>8. CASE SubmitFails(s)
      BY <2>8 DEF SubmitFails, Fail
    <2>9. CASE NoFrames(s)
      BY <2>9 DEF NoFrames, NothingToSubmit, Fail
    <2>10. CASE Waits(s)
      BY <2>10 DEF Waits, NothingToSubmit, Repeats, TurnEnds
    <2>11. CASE Finish(s)
      BY <2>11 DEF Finish, EndsWell, Fail
    <2> QED BY <1>1, <2>1, <2>2, <2>3, <2>4, <2>5, <2>6, <2>7, <2>8, <2>9,
       <2>10, <2>11 DEF Worker
  <1>2. CASE StartUp
    BY <1>2 DEF StartUp
  <1>3. CASE Join
    BY <1>3 DEF Join, Working
  <1>4. CASE Interrupt
    BY <1>4 DEF Interrupt
  <1>5. CASE NewClient
    BY <1>5 DEF NewClient, All, Working
  <1>6. CASE Tick
    BY <1>6 DEF Tick, All, Older, Working
  <1>7. CASE Exited
    BY <1>7 DEF Exited, vars
  <1>8. CASE UNCHANGED vars
    BY <1>8 DEF vars
  <1> QED BY <1>1, <1>2, <1>3, <1>4, <1>5, <1>6, <1>7, <1>8 DEF Next, Main

-----------------------------------------------------------------------------
(* The invariant, and what follows from it.                                *)

\* All of the above holds in every state.
THEOREM Invariant == Spec => []IInv
  <1>1. IInv /\ [Next]_vars => IInv'
    BY TypeStep, SessionStep, EndStep, RepeatStep, StaticStep DEF IInv
  <1> QED BY <1>1, InitIInv, PTL DEF Spec

\* Type correctness: there is at most one retry.
THEOREM TypeCorrect == Spec => []TypeOK
  <1>1. IInv => TypeOK
    BY DEF IInv
  <1> QED BY <1>1, Invariant, PTL

\* However many streams, each repeats samples of the session in use only, and
\* can repeat as soon as that session has delivered.
THEOREM RepeatIsCurrent == Spec => []RepeatAvailable
  <1>1. IInv => RepeatAvailable
    BY DEF IInv
  <1> QED BY <1>1, Invariant, PTL

\* A static screen is repeated every second, whatever the other streams do.
THEOREM StaticIsRepeated == Spec => []StaticRepeat
  <1>1. IInv => StaticRepeat
    BY DEF IInv
  <1> QED BY <1>1, Invariant, PTL

\* The safety part of AllStop: the process reports success only if no worker
\* failed and every stream delivered.
THEOREM SuccessIsTrue ==
  Spec => [](main = "success" => ~failed /\ \A s \in Streams : consumed[s])
  <1>1. IInv => (main = "success" => ~failed /\ \A s \in Streams : consumed[s])
    BY DEF IInv, InvEnd
  <1> QED BY <1>1, Invariant, PTL

\* A keyframe request that is on its way, in the transport's flag or the
\* worker's, goes away only with a frame that is encoded as a keyframe: neither
\* exchange(false), nor a turn without a frame, nor the retry on the CPU, nor a
\* request that comes again loses it.
Owed(s) == requested[s] \/ forcePending[s]
RequestKept ==
    [][\A s \in Streams :
         Owed(s) /\ ~Owed(s)' => forcePending[s] /\ Submit(s)]_vars

\* The safety part of RequestAnswered: what is left to fairness is only that
\* the worker goes on.
THEOREM RequestIsKept == Spec => RequestKept
  <1> DEFINE Kept == \A s \in Streams :
                        Owed(s) /\ ~Owed(s)' => forcePending[s] /\ Submit(s)
  <1>1. IInv /\ [Next]_vars => [Kept]_vars
    <2> SUFFICES ASSUME IInv, Next, NEW s \in Streams, Owed(s), ~Owed(s)'
                 PROVE  forcePending[s] /\ Submit(s)
      OBVIOUS
    <2> USE DEF Owed, IInv, TypeOK, Set, shared, local, time
    <2>1. CASE Worker(s)
      <3>1. CASE Submit(s)
        BY <2>1, <3>1 DEF Submit
      <3>2. CASE NextSample(s)
        BY <3>2 DEF NextSample, Takes
      <3>3. CASE RetryOnCpu(s)
        BY <3>3 DEF RetryOnCpu
      <3>4. CASE \/ Started(s) \/ StartFails(s) \/ LoopTop(s) \/ CaptureFails(s)
                 \/ SubmitFails(s) \/ NoFrames(s) \/ Waits(s) \/ Finish(s)
        BY <3>4 DEF Started, StartFails, LoopTop, CaptureFails, SubmitFails,
                    NoFrames, Waits, Finish, Fail, TurnEnds
      <3> QED BY <2>1, <3>1, <3>2, <3>3, <3>4 DEF Worker
    <2>2. ASSUME NEW t \in Streams, t # s, Worker(t)
          PROVE  UNCHANGED <<requested[s], forcePending[s]>>
      <3>1. CASE Submit(t) \/ RetryOnCpu(t)
        BY <2>2, <3>1 DEF Submit, RetryOnCpu, TurnEnds
      <3>2. CASE NextSample(t)
        BY <2>2, <3>2 DEF NextSample, Takes
      <3>3. CASE \/ Started(t) \/ StartFails(t) \/ LoopTop(t) \/ CaptureFails(t)
                 \/ SubmitFails(t) \/ NoFrames(t) \/ Waits(t) \/ Finish(t)
        BY <3>3 DEF Started, StartFails, LoopTop, CaptureFails, SubmitFails,
                    NoFrames, Waits, Finish, Fail, TurnEnds
      <3> QED BY <2>2, <3>1, <3>2, <3>3 DEF Worker
    <2>3. CASE Main \/ Interrupt \/ Tick \/ Exited
      BY <2>3 DEF Main, StartUp, Join, Interrupt, Tick, Exited, vars
    <2>4. CASE NewClient
      BY <2>4 DEF NewClient, All
    <2> QED BY <2>1, <2>2, <2>3, <2>4 DEF Next
  <1> HIDE DEF Kept
  <1>2. Spec => [][Kept]_vars
    BY <1>1, Invariant, PTL DEF Spec
  <1> QED BY <1>2 DEF RequestKept, Kept
=============================================================================
