--------------------------- MODULE TransportProofs ---------------------------
(* Theorems about the transport for any number of streams and any limits.  *)
EXTENDS Transport, SequenceTheorems, WellFoundedInduction, TLAPS

-----------------------------------------------------------------------------
(* Types.  Flags, control, packets and counters are proved apart: a leaf    *)
(* that mixes Boolean values with sequences is beyond the solvers.          *)

LEMMA TypeInit == Init => TypeOK
  <1> SUFFICES ASSUME Init PROVE TypeOK
    OBVIOUS
  <1> USE TransportAssumption DEF Init
  <1>1. TypeFlags
    BY DEF TypeFlags
  <1>2. TypeControl
    BY DEF TypeControl
  <1>3. TypePackets
    <2>1. queue \in Seq(AccessUnit) /\ received \in Seq(AccessUnit)
          /\ pending \in Seq(AccessUnit) /\ Len(pending) <= 1
      OBVIOUS
    <2>2. hand \in [Streams -> AccessUnit]
      BY DEF Blank, AccessUnit
    <2> QED BY <2>1, <2>2 DEF TypePackets
  <1>4. TypeCounters
    BY DEF TypeCounters
  <1> QED BY <1>1, <1>2, <1>3, <1>4 DEF TypeOK

LEMMA FlagsStep == TypeFlags /\ [Next]_vars => TypeFlags'
  <1> SUFFICES ASSUME TypeFlags, [Next]_vars PROVE TypeFlags'
    OBVIOUS
  <1> USE DEF TypeFlags, shared, server, workers, network
  <1>1. ASSUME NEW s \in Streams, Worker(s) PROVE TypeFlags'
    BY <1>1 DEF Worker, TakeKeyframeRequest, NoFrame, Retire, PublishCheck,
                FrameInvalid, PublishEnqueue, MustForce
  <1>2. CASE Run
    BY <1>2 DEF Run, Leave, HonourDisconnect, Dequeue, Poll, AcceptClient,
                RefuseClient, HangUp, Send, SendFails, Idle, Timeout,
                ResetLink, CloseSocket
  <1>3. CASE \/ PollInterrupted \/ PollFails \/ Connect \/ PeerLeaves
             \/ TimePasses \/ Shutdown \/ Finished \/ UNCHANGED vars
    BY <1>3 DEF PollInterrupted, PollFails, Connect, PeerLeaves, TimePasses,
                Shutdown, Finished, CloseSocket, vars
  <1> QED BY <1>1, <1>2, <1>3 DEF Next

LEMMA ControlStep == TypeControl /\ [Next]_vars => TypeControl'
  <1> SUFFICES ASSUME TypeControl, [Next]_vars PROVE TypeControl'
    OBVIOUS
  <1> USE DEF TypeControl, shared, server, workers, network
  <1>1. ASSUME NEW s \in Streams, Worker(s) PROVE TypeControl'
    BY <1>1 DEF Worker, TakeKeyframeRequest, NoFrame, Retire, PublishCheck,
                FrameInvalid, PublishEnqueue
  <1>2. CASE Run
    BY <1>2 DEF Run, Leave, HonourDisconnect, Dequeue, Poll, AcceptClient,
                RefuseClient, HangUp, Send, SendFails, Idle, Timeout,
                ResetLink, CloseSocket
  <1>3. CASE \/ PollInterrupted \/ PollFails \/ Connect \/ PeerLeaves
             \/ TimePasses \/ Shutdown \/ Finished \/ UNCHANGED vars
    BY <1>3 DEF PollInterrupted, PollFails, Connect, PeerLeaves, TimePasses,
                Shutdown, Finished, CloseSocket, vars
  <1> QED BY <1>1, <1>2, <1>3 DEF Next

LEMMA PacketFacts ==
  ASSUME NEW q \in Seq(AccessUnit), NEW au \in AccessUnit
  PROVE  /\ au.size \in Nat /\ au.stream \in Streams
         /\ Append(q, au) \in Seq(AccessUnit)
         /\ <<>> \in Seq(AccessUnit)
         /\ <<au>> \in Seq(AccessUnit) /\ Len(<<au>>) = 1
         /\ q # <<>> => /\ Head(q) \in AccessUnit /\ q[1] = Head(q)
                       /\ Tail(q) \in Seq(AccessUnit)
  <1>1. au.stream \in Streams /\ au.size \in FrameSizes \cup {0}
    BY DEF AccessUnit
  <1>2. \A x \in FrameSizes : x \in Nat
    BY TransportAssumption
  <1> QED BY <1>1, <1>2

LEMMA NonEmpty ==
  ASSUME NEW q \in Seq(AccessUnit), q # <<>>
  PROVE  Len(q) \in Nat \ {0}
  BY EmptySeq

LEMMA OnePacket ==
  ASSUME TypePackets, pending # <<>>
  PROVE  Len(pending) = 1
  <1>1. pending \in Seq(AccessUnit)
    BY DEF TypePackets
  <1>2. Len(pending) \in Nat \ {0}
    BY <1>1, NonEmpty
  <1>3. Len(pending) <= 1
    BY DEF TypePackets
  <1> QED BY ONLY <1>2, <1>3

LEMMA EmptyIsTyped == <<>> \in Seq(AccessUnit)
  OBVIOUS

LEMMA PacketsStep ==
  TypePackets /\ TypeCounters /\ [Next]_vars => TypePackets'
  <1> SUFFICES ASSUME TypePackets, TypeCounters, [Next]_vars
               PROVE  TypePackets'
    OBVIOUS
  <1> USE DEF TypePackets, shared, server, workers, network
  <1>1. ASSUME NEW s \in Streams, Worker(s) PROVE TypePackets'
    <2>1. Blank(s) \in AccessUnit
      BY TransportAssumption DEF Blank, AccessUnit
    <2>2. CASE TakeKeyframeRequest(s) \/ NoFrame(s) \/ Retire(s)
      BY <2>2 DEF TakeKeyframeRequest, NoFrame, Retire
    <2>3. CASE PublishCheck(s)
      <3>1. ASSUME NEW key \in BOOLEAN, NEW size \in FrameSizes
            PROVE  produced[s] < MaxAU =>
                     [stream |-> s, seq |-> produced[s] + 1,
                      key |-> key, size |-> size] \in AccessUnit
        BY TransportAssumption DEF TypeCounters, AccessUnit
      <3>2. hand' \in [Streams -> AccessUnit]
        BY <2>3, <3>1 DEF PublishCheck
      <3> QED BY <2>3, <3>2 DEF PublishCheck
    <2>4. CASE FrameInvalid(s)
      BY <2>1, <2>4 DEF FrameInvalid
    <2>5. CASE PublishEnqueue(s)
      <3>1. \/ queue' = queue \/ queue' = <<>>
            \/ queue' = Append(queue, hand[s])
        BY <2>5 DEF PublishEnqueue, ClearQueue
      <3>2. hand' \in [Streams -> AccessUnit]
        BY <2>1, <2>5 DEF PublishEnqueue
      <3>3. UNCHANGED <<received, pending>>
        BY <2>5 DEF PublishEnqueue
      <3>4. queue' \in Seq(AccessUnit)
        BY <3>1, PacketFacts, Zenon
      <3> QED BY <3>2, <3>3, <3>4
    <2> QED BY <1>1, <2>2, <2>3, <2>4, <2>5 DEF Worker
  <1>2. CASE Run
    <2>1. CASE Dequeue
      <3>1. \/ UNCHANGED <<queue, pending>>
            \/ /\ queue # <<>>
               /\ queue' = Tail(queue) /\ pending' = <<Head(queue)>>
        BY <2>1 DEF Dequeue
      <3>2. UNCHANGED <<received, hand>>
        BY <2>1 DEF Dequeue
      <3>3. CASE UNCHANGED <<queue, pending>>
        BY <3>2, <3>3
      <3>4. CASE /\ queue # <<>>
                 /\ queue' = Tail(queue) /\ pending' = <<Head(queue)>>
        <4>1. queue' \in Seq(AccessUnit)
          BY <3>4
        <4>2. pending' \in Seq(AccessUnit) /\ Len(pending') <= 1
          BY <3>4
        <4> QED BY <3>2, <4>1, <4>2
      <3> QED BY <3>1, <3>3, <3>4
    <2>2. CASE Send
      <3>1. \/ UNCHANGED <<received, pending>>
            \/ /\ pending # <<>>
               /\ pending' = <<>> /\ received' = Append(received, pending[1])
        BY <2>2 DEF Send
      <3>2. UNCHANGED <<queue, hand>>
        BY <2>2 DEF Send
      <3>3. CASE pending # <<>> /\ received' = Append(received, pending[1])
        <4>1. pending[1] \in AccessUnit
          BY <3>3
        <4>2. received' \in Seq(AccessUnit)
          BY <3>3, <4>1
        <4>3. pending' = <<>>
          BY <3>1, <3>3
        <4> QED BY <3>2, <4>2, <4>3
      <3> QED BY <3>1, <3>2, <3>3
    <2>3. CASE \/ Leave \/ HonourDisconnect \/ HangUp \/ SendFails
               \/ Timeout \/ ResetLink \/ AcceptClient
      <3>1. /\ received' = received \/ received' = <<>>
            /\ pending' = pending \/ pending' = <<>>
            /\ queue' = queue \/ queue' = <<>>
            /\ UNCHANGED hand
        BY <2>3 DEF Leave, HonourDisconnect, HangUp, SendFails, Timeout,
                    ResetLink, AcceptClient, CloseSocket, ClearQueue
      <3>2. /\ received' \in Seq(AccessUnit) /\ queue' \in Seq(AccessUnit)
            /\ pending' \in Seq(AccessUnit)
        BY <3>1, EmptyIsTyped, Zenon
      <3>3. Len(pending') <= 1
        BY <3>1
      <3> QED BY <3>1, <3>2, <3>3
    <2>4. CASE Poll \/ RefuseClient \/ Idle
      BY <2>4 DEF Poll, RefuseClient, Idle
    <2> QED BY <1>2, <2>1, <2>2, <2>3, <2>4 DEF Run
  <1>3. CASE \/ PollInterrupted \/ PollFails \/ Connect \/ PeerLeaves
             \/ TimePasses \/ Shutdown \/ Finished \/ UNCHANGED vars
    <2>1. pending' = pending \/ pending' = <<>>
      BY <1>3 DEF PollInterrupted, PollFails, Connect, PeerLeaves, TimePasses,
                  Shutdown, Finished, CloseSocket, vars
    <2>2. UNCHANGED <<queue, received, hand>>
      BY <1>3 DEF PollInterrupted, PollFails, Connect, PeerLeaves, TimePasses,
                  Shutdown, Finished, vars
    <2>3. pending' \in Seq(AccessUnit)
      BY <2>1, EmptyIsTyped, Zenon
    <2>4. Len(pending') <= 1
      BY <2>1
    <2> QED BY <2>2, <2>3, <2>4
  <1> QED BY <1>1, <1>2, <1>3 DEF Next

LEMMA CountersStep == TypeOK /\ [Next]_vars => TypeCounters'
  <1> SUFFICES ASSUME TypePackets, TypeCounters, pc = "accept" => backlog > 0,
                      [Next]_vars
               PROVE  TypeCounters'
    BY DEF TypeOK
  <1> USE DEF TypeCounters, shared, server, workers, network
  <1>1. ASSUME NEW s \in Streams, Worker(s) PROVE TypeCounters'
    <2>1. hand[s].size \in Nat
      BY PacketFacts DEF TypePackets
    <2>2. Len(queue) \in Nat
      BY DEF TypePackets
    <2>3. CASE PublishCheck(s)
      <3>1. MaxAU \in Nat
        BY TransportAssumption
      <3> QED BY <2>3, <3>1 DEF PublishCheck
    <2>4. CASE PublishEnqueue(s)
      BY <2>1, <2>2, <2>4 DEF PublishEnqueue, ClearQueue
    <2>5. CASE \/ TakeKeyframeRequest(s) \/ NoFrame(s) \/ Retire(s)
               \/ FrameInvalid(s)
      BY <2>5 DEF TakeKeyframeRequest, NoFrame, Retire, FrameInvalid
    <2> QED BY <1>1, <2>3, <2>4, <2>5 DEF Worker
  <1>2. CASE Run
    <2>1. CASE Dequeue
      <3>1. queue # <<>> => Head(queue).size \in Nat
        BY PacketFacts DEF TypePackets
      <3> QED BY <2>1, <3>1 DEF Dequeue
    <2>2. CASE Send
      <3>1. offset' \in Nat
        BY <2>2 DEF Send
      <3> QED BY <2>2, <3>1 DEF Send
    <2>3. CASE \/ Leave \/ HonourDisconnect \/ HangUp \/ SendFails
               \/ Timeout \/ ResetLink
      BY <2>3 DEF Leave, HonourDisconnect, HangUp, SendFails, Timeout,
                  ResetLink, CloseSocket, ClearQueue
    <2>4. CASE AcceptClient \/ Poll \/ RefuseClient \/ Idle
      BY <2>4 DEF AcceptClient, Poll, RefuseClient, Idle
    <2> QED BY <1>2, <2>1, <2>2, <2>3, <2>4 DEF Run
  <1>3. CASE \/ PollInterrupted \/ PollFails \/ Connect \/ PeerLeaves
             \/ TimePasses \/ Shutdown \/ Finished \/ UNCHANGED vars
    BY <1>3 DEF PollInterrupted, PollFails, Connect, PeerLeaves, TimePasses,
                Shutdown, Finished, CloseSocket, vars
  <1> QED BY <1>1, <1>2, <1>3 DEF Next

\* accept4() is called only with a connection to accept.
LEMMA AcceptStep ==
  TypeOK /\ [Next]_vars => (pc = "accept" => backlog > 0)'
  <1> SUFFICES ASSUME TypeControl, TypeCounters, pc = "accept" => backlog > 0,
                      [Next]_vars
               PROVE  (pc = "accept" => backlog > 0)'
    BY DEF TypeOK
  <1> USE DEF TypeCounters, shared, server, workers, network
  <1>1. ASSUME NEW s \in Streams, Worker(s) PROVE UNCHANGED <<pc, backlog>>
    BY <1>1 DEF Worker, TakeKeyframeRequest, NoFrame, Retire, PublishCheck,
                FrameInvalid, PublishEnqueue
  <1>2. CASE Run
    <2>1. CASE Poll
      BY <2>1 DEF Poll, ListenerReady
    <2>2. CASE ResetLink
      BY <2>2 DEF ResetLink, TypeControl
    <2>3. CASE ~Poll /\ ~ResetLink
      BY <1>2, <2>3
         DEF Run, Leave, HonourDisconnect, Dequeue, AcceptClient, RefuseClient,
             HangUp, Send, SendFails, Idle, Timeout, CloseSocket
    <2> QED BY <2>1, <2>2, <2>3
  <1>3. CASE \/ PollInterrupted \/ PollFails \/ Connect \/ PeerLeaves
             \/ TimePasses \/ Shutdown \/ Finished \/ UNCHANGED vars
    BY <1>3 DEF PollInterrupted, PollFails, Connect, PeerLeaves, TimePasses,
                Shutdown, Finished, CloseSocket, vars
  <1> QED BY <1>1, <1>2, <1>3 DEF Next

\* Every reachable state is well typed, for any number of streams and any
\* limits: the counters never go negative, the server holds at most one
\* packet, and accept4() follows a poll() that saw a connection.
THEOREM TypeCorrect == Spec => []TypeOK
  <1>1. TypeOK /\ [Next]_vars => TypeOK'
    BY FlagsStep, ControlStep, PacketsStep, CountersStep, AcceptStep DEF TypeOK
  <1> QED BY TypeInit, <1>1, PTL DEF Spec

-----------------------------------------------------------------------------
(* Sequences of access units: what the server's moves do to a line, and    *)
(* when a line stays decodable.                                            *)

\* Dequeue moves the head of the queue into the server's hands.
LEMMA DequeueKeepsLine ==
  ASSUME NEW r \in Seq(AccessUnit), NEW q \in Seq(AccessUnit), q # <<>>
  PROVE  (r \o <<Head(q)>>) \o Tail(q) = (r \o <<>>) \o q
  <1>1. Head(q) \in AccessUnit /\ Tail(q) \in Seq(AccessUnit)
        /\ Len(Tail(q)) = Len(q) - 1 /\ Len(q) \in Nat \ {0}
        /\ Head(q) = q[1]
        /\ \A i \in 1..Len(Tail(q)) : Tail(q)[i] = q[i + 1]
    BY HeadTailProperties, EmptySeq
  <1>2. <<Head(q)>> \in Seq(AccessUnit) /\ Len(<<Head(q)>>) = 1
        /\ <<Head(q)>>[1] = q[1]
    BY <1>1
  <1> DEFINE whole == <<Head(q)>> \o Tail(q)
  <1>3. whole \in Seq(AccessUnit) /\ Len(whole) = Len(q)
        /\ \A i \in 1..Len(whole) : whole[i] = q[i]
    <2>1. whole \in Seq(AccessUnit) /\ Len(whole) = 1 + Len(Tail(q))
          /\ \A i \in 1..(1 + Len(Tail(q))) :
               whole[i] = IF i <= 1 THEN <<Head(q)>>[i] ELSE Tail(q)[i - 1]
      BY <1>1, <1>2, ConcatProperties
    <2> HIDE DEF whole
    <2>2. ASSUME NEW i \in 1..Len(whole) PROVE whole[i] = q[i]
      BY <1>1, <1>2, <2>1
    <2> QED BY <1>1, <2>1, <2>2
  <1>4. whole = q
    BY <1>3, SeqEqual
  <1> QED BY <1>1, <1>2, <1>4, ConcatAssociative, ConcatEmptySeq

\* Send moves the packet to the client when its last byte is taken.
LEMMA SendKeepsLine ==
  ASSUME NEW r \in Seq(AccessUnit), NEW q \in Seq(AccessUnit),
         NEW au \in AccessUnit
  PROVE  (Append(r, au) \o <<>>) \o q = (r \o <<au>>) \o q
  BY AppendIsConcat, AppendProperties, ConcatEmptySeq

\* publish() adds to the end of the queue.
LEMMA EnqueueExtendsLine ==
  ASSUME NEW r \in Seq(AccessUnit), NEW q \in Seq(AccessUnit),
         NEW au \in AccessUnit
  PROVE  r \o Append(q, au) = Append(r \o q, au)
  <1>1. <<au>> \in Seq(AccessUnit)
    OBVIOUS
  <1> QED BY <1>1, AppendIsConcat, ConcatProperties, ConcatAssociative

\* What was decodable stays so when the end is cut off.
LEMMA DecodablePrefix ==
  ASSUME NEW l \in Seq(AccessUnit), NEW m \in Seq(AccessUnit),
         Wire!Decodable(l \o m)
  PROVE  Wire!Decodable(l)
  <1> DEFINE whole == l \o m
  <1>1. Len(l) \in Nat /\ Len(m) \in Nat /\ Len(whole) = Len(l) + Len(m)
        /\ \A i \in 1..Len(l) : whole[i] = l[i]
    BY ConcatProperties, LenProperties
  <1>2. Wire!Decodable(whole)
    OBVIOUS
  <1> HIDE DEF whole
  <1> SUFFICES ASSUME NEW n \in 1..Len(l) PROVE Wire!Follows(l, n)
    BY DEF Wire!Decodable
  <1>3. Wire!Follows(whole, n)
    BY <1>1, <1>2 DEF Wire!Decodable
  <1> QED BY <1>1, <1>3 DEF Wire!Follows

\* A line can be continued by the first keyframe of a stream, or by the
\* successor of the last access unit of a stream.
LEMMA DecodableAppend ==
  ASSUME NEW l \in Seq(AccessUnit), NEW au \in AccessUnit, Wire!Decodable(l),
         \/ /\ au.key
            /\ \A i \in 1..Len(l) : l[i].stream # au.stream
         \/ \E i \in 1..Len(l) :
              /\ l[i].stream = au.stream /\ l[i].seq + 1 = au.seq
              /\ \A j \in (i + 1)..Len(l) : l[j].stream # au.stream
  PROVE  Wire!Decodable(Append(l, au))
  <1> DEFINE longer == Append(l, au)
  <1>1. Len(l) \in Nat /\ Len(longer) = Len(l) + 1
        /\ longer[Len(l) + 1] = au
        /\ \A i \in 1..Len(l) : longer[i] = l[i]
    BY AppendProperties, LenProperties
  <1> HIDE DEF longer
  <1>2. ASSUME NEW n \in 1..Len(l) PROVE Wire!Follows(longer, n)
    <2>1. Wire!Follows(l, n)
      BY DEF Wire!Decodable
    <2> QED BY <1>1, <2>1 DEF Wire!Follows
  <1>3. Wire!Follows(longer, Len(l) + 1)
    BY <1>1 DEF Wire!Follows
  <1>4. Wire!Decodable(longer)
    BY <1>1, <1>2, <1>3 DEF Wire!Decodable
  <1> QED BY <1>4 DEF longer

-----------------------------------------------------------------------------
(* The inductive invariant: where the client, the link and the queue agree, *)
(* what publish() holds, and what the line contains of each stream.         *)

InvLink ==
    /\ client => connected /\ pc # "reset"
    /\ ~client => pending = <<>> /\ offset = 0
    /\ ~client /\ pc # "reset" =>
         ~connected /\ ~disconnect /\ queue = <<>> /\ queuedBytes = 0
    /\ disconnect => queue = <<>>

InvHand ==
    \A s \in Streams :
        /\ hand[s].stream = s
        /\ worker[s] = "framing" => hand[s].seq = produced[s]

\* A stream that still waits has nothing on the line.
InvWaiting ==
    client /\ ~disconnect =>
        \A s \in Streams : waitingForKeyframe[s] =>
            \A i \in 1..Len(Line) : Line[i].stream # s

IInv ==
    /\ TypeOK /\ InvLink /\ InvHand
    /\ InvWaiting /\ NoSilentDrop /\ LineDecodable

LEMMA InvInit == Init => IInv
  <1> SUFFICES ASSUME Init PROVE IInv
    OBVIOUS
  <1>1. TypeOK
    BY TypeInit
  <1>2. InvLink /\ InvHand
    BY DEF Init, InvLink, InvHand, Blank
  <1>3. ~client
    BY DEF Init
  <1> QED
    BY <1>1, <1>2, <1>3 DEF IInv, InvWaiting, NoSilentDrop, LineDecodable

LEMMA LinkStep == TypeOK /\ InvLink /\ [Next]_vars => InvLink'
  <1> SUFFICES ASSUME TypeFlags, TypeControl, InvLink, [Next]_vars
               PROVE  InvLink'
    BY DEF TypeOK
  <1> USE DEF InvLink, shared, server, workers, network
  <1>1. ASSUME NEW s \in Streams, Worker(s) PROVE InvLink'
    <2>1. CASE PublishEnqueue(s)
      BY <2>1 DEF PublishEnqueue, ClearQueue, LinkDown
    <2>2. CASE ~PublishEnqueue(s)
      BY <1>1, <2>2 DEF Worker, TakeKeyframeRequest, NoFrame, Retire,
                        PublishCheck, FrameInvalid
    <2> QED BY <2>1, <2>2
  <1>2. CASE Run
    <2>1. CASE Leave \/ HonourDisconnect \/ HangUp \/ SendFails \/ Timeout
      BY <2>1 DEF Leave, HonourDisconnect, HangUp, SendFails, Timeout,
                  CloseSocket
    <2>2. CASE ResetLink
      BY <2>2 DEF ResetLink, ClearQueue
    <2>3. CASE AcceptClient
      BY <2>3 DEF AcceptClient
    <2>4. CASE Dequeue
      BY <2>4 DEF Dequeue
    <2>5. CASE Send
      BY <2>5 DEF Send
    <2>6. CASE Poll \/ RefuseClient \/ Idle
      BY <2>6 DEF Poll, RefuseClient, Idle
    <2> QED BY <1>2, <2>1, <2>2, <2>3, <2>4, <2>5, <2>6 DEF Run
  <1>3. CASE \/ PollInterrupted \/ PollFails \/ Connect \/ PeerLeaves
             \/ TimePasses \/ Shutdown \/ Finished \/ UNCHANGED vars
    BY <1>3 DEF PollInterrupted, PollFails, Connect, PeerLeaves, TimePasses,
                Shutdown, Finished, CloseSocket, vars
  <1> QED BY <1>1, <1>2, <1>3 DEF Next

LEMMA HandStep == TypeOK /\ InvHand /\ [Next]_vars => InvHand'
  <1> SUFFICES ASSUME TypeControl, TypePackets, TypeCounters, InvHand,
                      [Next]_vars
               PROVE  InvHand'
    BY DEF TypeOK
  <1> USE DEF InvHand, TypeControl, TypePackets, TypeCounters
  <1>1. ASSUME NEW s \in Streams, Worker(s) PROVE InvHand'
    <2>1. CASE TakeKeyframeRequest(s) \/ NoFrame(s) \/ Retire(s)
      BY <2>1 DEF TakeKeyframeRequest, NoFrame, Retire
    <2>2. CASE PublishCheck(s)
      BY <2>2 DEF PublishCheck
    <2>3. CASE FrameInvalid(s)
      BY <2>3 DEF FrameInvalid, Blank
    <2>4. CASE PublishEnqueue(s)
      BY <2>4 DEF PublishEnqueue, Blank
    <2> QED BY <1>1, <2>1, <2>2, <2>3, <2>4 DEF Worker
  <1>2. CASE ~\E s \in Streams : Worker(s)
    <2>1. UNCHANGED <<hand, worker, produced>>
      BY <1>2 DEF Next, vars, workers, Run, Leave, HonourDisconnect, Dequeue,
                  Poll, AcceptClient, RefuseClient, HangUp, Send, SendFails,
                  Idle, Timeout, ResetLink, PollInterrupted, PollFails,
                  Connect, PeerLeaves, TimePasses, Shutdown, Finished
    <2> QED BY <2>1
  <1> QED BY <1>1, <1>2

-----------------------------------------------------------------------------
(* What a step does to the line of a client that stays connected.          *)

LineKept ==
    /\ Line' = Line /\ client' = client
    /\ waitingForKeyframe' = waitingForKeyframe /\ disconnect' = disconnect

LEMMA LineTyped ==
  ASSUME TypePackets
  PROVE  Line \in Seq(AccessUnit) /\ received \o pending \in Seq(AccessUnit)
  BY ConcatProperties DEF TypePackets, Line

\* The server's own moves keep the line, close the client or accept one.
LEMMA ServerEffect ==
  ASSUME TypeOK, InvLink, [Next]_vars, ~\E s \in Streams : Worker(s)
  PROVE  /\ UNCHANGED <<worker, hand, produced>>
         /\ \/ ~client'
            \/ LineKept
            \/ /\ ~disconnect' /\ Line' = <<>>
               /\ waitingForKeyframe' = [s \in Streams |-> TRUE]
  <1> USE DEF shared, server, workers, network
  <1>1. UNCHANGED <<worker, hand, produced>>
    BY DEF Next, vars, Run, Leave, HonourDisconnect, Dequeue,
           Poll, AcceptClient, RefuseClient, HangUp, Send, SendFails,
           Idle, Timeout, ResetLink, PollInterrupted, PollFails,
           Connect, PeerLeaves, TimePasses, Shutdown, Finished
  <1>2. CASE \/ Leave \/ HonourDisconnect \/ HangUp \/ SendFails
             \/ Timeout \/ PollFails
    BY <1>1, <1>2 DEF Leave, HonourDisconnect, HangUp, SendFails, Timeout,
                      PollFails, CloseSocket
  <1>3. CASE ResetLink
    BY <1>1, <1>3 DEF ResetLink, InvLink
  <1>4. CASE Dequeue
    <2>1. UNCHANGED <<client, waitingForKeyframe, disconnect, received>>
      BY <1>4 DEF Dequeue
    <2>2. \/ UNCHANGED <<queue, pending>>
          \/ /\ pending = <<>> /\ queue # <<>>
             /\ queue' = Tail(queue) /\ pending' = <<Head(queue)>>
      BY <1>4 DEF Dequeue
    <2>3. CASE UNCHANGED <<queue, pending>>
      BY <1>1, <2>1, <2>3 DEF LineKept, Line
    <2>4. CASE /\ pending = <<>> /\ queue # <<>>
               /\ queue' = Tail(queue) /\ pending' = <<Head(queue)>>
      <3>1. queue \in Seq(AccessUnit) /\ received \in Seq(AccessUnit)
        BY DEF TypeOK, TypePackets
      <3>2. Line' = Line
        BY <2>1, <2>4, <3>1, DequeueKeepsLine DEF Line
      <3> QED BY <1>1, <2>1, <3>2 DEF LineKept
    <2> QED BY <2>2, <2>3, <2>4
  <1>5. CASE Send
    <2>1. UNCHANGED <<client, waitingForKeyframe, disconnect, queue>>
      BY <1>5 DEF Send
    <2>2. \/ UNCHANGED <<received, pending>>
          \/ /\ pending # <<>>
             /\ pending' = <<>> /\ received' = Append(received, pending[1])
      BY <1>5 DEF Send
    <2>3. CASE UNCHANGED <<received, pending>>
      BY <1>1, <2>1, <2>3 DEF LineKept, Line
    <2>4. CASE /\ pending # <<>>
               /\ pending' = <<>> /\ received' = Append(received, pending[1])
      <3>1. queue \in Seq(AccessUnit) /\ received \in Seq(AccessUnit)
            /\ pending[1] \in AccessUnit
        BY <2>4 DEF TypeOK, TypePackets
      <3>2. pending = <<pending[1]>>
        <4>1. Len(pending) = 1 /\ pending \in Seq(AccessUnit)
          <5>1. TypePackets /\ pending # <<>>
            BY <2>4 DEF TypeOK
          <5> QED BY <5>1, OnePacket DEF TypePackets
        <4>2. /\ <<pending[1]>> \in Seq(AccessUnit) /\ Len(<<pending[1]>>) = 1
              /\ <<pending[1]>>[1] = pending[1]
          BY <3>1
        <4> QED BY <4>1, <4>2, SeqEqual
      <3>3. Line' = Line
        BY <2>1, <2>4, <3>1, <3>2, SendKeepsLine DEF Line
      <3> QED BY <1>1, <2>1, <3>3 DEF LineKept
    <2> QED BY <2>2, <2>3, <2>4
  <1>6. CASE AcceptClient
    <2>1. ~disconnect' /\ waitingForKeyframe' = [s \in Streams |-> TRUE]
      BY <1>6 DEF AcceptClient, InvLink
    <2>2. pending = <<>> /\ queue = <<>>
      BY <1>6 DEF AcceptClient, InvLink
    <2>3. received' = <<>> /\ pending' = <<>> /\ queue' = <<>>
      BY <1>6, <2>2 DEF AcceptClient
    <2>4. Line' = <<>>
      BY <2>3 DEF Line
    <2> QED BY <1>1, <2>1, <2>4
  <1>7. CASE \/ Poll \/ RefuseClient \/ Idle \/ PollInterrupted \/ Connect
             \/ PeerLeaves \/ TimePasses \/ Shutdown \/ Finished
             \/ UNCHANGED vars
    <2>1. UNCHANGED <<client, waitingForKeyframe, disconnect, received,
                      pending, queue>>
      BY <1>7 DEF Poll, RefuseClient, Idle, PollInterrupted, Connect,
                  PeerLeaves, TimePasses, Shutdown, Finished, vars
    <2> QED BY <1>1, <2>1 DEF LineKept, Line
  <1> QED BY <1>2, <1>3, <1>4, <1>5, <1>6, <1>7 DEF Next, Run

\* The second critical section of publish(): nothing, one more access unit
\* at the end, or the whole queue dropped together with the connection.
LEMMA EnqueueEffect ==
  ASSUME TypeOK, NEW s \in Streams, PublishEnqueue(s)
  PROVE  \/ LineKept /\ (LinkDown \/ Withheld(hand[s]))
         \/ /\ ~LinkDown /\ ~Withheld(hand[s])
            /\ client' = client
            /\ waitingForKeyframe' = [waitingForKeyframe EXCEPT ![s] = FALSE]
            /\ \/ disconnect' /\ Line' = received \o pending
               \/ ~disconnect' /\ Line' = Append(Line, hand[s])
  <1>1. UNCHANGED <<client, received, pending>>
    BY DEF PublishEnqueue, server
  <1>2. CASE LinkDown \/ Withheld(hand[s])
    <2>1. UNCHANGED <<queue, waitingForKeyframe, disconnect>>
      BY <1>2 DEF PublishEnqueue, shared
    <2> QED BY <1>1, <1>2, <2>1 DEF LineKept, Line
  <1>3. CASE ~LinkDown /\ ~Withheld(hand[s])
    <2>1. waitingForKeyframe' = [waitingForKeyframe EXCEPT ![s] = FALSE]
      BY <1>3 DEF PublishEnqueue
    <2>2. CASE Overflows(hand[s])
      <3>1. disconnect' /\ queue' = <<>>
        BY <1>3, <2>2 DEF PublishEnqueue, ClearQueue
      <3>2. received \o pending \in Seq(AccessUnit)
        BY LineTyped DEF TypeOK
      <3>3. Line' = received \o pending
        BY <1>1, <3>1, <3>2, ConcatEmptySeq DEF Line
      <3> QED BY <1>1, <1>3, <2>1, <3>1, <3>3
    <2>3. CASE ~Overflows(hand[s])
      <3>1. disconnect' = disconnect /\ queue' = Append(queue, hand[s])
        BY <1>3, <2>3 DEF PublishEnqueue
      <3>2. /\ received \o pending \in Seq(AccessUnit)
            /\ queue \in Seq(AccessUnit) /\ hand[s] \in AccessUnit
        BY LineTyped DEF TypeOK, TypePackets
      <3>3. Line' = Append(Line, hand[s])
        BY <1>1, <3>1, <3>2, EnqueueExtendsLine DEF Line
      <3>4. ~disconnect'
        BY <1>3, <3>1 DEF LinkDown
      <3> QED BY <1>1, <1>3, <2>1, <3>3, <3>4
    <2> QED BY <2>2, <2>3
  <1> QED BY <1>2, <1>3

LEMMA ServerLineStep ==
  ASSUME IInv, [Next]_vars, ~\E s \in Streams : Worker(s)
  PROVE  InvWaiting' /\ NoSilentDrop' /\ LineDecodable'
  <1>1. UNCHANGED <<worker, hand, produced>>
    BY ServerEffect DEF IInv
  <1>2. CASE ~client'
    BY <1>2 DEF InvWaiting, NoSilentDrop, LineDecodable
  <1>3. CASE LineKept /\ client'
    <2>1. connected /\ UNCHANGED <<client, disconnect>>
      BY <1>3 DEF IInv, InvLink, LineKept
    <2>2. InvWaiting'
      BY <1>3, <2>1 DEF IInv, InvWaiting, LineKept
    <2>3. NoSilentDrop'
      BY <1>1, <1>3, <2>1 DEF IInv, NoSilentDrop, LineKept, LastPublished
    <2>4. LineDecodable'
      BY <1>3, <2>1 DEF IInv, LineDecodable, LineKept, Wire!Decodable,
                        Wire!Follows
    <2> QED BY <2>2, <2>3, <2>4
  <1>4. CASE Line' = <<>> /\ waitingForKeyframe' = [s \in Streams |-> TRUE]
    <2>1. Len(Line') = 0
      BY <1>4
    <2>2. NoSilentDrop'
      BY <1>4 DEF NoSilentDrop
    <2>3. InvWaiting' /\ LineDecodable'
      BY <2>1 DEF InvWaiting, LineDecodable, Wire!Decodable
    <2> QED BY <2>2, <2>3
  <1> QED BY <1>2, <1>3, <1>4, ServerEffect DEF IInv

\* The steps of a worker but the second critical section of publish().
LEMMA WorkerLineStep ==
  ASSUME IInv, NEW s \in Streams, Worker(s), ~PublishEnqueue(s)
  PROVE  InvWaiting' /\ NoSilentDrop' /\ LineDecodable'
  <1>1. UNCHANGED <<client, received, pending, queue, connected, disconnect,
                    waitingForKeyframe>>
    BY DEF Worker, TakeKeyframeRequest, NoFrame, Retire, PublishCheck,
           FrameInvalid, shared, server
  <1>2. Line' = Line
    BY <1>1 DEF Line
  <1>3. InvWaiting' /\ LineDecodable'
    BY <1>1, <1>2 DEF IInv, InvWaiting, LineDecodable, Wire!Decodable,
                      Wire!Follows
  <1>4. ASSUME NEW t \in Streams,
               connected, ~disconnect, ~waitingForKeyframe[t],
               worker'[t] # "done"
        PROVE  worker[t] # "done" /\ LastPublished(t)' = LastPublished(t)
    <2> USE DEF IInv, TypeOK, TypeControl, TypeCounters, LastPublished
    <2>1. CASE TakeKeyframeRequest(s) \/ NoFrame(s) \/ Retire(s)
               \/ FrameInvalid(s)
      BY <1>4, <2>1 DEF TakeKeyframeRequest, NoFrame, Retire, FrameInvalid
    <2>2. CASE PublishCheck(s)
      BY <1>4, <2>2 DEF PublishCheck, LinkDown, Withheld
    <2> QED BY <2>1, <2>2 DEF Worker
  <1>5. NoSilentDrop'
    BY <1>1, <1>2, <1>4 DEF IInv, NoSilentDrop
  <1> QED BY <1>3, <1>5

LEMMA EnqueueLineStep ==
  ASSUME IInv, NEW s \in Streams, PublishEnqueue(s)
  PROVE  InvWaiting' /\ NoSilentDrop' /\ LineDecodable'
  <1>1. /\ UNCHANGED <<produced, client, connected>>
        /\ worker[s] = "framing" /\ worker' = [worker EXCEPT ![s] = "take"]
    BY DEF PublishEnqueue, server, shared
  <1>2. hand[s].stream = s /\ hand[s].seq = produced[s]
    BY <1>1 DEF IInv, InvHand
  <1>3. ASSUME NEW t \in Streams
        PROVE  /\ t # s => LastPublished(t)' = LastPublished(t)
               /\ LastPublished(s) + 1 = produced[s]
               /\ LastPublished(s)' = produced[s]
    BY <1>1 DEF IInv, TypeOK, TypeControl, TypeCounters, LastPublished
  <1>4. CASE LineKept /\ (LinkDown \/ Withheld(hand[s]))
    <2>1. InvWaiting' /\ LineDecodable'
      BY <1>4 DEF IInv, InvWaiting, LineDecodable, LineKept, Wire!Decodable,
                  Wire!Follows
    <2>2. NoSilentDrop'
      BY <1>1, <1>2, <1>3, <1>4
         DEF IInv, TypeOK, TypeControl, NoSilentDrop, LineKept, LinkDown,
             Withheld
    <2> QED BY <2>1, <2>2
  <1>5. CASE disconnect' /\ Line' = received \o pending
    <2>1. /\ received \o pending \in Seq(AccessUnit)
          /\ queue \in Seq(AccessUnit)
      BY LineTyped DEF IInv, TypeOK, TypePackets
    <2>2. client => Wire!Decodable(received \o pending)
      BY <2>1, DecodablePrefix DEF IInv, LineDecodable, Line
    <2>3. LineDecodable'
      BY <1>1, <1>5, <2>2 DEF LineDecodable, Wire!Decodable, Wire!Follows
    <2> QED BY <1>5, <2>3 DEF InvWaiting, NoSilentDrop
  <1>6. CASE /\ ~LinkDown /\ ~Withheld(hand[s])
             /\ waitingForKeyframe' = [waitingForKeyframe EXCEPT ![s] = FALSE]
             /\ ~disconnect' /\ Line' = Append(Line, hand[s])
    <2>1. Line \in Seq(AccessUnit) /\ hand[s] \in AccessUnit
      BY LineTyped DEF IInv, TypeOK, TypePackets
    <2>2. /\ Len(Line) \in Nat /\ Len(Line') = Len(Line) + 1
          /\ Line'[Len(Line) + 1] = hand[s]
          /\ \A i \in 1..Len(Line) : Line'[i] = Line[i]
      BY <1>6, <2>1, AppendProperties, LenProperties
    <2>3. connected /\ ~disconnect
      BY <1>6 DEF LinkDown
    <2>4. ASSUME client, waitingForKeyframe[s]
          PROVE  hand[s].key /\ \A i \in 1..Len(Line) : Line[i].stream # s
      BY <1>2, <1>6, <2>3, <2>4 DEF Withheld, IInv, InvWaiting
    <2>5. ASSUME client, ~waitingForKeyframe[s]
          PROVE  \E i \in 1..Len(Line) :
                   /\ Line[i].stream = s /\ Line[i].seq = LastPublished(s)
                   /\ \A j \in (i + 1)..Len(Line) : Line[j].stream # s
      BY <1>1, <2>3, <2>5 DEF IInv, NoSilentDrop
    <2>6. LineDecodable'
      <3>1. ASSUME client PROVE Wire!Decodable(Append(Line, hand[s]))
        <4>1. Wire!Decodable(Line)
          BY <3>1 DEF IInv, LineDecodable
        <4>2. \/ /\ hand[s].key
                 /\ \A i \in 1..Len(Line) : Line[i].stream # hand[s].stream
              \/ \E i \in 1..Len(Line) :
                   /\ Line[i].stream = hand[s].stream
                   /\ Line[i].seq + 1 = hand[s].seq
                   /\ \A j \in (i + 1)..Len(Line) :
                        Line[j].stream # hand[s].stream
          BY <1>2, <1>3, <2>4, <2>5, <3>1
        <4> QED BY <2>1, <4>1, <4>2, DecodableAppend
      <3> QED BY <1>1, <1>6, <3>1 DEF LineDecodable, Wire!Decodable,
                                      Wire!Follows
    <2>7. InvWaiting'
      BY <1>1, <1>2, <1>6, <2>2, <2>3 DEF IInv, TypeOK, TypeFlags, InvWaiting
    <2>8. NoSilentDrop'
      <3> SUFFICES ASSUME client', NEW t \in Streams,
                          ~waitingForKeyframe'[t], worker'[t] # "done"
                   PROVE  \E i \in 1..Len(Line') :
                            /\ Line'[i].stream = t
                            /\ Line'[i].seq = LastPublished(t)'
                            /\ \A j \in (i + 1)..Len(Line') :
                                 Line'[j].stream # t
        BY DEF NoSilentDrop
      <3>1. CASE t = s
        BY <1>2, <1>3, <2>2, <3>1
      <3>2. CASE t # s
        <4>1. ~waitingForKeyframe[t] /\ worker[t] # "done"
          BY <1>1, <1>6, <3>2 DEF IInv, TypeOK, TypeFlags, TypeControl
        <4>2. PICK i \in 1..Len(Line) :
                /\ Line[i].stream = t /\ Line[i].seq = LastPublished(t)
                /\ \A j \in (i + 1)..Len(Line) : Line[j].stream # t
          BY <1>1, <2>3, <4>1 DEF IInv, NoSilentDrop
        <4> QED BY <1>2, <1>3, <2>2, <3>2, <4>2
      <3> QED BY <3>1, <3>2
    <2> QED BY <2>6, <2>7, <2>8
  <1> QED BY <1>4, <1>5, <1>6, EnqueueEffect DEF IInv

LEMMA InvStep == IInv /\ [Next]_vars => IInv'
  <1> SUFFICES ASSUME IInv, [Next]_vars PROVE IInv'
    OBVIOUS
  <1>1. TypeOK' /\ InvLink' /\ InvHand'
    BY FlagsStep, ControlStep, PacketsStep, CountersStep, AcceptStep,
       LinkStep, HandStep DEF IInv, TypeOK
  <1>2. InvWaiting' /\ NoSilentDrop' /\ LineDecodable'
    BY ServerLineStep, WorkerLineStep, EnqueueLineStep
  <1> QED BY <1>1, <1>2 DEF IInv

LEMMA Invariant == Spec => []IInv
  BY InvInit, InvStep, PTL DEF Spec

\* No client is ever sent, or about to be sent, an access unit it cannot
\* decode, for any number of streams, workers' interleavings and limits.
THEOREM LineIsDecodable == Spec => []LineDecodable
  <1>1. IInv => LineDecodable
    BY DEF IInv
  <1> QED BY <1>1, Invariant, PTL

\* A stream that was started loses nothing while the connection stands.
THEOREM NothingDropped == Spec => []NoSilentDrop
  <1>1. IInv => NoSilentDrop
    BY DEF IInv
  <1> QED BY <1>1, Invariant, PTL

\* Nothing of one connection is left for the next.
THEOREM DeadLinkEmpty == Spec => []DeadLinkIsEmpty
  <1>1. IInv => DeadLinkIsEmpty
    BY DEF IInv, InvLink, DeadLinkIsEmpty
  <1> QED BY <1>1, Invariant, PTL

-----------------------------------------------------------------------------
(* The transport implements the abstract channel.                          *)

\* The access unit handed over by a send() that completes a packet follows
\* what the client already has, because the whole line is decodable.
LEMMA DeliveryFollows ==
  ASSUME NEW r \in Seq(AccessUnit), NEW q \in Seq(AccessUnit),
         NEW au \in AccessUnit, Wire!Decodable((r \o <<au>>) \o q)
  PROVE  Wire!Follows(Append(r, au), Len(Append(r, au)))
  <1>1. /\ Append(r, au) \in Seq(AccessUnit) /\ Append(r, au) = r \o <<au>>
        /\ Len(Append(r, au)) \in Nat \ {0}
    BY AppendProperties, AppendIsConcat, LenProperties
  <1>2. Wire!Decodable(Append(r, au))
    BY <1>1, DecodablePrefix
  <1> QED BY <1>1, <1>2 DEF Wire!Decodable

LEMMA WireStep == IInv /\ [Next]_vars => [Wire!Next]_(Wire!vars)
  <1> SUFFICES ASSUME IInv, [Next]_vars
               PROVE  [Wire!Next]_(Wire!vars)
    OBVIOUS
  <1> USE DEF Wire!vars, Wire!Next, shared, server, workers, network
  <1>1. CASE AcceptClient
    BY <1>1 DEF AcceptClient, Wire!Connect
  <1>2. CASE Send
    <2>1. UNCHANGED <<client, queue>>
      BY <1>2 DEF Send
    <2>2. \/ UNCHANGED received
          \/ pending # <<>> /\ received' = Append(received, pending[1])
      BY <1>2 DEF Send
    <2>3. CASE pending # <<>> /\ received' = Append(received, pending[1])
      <3>1. /\ received \in Seq(AccessUnit) /\ queue \in Seq(AccessUnit)
            /\ pending \in Seq(AccessUnit) /\ Len(pending) <= 1
        BY DEF IInv, TypeOK, TypePackets
      <3>2. pending[1] \in AccessUnit /\ Len(pending) = 1
        <4>1. Len(pending) = 1
          <5>1. TypePackets /\ pending # <<>>
            BY <2>3 DEF IInv, TypeOK
          <5> QED BY <5>1, OnePacket
        <4>2. pending[1] \in AccessUnit
          BY <2>3, <3>1
        <4> QED BY <4>1, <4>2
      <3>3. pending = <<pending[1]>>
        <4>1. /\ <<pending[1]>> \in Seq(AccessUnit)
              /\ Len(<<pending[1]>>) = 1 /\ <<pending[1]>>[1] = pending[1]
          BY <3>2
        <4> QED BY <3>1, <3>2, <4>1, SeqEqual
      <3>4. client
        BY <2>3 DEF IInv, InvLink
      <3>5. Wire!Decodable((received \o <<pending[1]>>) \o queue)
        BY <3>3, <3>4 DEF IInv, LineDecodable, Line
      <3>6. Wire!Follows(Append(received, pending[1]),
                         Len(Append(received, pending[1])))
        BY <3>1, <3>2, <3>5, DeliveryFollows
      <3>7. Wire!Follows(received', Len(received'))
        BY <2>3, <3>6
      <3> QED BY <2>1, <2>3, <3>2, <3>4, <3>7 DEF Wire!Deliver, Wire!Follows
    <2> QED BY <2>1, <2>2, <2>3
  <1>3. CASE \/ Leave \/ HonourDisconnect \/ HangUp \/ SendFails
             \/ Timeout \/ PollFails
    <2>1. client' = FALSE /\ received' = received
      BY <1>3 DEF Leave, HonourDisconnect, HangUp, SendFails, Timeout,
                  PollFails, CloseSocket
    <2>2. client \in BOOLEAN
      BY DEF IInv, TypeOK, TypeFlags
    <2> QED BY <2>1, <2>2 DEF Wire!Disconnect
  <1>4. CASE \/ Dequeue \/ Poll \/ RefuseClient \/ Idle \/ ResetLink
             \/ PollInterrupted \/ Connect \/ PeerLeaves \/ TimePasses
             \/ Shutdown \/ Finished \/ UNCHANGED vars
    BY <1>4 DEF Dequeue, Poll, RefuseClient, Idle, ResetLink, PollInterrupted,
                Connect, PeerLeaves, TimePasses, Shutdown, Finished, vars
  <1>5. ASSUME NEW s \in Streams, Worker(s) PROVE UNCHANGED <<client, received>>
    BY <1>5 DEF Worker, TakeKeyframeRequest, NoFrame, Retire, PublishCheck,
                FrameInvalid, PublishEnqueue
  <1> QED BY <1>1, <1>2, <1>3, <1>4, <1>5 DEF Next, Run

\* Sockets, threads, queue, overflow and timeout together are a channel that
\* gives every connection a line it can decode.
THEOREM TransportImplementsChannel == Spec => WireSpec
  <1>1. Init => Wire!Init
    BY DEF Init, Wire!Init
  <1> QED BY <1>1, WireStep, Invariant, PTL DEF Spec, WireSpec, Wire!Spec

-----------------------------------------------------------------------------
(* What follows from the abstract channel alone, and so for any server that *)
(* implements it.                                                          *)

\* Each access unit the channel delivers continues a decodable line.
LEMMA ChannelStep ==
  ASSUME received \in Seq(AccessUnit), Wire!Decodable(received),
         [Wire!Next]_(Wire!vars)
  PROVE  received' \in Seq(AccessUnit) /\ Wire!Decodable(received')
  <1>1. CASE Wire!Connect
    BY <1>1, EmptyIsTyped DEF Wire!Connect, Wire!Decodable
  <1>2. CASE Wire!Deliver
    <2>1. PICK au \in AccessUnit :
            /\ received' = Append(received, au)
            /\ Wire!Follows(received', Len(received'))
      BY <1>2 DEF Wire!Deliver
    <2>2. /\ Len(received') = Len(received) + 1 /\ Len(received) \in Nat
          /\ received'[Len(received) + 1] = au
          /\ \A i \in 1..Len(received) : received'[i] = received[i]
      BY <2>1, AppendProperties, LenProperties
    <2>3. \/ /\ au.key
             /\ \A i \in 1..Len(received) : received[i].stream # au.stream
          \/ \E i \in 1..Len(received) :
               /\ received[i].stream = au.stream
               /\ received[i].seq + 1 = au.seq
               /\ \A j \in (i + 1)..Len(received) :
                     received[j].stream # au.stream
      BY <2>1, <2>2 DEF Wire!Follows
    <2> QED BY <2>1, <2>3, DecodableAppend, AppendProperties
  <1>3. CASE Wire!Disconnect \/ UNCHANGED Wire!vars
    BY <1>3 DEF Wire!Disconnect, Wire!vars
  <1> QED BY <1>1, <1>2, <1>3 DEF Wire!Next

\* A client of the abstract channel can decode all that it ever received:
\* what publish()'s keyframe rule is for (protocol.md).
THEOREM ChannelIsDecodable == Wire!Spec => []Wire!Decodable(received)
  <1> DEFINE Inv == received \in Seq(AccessUnit) /\ Wire!Decodable(received)
  <1>1. Wire!Init => Inv
    BY EmptyIsTyped DEF Wire!Init, Wire!Decodable
  <1>2. Inv /\ [Wire!Next]_(Wire!vars) => Inv'
    BY ChannelStep
  <1>3. Inv => Wire!Decodable(received)
    OBVIOUS
  <1> HIDE DEF Inv
  <1> QED BY <1>1, <1>2, <1>3, PTL DEF Wire!Spec

\* And so can a client of the transport, during the connection and after it.
THEOREM ReceivedIsDecodable == Spec => []Wire!Decodable(received)
  BY TransportImplementsChannel, ChannelIsDecodable, PTL DEF WireSpec

-----------------------------------------------------------------------------
(* The end of run().                                                       *)

\* Whichever way run() ends, by the destructor or by a poll() that fails, it
\* has closed the client and emptied the link: nothing is left open that no
\* thread serves, and publish() finds no link any more (closeClient() before
\* both returns of run()).
ClosedAtEnd == pc = "done" =>
    ~client /\ ~connected /\ ~disconnect /\ queue = <<>> /\ pending = <<>>

LEMMA EndStep ==
  ASSUME IInv, [Next]_vars, pc = "done" => ~client
  PROVE  pc' = "done" => ~client'
  <1> USE DEF shared, server, workers, network
  <1>1. CASE ResetLink
    BY <1>1 DEF ResetLink, IInv, InvLink
  <1>2. CASE \/ Leave \/ HonourDisconnect \/ HangUp \/ SendFails
             \/ Timeout \/ PollFails
    BY <1>2 DEF Leave, HonourDisconnect, HangUp, SendFails, Timeout,
                PollFails, CloseSocket
  <1>3. CASE \/ Dequeue \/ Poll \/ PollInterrupted \/ AcceptClient
             \/ RefuseClient \/ Send \/ Idle
    BY <1>3 DEF Dequeue, Poll, PollInterrupted, AcceptClient, RefuseClient,
                Send, Idle
  <1>4. CASE \/ Connect \/ PeerLeaves \/ TimePasses \/ Shutdown
             \/ Finished \/ UNCHANGED vars
    BY <1>4 DEF Connect, PeerLeaves, TimePasses, Shutdown, Finished, vars
  <1>5. ASSUME NEW s \in Streams, Worker(s) PROVE UNCHANGED <<pc, client>>
    BY <1>5 DEF Worker, TakeKeyframeRequest, NoFrame, Retire, PublishCheck,
                FrameInvalid, PublishEnqueue
  <1> QED BY <1>1, <1>2, <1>3, <1>4, <1>5 DEF Next, Run

\* run() leaves nothing behind.
THEOREM ServerClosesUp == Spec => []ClosedAtEnd
  <1> DEFINE Inv == pc = "done" => ~client
  <1>1. Init => Inv
    BY DEF Init
  <1>2. IInv /\ Inv /\ [Next]_vars => Inv'
    BY EndStep
  <1>3. IInv /\ Inv => ClosedAtEnd
    BY DEF IInv, InvLink, ClosedAtEnd
  <1> HIDE DEF Inv
  <1> QED BY <1>1, <1>2, <1>3, Invariant, PTL DEF Spec

-----------------------------------------------------------------------------
(* The keyframe request of a connection.                                   *)

\* While a stream waits, its request is on its way: still to be taken, taken,
\* or in the keyframe at hand.  Nothing is skipped unless the request came
\* after the worker had looked for it, and then the next look finds it.
Requested(s) ==
    /\ skipped[s] <= 1
    /\ waitingForKeyframe[s] =>
         /\ worker[s] = "take" => forceKeyframe[s] \/ forcePending[s]
         /\ worker[s] = "encode" =>
              forcePending[s] \/ (forceKeyframe[s] /\ skipped[s] = 0)
         /\ worker[s] = "framing" =>
              hand[s].key \/ (forceKeyframe[s] /\ skipped[s] = 0)

InvRequest ==
    client /\ connected /\ ~disconnect => \A s \in Streams : Requested(s)

\* Every step of every worker and of the server keeps the request on its way.
LEMMA RequestStep == TypeOK /\ InvHand /\ InvRequest /\ [Next]_vars => InvRequest'
  <1> SUFFICES ASSUME TypeFlags, TypeControl, TypePackets, TypeCounters, InvHand,
                      InvRequest, [Next]_vars,
                      (client /\ connected /\ ~disconnect)', NEW r \in Streams
               PROVE  Requested(r)'
    BY DEF TypeOK, InvRequest
  <1> USE DEF TypeFlags, TypeControl, TypeCounters, InvHand, InvRequest,
              Requested, shared, server, workers, network
  <1>1. CASE AcceptClient
    BY <1>1 DEF AcceptClient
  <1>2. ASSUME UNCHANGED <<client, connected, disconnect, skipped, worker, hand,
                           waitingForKeyframe, forceKeyframe, forcePending>>
        PROVE  Requested(r)'
    BY <1>2
  <1>3. CASE \/ Leave \/ HonourDisconnect \/ HangUp \/ SendFails \/ Timeout
             \/ PollFails \/ ResetLink
    BY <1>3 DEF Leave, HonourDisconnect, HangUp, SendFails, Timeout, PollFails,
                ResetLink, CloseSocket
  <1>4. CASE \/ Dequeue \/ Poll \/ RefuseClient \/ Send \/ Idle \/ PollInterrupted
             \/ Connect \/ PeerLeaves \/ TimePasses \/ Shutdown \/ Finished
             \/ UNCHANGED vars
    BY <1>2, <1>4 DEF Dequeue, Poll, RefuseClient, Send, Idle, PollInterrupted,
                      Connect, PeerLeaves, TimePasses, Shutdown, Finished, vars
  <1>5. ASSUME NEW s \in Streams, Worker(s)
        PROVE  Requested(r)'
    <2>1. CASE TakeKeyframeRequest(s)
      BY <2>1 DEF TakeKeyframeRequest, MustForce
    <2>2. CASE NoFrame(s)
      BY <2>2 DEF NoFrame
    <2>3. CASE Retire(s)
      BY <2>3 DEF Retire
    <2>4. CASE PublishCheck(s)
      <3> USE <2>4 DEF PublishCheck
      <3>1. client /\ connected /\ ~disconnect /\ ~LinkDown
        BY DEF LinkDown
      <3>2. UNCHANGED <<waitingForKeyframe, forceKeyframe>>
        OBVIOUS
      <3>3. CASE r # s
        BY <3>1, <3>2, <3>3 DEF TypePackets
      <3>4. CASE r = s
        <4>1. PICK key \in BOOLEAN, size \in FrameSizes :
                /\ forcePending[s] => key
                /\ \/ /\ waitingForKeyframe[s] /\ ~key
                      /\ worker' = [worker EXCEPT ![s] = "take"]
                      /\ skipped' = [skipped EXCEPT ![s] = @ + 1]
                   \/ /\ waitingForKeyframe[s] => key
                      /\ worker' = [worker EXCEPT ![s] = "framing"]
                      /\ hand' = [hand EXCEPT ![s] =
                                    [stream |-> s, seq |-> produced[s] + 1,
                                     key |-> key, size |-> size]]
                      /\ UNCHANGED skipped
          BY <3>1 DEF Withheld
        <4>2. CASE /\ waitingForKeyframe[s] /\ ~key
                   /\ worker' = [worker EXCEPT ![s] = "take"]
                   /\ skipped' = [skipped EXCEPT ![s] = @ + 1]
          <5>1. forceKeyframe[s] /\ skipped[s] = 0
            BY <3>1, <4>1, <4>2
          <5> QED BY <3>2, <3>4, <4>2, <5>1
        <4>3. CASE /\ waitingForKeyframe[s] => key
                   /\ worker' = [worker EXCEPT ![s] = "framing"]
                   /\ hand' = [hand EXCEPT ![s] =
                                 [stream |-> s, seq |-> produced[s] + 1,
                                  key |-> key, size |-> size]]
                   /\ UNCHANGED skipped
          <5>1. waitingForKeyframe[s] => hand'[s].key
            BY <4>3 DEF TypePackets
          <5>2. worker'[s] = "framing" /\ skipped'[s] <= 1
            BY <3>1, <4>3
          <5> QED BY <3>2, <3>4, <5>1, <5>2
        <4> QED BY <4>1, <4>2, <4>3
      <3> QED BY <3>3, <3>4
    <2>5. CASE FrameInvalid(s)
      BY <2>5 DEF FrameInvalid
    <2>6. CASE PublishEnqueue(s)
      <3> USE <2>6 DEF PublishEnqueue
      <3>1. client /\ connected /\ ~disconnect /\ ~LinkDown
        <4>1. UNCHANGED <<client, connected>>
          OBVIOUS
        <4>2. UNCHANGED disconnect \/ disconnect' = TRUE
          BY Zenon DEF ClearQueue
        <4> QED BY <4>1, <4>2 DEF LinkDown
      <3>2. UNCHANGED <<forceKeyframe, forcePending>>
        OBVIOUS
      <3>3. CASE Withheld(hand[s])
        <4>1. /\ waitingForKeyframe[s] /\ ~hand[s].key
              /\ UNCHANGED waitingForKeyframe
              /\ worker' = [worker EXCEPT ![s] = "take"]
              /\ skipped' = [skipped EXCEPT ![s] = @ + 1]
          BY <3>1, <3>3 DEF Withheld
        <4>2. forceKeyframe[s] /\ skipped[s] = 0
          BY <3>1, <4>1
        <4> QED BY <3>1, <3>2, <4>1, <4>2 DEF TypePackets
      <3>4. CASE ~Withheld(hand[s])
        <4>1. /\ waitingForKeyframe' = [waitingForKeyframe EXCEPT ![s] = FALSE]
              /\ worker' = [worker EXCEPT ![s] = "take"]
              /\ UNCHANGED skipped
          BY <3>1, <3>4
        <4> QED BY <3>1, <3>2, <4>1 DEF TypePackets
      <3> QED BY <3>3, <3>4
    <2> QED BY <1>5, <2>1, <2>2, <2>3, <2>4, <2>5, <2>6 DEF Worker
  <1> QED BY <1>1, <1>3, <1>4, <1>5 DEF Next, Run

\* A connection costs a stream at most one access unit encoded before the
\* worker saw the keyframe request that accept made.
THEOREM PromptStart == Spec => []StartsPromptly
  <1>1. Init => InvRequest
    BY DEF Init, InvRequest
  <1>2. InvRequest => StartsPromptly
    BY DEF InvRequest, Requested, StartsPromptly
  <1>3. IInv => TypeOK /\ InvHand
    BY DEF IInv
  <1> QED BY Invariant, RequestStep, <1>1, <1>2, <1>3, PTL DEF Spec

-----------------------------------------------------------------------------
(* The books of the queue.  SumSizes is a function defined on the length of *)
(* a sequence; what it is of every sequence is proved by way of the tables  *)
(* of partial sums, which exist and agree where the sequences do.           *)

Less == {p \in Nat \X Nat : p[1] < p[2]}

\* Induction over a set of numbers.
LEMMA AllNumbers ==
  ASSUME NEW S, 0 \in S, \A n \in Nat : n \in S => n + 1 \in S
  PROVE  Nat \subseteq S
  <1>1. IsWellFoundedOn(Less, Nat)
    BY ONLY NatLessThanWellFounded DEF OpToRel, Less
  <1> SUFFICES ASSUME Nat \ S # {} PROVE FALSE
    OBVIOUS
  <1>2. Nat \ S \subseteq Nat
    OBVIOUS
  <1>3. PICK i \in Nat \ S : \A j \in Nat \ S : ~ (<<j, i>> \in Less)
    BY ONLY <1>1, <1>2, WFMin, Nat \ S # {}
  <1>4. i # 0 /\ i - 1 \in Nat
    OBVIOUS
  <1>5. i - 1 \in Nat \ S
    BY <1>4
  <1>6. <<i - 1, i>> \in Less
    BY <1>4 DEF Less
  <1> QED BY <1>3, <1>5, <1>6

\* f[i] are the bytes of the first i packets of q.
Sums(f, q, n) ==
    /\ f \in [0..n -> Int] /\ f[0] = 0
    /\ \A i \in 1..n : f[i] = f[i - 1] + q[i].size

\* Every sequence has such a table.
LEMMA SumsExist ==
  ASSUME NEW q \in Seq(AccessUnit)
  PROVE  \E f : Sums(f, q, Len(q))
  <1> DEFINE S == {n \in Nat : n <= Len(q) => \E f : Sums(f, q, n)}
  <1>1. 0 \in S
    <2>1. Sums([i \in 0..0 |-> 0], q, 0)
      BY DEF Sums
    <2> QED BY <2>1
  <1>2. ASSUME NEW n \in Nat, n \in S
        PROVE  n + 1 \in S
    <2> SUFFICES ASSUME n + 1 <= Len(q)
                 PROVE  \E f : Sums(f, q, n + 1)
      OBVIOUS
    <2>1. PICK f : Sums(f, q, n)
      BY <1>2
    <2>2. q[n + 1].size \in Int
      BY PacketFacts
    <2> DEFINE g == [i \in 0..(n + 1) |->
                       IF i = n + 1 THEN f[n] + q[n + 1].size ELSE f[i]]
    <2>3. g \in [0..(n + 1) -> Int] /\ g[0] = 0
      BY <2>1, <2>2 DEF Sums
    <2>4. ASSUME NEW i \in 1..(n + 1)
          PROVE  g[i] = g[i - 1] + q[i].size
      <3>1. CASE i = n + 1
        BY <3>1
      <3>2. CASE i # n + 1
        <4>1. i \in 1..n /\ g[i] = f[i] /\ g[i - 1] = f[i - 1]
          BY <3>2
        <4> QED BY <2>1, <4>1 DEF Sums
      <3> QED BY <3>1, <3>2
    <2>5. Sums(g, q, n + 1)
      BY <2>3, <2>4 DEF Sums
    <2> QED BY <2>5
  <1>3. Len(q) \in S
    <2>1. Nat \subseteq S
      <3> HIDE DEF S
      <3> QED BY <1>1, <1>2, AllNumbers
    <2> QED BY <2>1
  <1> QED BY <1>3

\* SumSizes reads the last entry of a table.
LEMMA SumSizesTable ==
  ASSUME NEW q \in Seq(AccessUnit)
  PROVE  \E f : Sums(f, q, Len(q)) /\ SumSizes(q) = f[Len(q)]
  <1> DEFINE IsSum(f) ==
        f = [i \in 0..Len(q) |-> IF i = 0 THEN 0 ELSE f[i - 1] + q[i].size]
  <1>1. PICK f : Sums(f, q, Len(q))
    BY SumsExist
  <1>2. IsSum(f)
    BY <1>1 DEF Sums
  <1> DEFINE g == CHOOSE h : IsSum(h)
  <1>3. IsSum(g)
    <2> HIDE DEF IsSum
    <2> QED BY <1>2
  <1>4. SumSizes(q) = g[Len(q)]
    BY DEF SumSizes
  <1> DEFINE S == {n \in Nat : n <= Len(q) => g[n] = f[n]}
  <1>5. Len(q) \in S
    <2> HIDE DEF g
    <2>1. \A i \in 0..Len(q) :
            g[i] = IF i = 0 THEN 0 ELSE g[i - 1] + q[i].size
      BY <1>3, Zenon
    <2>2. 0 \in S
      BY <1>1, <2>1 DEF Sums
    <2>3. ASSUME NEW n \in Nat, n \in S
          PROVE  n + 1 \in S
      <3> SUFFICES ASSUME n + 1 <= Len(q)
                   PROVE  g[n + 1] = f[n + 1]
        OBVIOUS
      <3>1. g[n + 1] = g[n] + q[n + 1].size
        BY <2>1
      <3>2. f[n + 1] = f[n] + q[n + 1].size
        BY <1>1 DEF Sums
      <3> QED BY <2>3, <3>1, <3>2
    <2>4. Nat \subseteq S
      <3> HIDE DEF S
      <3> QED BY <2>2, <2>3, AllNumbers
    <2> QED BY <2>4
  <1> HIDE DEF g
  <1> QED BY <1>1, <1>4, <1>5

\* Where two sequences agree, so do the differences of their sums.
LEMMA SumsAgree ==
  ASSUME NEW p \in Seq(AccessUnit), NEW q \in Seq(AccessUnit), NEW m \in Nat,
         NEW f, Sums(f, q, Len(q)), NEW g, Sums(g, p, Len(p)),
         NEW k \in Nat, m + k <= Len(q), k <= Len(p),
         \A i \in 1..k : p[i] = q[m + i]
  PROVE  f[m + k] = f[m] + g[k]
  <1> DEFINE S == {n \in Nat : n <= k => f[m + n] = f[m] + g[n]}
  <1>1. f \in [0..Len(q) -> Int] /\ g \in [0..Len(p) -> Int]
    BY DEF Sums
  <1>2. 0 \in S
    BY <1>1 DEF Sums
  <1>3. ASSUME NEW n \in Nat, n \in S
        PROVE  n + 1 \in S
    <2> SUFFICES ASSUME n + 1 <= k
                 PROVE  f[m + n + 1] = f[m] + g[n + 1]
      OBVIOUS
    <2>1. f[m + n + 1] = f[m + n] + q[m + n + 1].size
      <3>1. m + n + 1 \in 1..Len(q) /\ (m + n + 1) - 1 = m + n
        OBVIOUS
      <3>2. \A i \in 1..Len(q) : f[i] = f[i - 1] + q[i].size
        BY DEF Sums
      <3> QED BY ONLY <3>1, <3>2
    <2>2. g[n + 1] = g[n] + p[n + 1].size
      <3>1. n + 1 \in 1..Len(p) /\ (n + 1) - 1 = n
        OBVIOUS
      <3>2. \A i \in 1..Len(p) : g[i] = g[i - 1] + p[i].size
        BY DEF Sums
      <3> QED BY ONLY <3>1, <3>2
    <2>3. p[n + 1] = q[m + n + 1] /\ p[n + 1].size \in Int
      BY PacketFacts
    <2>4. /\ f[m] \in Int /\ g[n] \in Int
          /\ f[m + n] = f[m] + g[n]
      <3>1. m \in 0..Len(q) /\ n \in 0..Len(p) /\ n <= k
        OBVIOUS
      <3> QED BY ONLY <1>1, <1>3, <3>1
    <2>5. f[m + n + 1] = (f[m] + g[n]) + p[n + 1].size
      BY ONLY <2>1, <2>3, <2>4
    <2>6. (f[m] + g[n]) + p[n + 1].size = f[m] + (g[n] + p[n + 1].size)
      BY ONLY <2>3, <2>4
    <2> QED BY ONLY <2>2, <2>5, <2>6
  <1>4. Nat \subseteq S
    <2> HIDE DEF S
    <2> QED BY <1>2, <1>3, AllNumbers
  <1> QED BY <1>4

\* Nothing weighs nothing.
LEMMA SumSizesEmpty == SumSizes(<<>>) = 0
  <1> DEFINE none == <<>>
  <1>1. none \in Seq(AccessUnit) /\ Len(none) = 0
    OBVIOUS
  <1>2. PICK f : Sums(f, none, Len(none)) /\ SumSizes(none) = f[Len(none)]
    <2> HIDE DEF none
    <2> QED BY <1>1, SumSizesTable
  <1>3. f[Len(none)] = 0
    <2> HIDE DEF none
    <2> QED BY <1>1, <1>2 DEF Sums
  <1> QED BY <1>2, <1>3

\* A packet more at the end.
LEMMA SumSizesAppend ==
  ASSUME NEW q \in Seq(AccessUnit), NEW au \in AccessUnit
  PROVE  SumSizes(Append(q, au)) = SumSizes(q) + au.size
  <1> DEFINE p == Append(q, au)
  <1>1. /\ p \in Seq(AccessUnit) /\ Len(p) = Len(q) + 1 /\ p[Len(p)] = au
        /\ \A i \in 1..Len(q) : p[i] = q[i]
        /\ Len(q) \in Nat
    OBVIOUS
  <1> HIDE DEF p
  <1>2. PICK f : Sums(f, p, Len(p)) /\ SumSizes(p) = f[Len(p)]
    BY <1>1, SumSizesTable
  <1>3. PICK g : Sums(g, q, Len(q)) /\ SumSizes(q) = g[Len(q)]
    BY SumSizesTable
  <1>4. f[0 + Len(q)] = f[0] + g[Len(q)]
    BY <1>1, <1>2, <1>3, SumsAgree
  <1>5. f[Len(p)] = f[Len(q)] + au.size /\ f[0] = 0
    BY <1>1, <1>2 DEF Sums
  <1>6. g[Len(q)] \in Int /\ f[Len(q)] \in Int
    BY <1>1, <1>2, <1>3 DEF Sums
  <1> QED BY <1>2, <1>3, <1>4, <1>5, <1>6 DEF p

\* A packet less at the front.
LEMMA SumSizesTail ==
  ASSUME NEW q \in Seq(AccessUnit), q # <<>>
  PROVE  SumSizes(Tail(q)) = SumSizes(q) - Head(q).size
  <1> DEFINE p == Tail(q)
  <1>1. /\ p \in Seq(AccessUnit) /\ Len(p) = Len(q) - 1 /\ Len(q) \in Nat \ {0}
        /\ \A i \in 1..Len(p) : p[i] = q[1 + i]
        /\ Head(q) = q[1] /\ Len(p) \in Nat
    BY HeadTailProperties, EmptySeq
  <1> HIDE DEF p
  <1>2. PICK f : Sums(f, q, Len(q)) /\ SumSizes(q) = f[Len(q)]
    BY SumSizesTable
  <1>3. PICK g : Sums(g, p, Len(p)) /\ SumSizes(p) = g[Len(p)]
    BY <1>1, SumSizesTable
  <1>4. f[1 + Len(p)] = f[1] + g[Len(p)]
    <2> DEFINE one == 1
        k == Len(p)
    <2>1. /\ one \in Nat /\ k \in Nat /\ one + k <= Len(q) /\ k <= Len(p)
          /\ \A i \in 1..k : p[i] = q[one + i]
      BY <1>1
    <2> HIDE DEF one, k
    <2>2. /\ Sums(f, q, Len(q)) /\ Sums(g, p, Len(p))
          /\ p \in Seq(AccessUnit) /\ q \in Seq(AccessUnit)
      BY <1>1, <1>2, <1>3
    <2>3. f[one + k] = f[one] + g[k]
      BY ONLY <2>1, <2>2, SumsAgree
    <2> QED BY <2>3 DEF one, k
  <1>5. f[1] = f[0] + q[1].size /\ f[0] = 0 /\ q[1].size \in Int
    BY <1>1, <1>2, PacketFacts DEF Sums
  <1>6. g[Len(p)] \in Int
    BY <1>1, <1>3 DEF Sums
  <1>7. 1 + Len(p) = Len(q)
    BY <1>1
  <1> QED BY <1>1, <1>2, <1>3, <1>4, <1>5, <1>6, <1>7 DEF p

\* The books stay right through publish(), the server's loop, overflow and close.
LEMMA BooksStep == TypeOK /\ InvHand /\ QueueBooks /\ [Next]_vars => QueueBooks'
  <1> SUFFICES ASSUME TypeOK, QueueBooks, [Next]_vars
               PROVE  QueueBooks'
    OBVIOUS
  <1>1. /\ queue \in Seq(AccessUnit) /\ queuedBytes \in Int
        /\ hand \in [Streams -> AccessUnit] /\ Len(queue) \in Nat
        /\ QueueLimit \in Nat /\ ByteLimit \in Nat
    BY TransportAssumption DEF TypeOK, TypePackets, TypeCounters
  <1>2. CASE UNCHANGED <<queue, queuedBytes>>
    BY <1>2 DEF QueueBooks
  <1>3. CASE ClearQueue
    <2>1. queue' = <<>> /\ queuedBytes' = 0
      BY <1>3 DEF ClearQueue
    <2>2. SumSizes(<<>>) = 0
      BY SumSizesEmpty
    <2>3. SumSizes(queue') = SumSizes(<<>>)
      BY <2>1
    <2> QED BY <1>1, <2>1, <2>2, <2>3 DEF QueueBooks
  <1>4. ASSUME NEW au \in AccessUnit, ~Overflows(au),
               queue' = Append(queue, au), queuedBytes' = queuedBytes + au.size
        PROVE  QueueBooks'
    <2>1. SumSizes(queue') = SumSizes(queue) + au.size
      BY <1>1, <1>4, SumSizesAppend
    <2>2. Len(queue') = Len(queue) + 1 /\ au.size \in Nat
      BY <1>1, <1>4, PacketFacts
    <2> QED BY <1>1, <1>4, <2>1, <2>2 DEF QueueBooks, Overflows
  <1>5. CASE /\ queue # <<>> /\ queue' = Tail(queue)
             /\ queuedBytes' = queuedBytes - Head(queue).size
    <2>1. SumSizes(queue') = SumSizes(queue) - Head(queue).size
      BY <1>1, <1>5, SumSizesTail
    <2>2. Len(queue') = Len(queue) - 1 /\ Head(queue).size \in Nat
      BY <1>1, <1>5, PacketFacts, HeadTailProperties
    <2> QED BY <1>1, <1>5, <2>1, <2>2 DEF QueueBooks
  <1>6. CASE Dequeue
    BY <1>2, <1>5, <1>6 DEF Dequeue
  <1>7. CASE ResetLink
    BY <1>3, <1>7 DEF ResetLink
  <1>8. ASSUME NEW s \in Streams, PublishEnqueue(s)
        PROVE  QueueBooks'
    <2>1. hand[s] \in AccessUnit
      BY <1>1
    <2>2. \/ UNCHANGED <<queue, queuedBytes>> \/ ClearQueue
          \/ /\ ~Overflows(hand[s]) /\ queue' = Append(queue, hand[s])
             /\ queuedBytes' = queuedBytes + hand[s].size
      BY <1>8 DEF PublishEnqueue, shared
    <2> QED BY <1>2, <1>3, <1>4, <2>1, <2>2
  <1>9. ASSUME NEW s \in Streams, Worker(s)
        PROVE  QueueBooks'
    BY <1>2, <1>8, <1>9 DEF Worker, TakeKeyframeRequest, NoFrame, Retire,
       PublishCheck, FrameInvalid, shared
  <1>10. CASE \/ Leave \/ HonourDisconnect \/ Poll \/ AcceptClient \/ RefuseClient
              \/ HangUp \/ Send \/ SendFails \/ Idle \/ Timeout
              \/ PollInterrupted \/ PollFails \/ Connect \/ PeerLeaves
              \/ TimePasses \/ Shutdown \/ Finished \/ UNCHANGED vars
    BY <1>2, <1>10 DEF Leave, HonourDisconnect, Poll, AcceptClient, RefuseClient,
       HangUp, Send, SendFails, Idle, Timeout, PollInterrupted, PollFails,
       Connect, PeerLeaves, TimePasses, Shutdown, Finished, shared, vars
  <1> QED BY <1>6, <1>7, <1>9, <1>10 DEF Next, Run

\* Both limits of the queue hold and its byte count is exact, for any limits and
\* sizes: the unsigned counter never wraps.
THEOREM BooksAreExact == Spec => []QueueBooks
  <1>1. Init => QueueBooks
    <2> SUFFICES ASSUME Init
                 PROVE  QueueBooks
      OBVIOUS
    <2>1. queue = <<>> /\ queuedBytes = 0
      BY DEF Init
    <2>2. SumSizes(<<>>) = 0
      BY SumSizesEmpty
    <2> QED BY <2>1, <2>2, TransportAssumption DEF QueueBooks
  <1>2. IInv => TypeOK /\ InvHand
    BY DEF IInv
  <1> QED BY Invariant, BooksStep, <1>1, <1>2, PTL DEF Spec

=============================================================================
