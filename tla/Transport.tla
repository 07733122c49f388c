------------------------------ MODULE Transport ------------------------------
(***************************************************************************)
(* TransportServer (host/transport/tcp_server.cpp) and the part of the     *)
(* encoder workers (host/stream_main.cpp) that talks to it.                *)
(*                                                                         *)
(* One worker thread per stream takes keyframe requests, encodes and calls *)
(* publish(); the server thread run() accepts one client at a time, moves  *)
(* framed access units from the shared queue to the socket and closes the  *)
(* client when it leaves, overflows the queue or stops reading.  A step    *)
(* below is one critical section of the mutex, one operation on an atomic  *)
(* or one stretch of thread-local code with its system calls: publish()    *)
(* takes the mutex twice and frames in between, closeClient() closes the   *)
(* socket before it takes the mutex, so both are two steps.                *)
(*                                                                         *)
(* Time is abstracted to "stalled": two seconds without progress of the    *)
(* pending write.  An access unit is its stream, its number (which stands  *)
(* for its timestamp), whether it is a keyframe, and its framed size.      *)
(***************************************************************************)
EXTENDS Integers, Sequences

CONSTANTS
    Streams,           \* the stream IDs 0..MonitorCount-1
    QueueLimit,        \* packets the queue holds (12)
    ByteLimit,         \* bytes the queue holds (16 MiB)
    MaxFrame,          \* largest framed access unit: MaxPayload and the header
    FrameSizes,        \* sizes the encoders produce
    MaxAU,             \* bound: access units per stream
    MaxBacklog,        \* bound: connections waiting in the listener
    MaxConnections     \* bound: connections accepted

ASSUME TransportAssumption ==
    /\ QueueLimit \in Nat \ {0} /\ ByteLimit \in Nat /\ MaxFrame \in Nat
    /\ FrameSizes \subseteq Nat \ {0}
    /\ MaxAU \in Nat /\ MaxBacklog \in Nat /\ MaxConnections \in Nat

VARIABLES
    \* guarded by the mutex
    connected, disconnect, waitingForKeyframe, queue, queuedBytes,
    \* atomics
    forceKeyframe, accepted, dropped, slow, stopping,
    \* local to run(): where the thread is, where closeClient() returns to,
    \* the client descriptor, the packet being sent, the bytes of it already
    \* sent, poll's answer for the client, two seconds without progress
    pc, resume, client, pending, offset, revents, stalled,
    \* local to a worker: where it is, the access unit publish() holds
    \* between its critical sections, access units encoded, forcePending
    worker, hand, produced, forcePending,
    \* the network: connections not yet accepted; the peer closed, reset or
    \* sent something
    backlog, peerGone,
    \* history: access units the client of this connection got, and how many
    \* of each stream were withheld from it for want of a keyframe
    received, skipped

shared  == <<connected, disconnect, waitingForKeyframe, queue, queuedBytes>>
server  == <<pc, resume, client, pending, offset, revents, stalled>>
workers == <<worker, hand, produced, forcePending>>
network == <<backlog, peerGone>>
vars == <<shared, forceKeyframe, accepted, dropped, slow, stopping,
          server, workers, network, received, skipped>>

AccessUnit == [stream : Streams, seq : 0..MaxAU, key : BOOLEAN,
               size : FrameSizes \cup {0}]

\* Nothing in hand: publish() is not between its critical sections.
Blank(s) == [stream |-> s, seq |-> 0, key |-> FALSE, size |-> 0]

TypeFlags ==
    /\ connected \in BOOLEAN /\ disconnect \in BOOLEAN
    /\ client \in BOOLEAN /\ stalled \in BOOLEAN
    /\ stopping \in BOOLEAN /\ peerGone \in BOOLEAN
    /\ waitingForKeyframe \in [Streams -> BOOLEAN]
    /\ forceKeyframe \in [Streams -> BOOLEAN]
    /\ forcePending \in [Streams -> BOOLEAN]

TypeControl ==
    /\ pc \in {"loop", "poll", "accept", "serve", "reset", "done"}
    /\ resume \in {"loop", "poll", "done"}
    /\ worker \in [Streams -> {"take", "encode", "framing", "done"}]
    /\ revents \in SUBSET {"gone", "out"}

TypePackets ==
    /\ queue \in Seq(AccessUnit) /\ received \in Seq(AccessUnit)
    /\ pending \in Seq(AccessUnit) /\ Len(pending) <= 1
    /\ hand \in [Streams -> AccessUnit]

TypeCounters ==
    /\ accepted \in Nat /\ dropped \in Nat /\ slow \in Nat
    /\ offset \in Nat /\ queuedBytes \in Int
    /\ produced \in [Streams -> 0..MaxAU]
    /\ skipped \in [Streams -> Nat]
    /\ backlog \in Nat

\* Types, and what must be true for them to last: accept4() is called only
\* when poll() saw a connection.
TypeOK ==
    /\ TypeFlags /\ TypeControl /\ TypePackets /\ TypeCounters
    /\ pc = "accept" => backlog > 0

Init ==
    /\ connected = FALSE /\ disconnect = FALSE
    /\ waitingForKeyframe = [s \in Streams |-> FALSE]
    /\ queue = <<>> /\ queuedBytes = 0
    /\ forceKeyframe = [s \in Streams |-> FALSE]
    /\ accepted = 0 /\ dropped = 0 /\ slow = 0 /\ stopping = FALSE
    /\ pc = "loop" /\ resume = "loop"
    /\ client = FALSE /\ pending = <<>> /\ offset = 0
    /\ revents = {} /\ stalled = FALSE
    /\ worker = [s \in Streams |-> "take"]
    /\ hand = [s \in Streams |-> Blank(s)]
    /\ produced = [s \in Streams |-> 0]
    /\ forcePending = [s \in Streams |-> FALSE]
    /\ backlog = 0 /\ peerGone = FALSE
    /\ received = <<>> /\ skipped = [s \in Streams |-> 0]

-----------------------------------------------------------------------------
(* The conditions the code decides by.  Each M_ operator is a bug that the *)
(* condition below it could have had, and that a property must notice.     *)

\* publish() has nobody to publish to.
M_IgnoresConnected == disconnect
M_DropsWhenFull == ~connected \/ disconnect \/ Len(queue) >= QueueLimit
LinkDown == ~connected \/ disconnect

\* An access unit the client could not decode yet.
Withheld(au) == waitingForKeyframe[au.stream] /\ ~au.key

\* The bytes of the packets of a sequence.
SumSizes(q) ==
    LET sum[i \in 0..Len(q)] == IF i = 0 THEN 0 ELSE sum[i - 1] + q[i].size
    IN sum[Len(q)]

M_PacketsOnly(au) == Len(queue) >= QueueLimit
Overflows(au) == Len(queue) >= QueueLimit \/ queuedBytes + au.size > ByteLimit

ClearQueue == queue' = <<>> /\ queuedBytes' = 0

\* forcePending |= takeKeyframeRequest(): a force with no frame yet stays.
M_Overwrites(s) == forceKeyframe[s]
MustForce(s) == forcePending[s] \/ forceKeyframe[s]

\* while (!stopping)
M_ServesToTheEnd == ~stopping \/ client
Running == ~stopping

\* The events of the two descriptors.
M_NoPollin == TRUE
ListenerReady == backlog > 0

M_OnlyWhenSending == client /\ peerGone /\ pending # <<>>
ClientGone == client /\ peerGone

\* Two seconds without progress of a pending write.
Expired == pending # <<>> /\ stalled

\* closeClient() up to its critical section, and where it returns to.
M_KeepsPending(next) ==
    /\ pc' = "reset" /\ resume' = next
    /\ client' = FALSE /\ peerGone' = FALSE /\ revents' = {}
    /\ UNCHANGED <<pending, offset, stalled>>

CloseSocket(next) ==
    /\ pc' = "reset" /\ resume' = next
    /\ client' = FALSE /\ peerGone' = FALSE
    /\ pending' = <<>> /\ offset' = 0 /\ stalled' = FALSE /\ revents' = {}

-----------------------------------------------------------------------------
(* The worker of stream s, once per turn of its loop.                      *)

TakeKeyframeRequest(s) ==
    /\ worker[s] = "take"
    /\ worker' = [worker EXCEPT ![s] = "encode"]
    /\ forcePending' = [forcePending EXCEPT ![s] = MustForce(s)]
    /\ forceKeyframe' = [forceKeyframe EXCEPT ![s] = FALSE]
    /\ UNCHANGED <<shared, accepted, dropped, slow, stopping, server, hand,
                   produced, network, received, skipped>>

\* next() timed out and there is nothing to repeat: a pending force stays.
NoFrame(s) ==
    /\ worker[s] = "encode"
    /\ worker' = [worker EXCEPT ![s] = "take"]
    /\ UNCHANGED <<shared, forceKeyframe, accepted, dropped, slow, stopping,
                   server, hand, produced, forcePending, network, received,
                   skipped>>

\* The loop ends: interrupted, out of time, or an error in some stream.
Retire(s) ==
    /\ worker[s] = "take"
    /\ worker' = [worker EXCEPT ![s] = "done"]
    /\ UNCHANGED <<shared, forceKeyframe, accepted, dropped, slow, stopping,
                   server, hand, produced, forcePending, network, received,
                   skipped>>

\* Encode a frame, as a keyframe if one is pending, and call publish(): its
\* first critical section.  A stream waiting for its keyframe skips others.
PublishCheck(s) ==
    /\ worker[s] = "encode"
    /\ produced[s] < MaxAU
    /\ produced' = [produced EXCEPT ![s] = @ + 1]
    /\ forcePending' = [forcePending EXCEPT ![s] = FALSE]
    /\ \E key \in BOOLEAN, size \in FrameSizes :
         LET au == [stream |-> s, seq |-> produced[s] + 1,
                    key |-> key, size |-> size]
         IN /\ forcePending[s] => key
            /\ \/ /\ LinkDown
                  /\ worker' = [worker EXCEPT ![s] = "take"]
                  /\ UNCHANGED <<hand, dropped, skipped>>
               \/ /\ ~LinkDown /\ Withheld(au)
                  /\ worker' = [worker EXCEPT ![s] = "take"]
                  /\ dropped' = dropped + 1
                  /\ skipped' = [skipped EXCEPT ![s] = @ + 1]
                  /\ UNCHANGED hand
               \/ /\ ~LinkDown /\ ~Withheld(au)
                  /\ worker' = [worker EXCEPT ![s] = "framing"]
                  /\ hand' = [hand EXCEPT ![s] = au]
                  /\ UNCHANGED <<dropped, skipped>>
    /\ UNCHANGED <<shared, forceKeyframe, accepted, slow, stopping, server,
                   network, received>>

\* framePacket() throws: the exception leaves encode() and ends the worker.
FrameInvalid(s) ==
    /\ worker[s] = "framing"
    /\ hand[s].size > MaxFrame
    /\ worker' = [worker EXCEPT ![s] = "done"]
    /\ hand' = [hand EXCEPT ![s] = Blank(s)]
    /\ UNCHANGED <<shared, forceKeyframe, accepted, dropped, slow, stopping,
                   server, produced, forcePending, network, received, skipped>>

\* publish(), second critical section, after framing outside the lock.  The
\* connection may have gone, or have been replaced by one that still waits.
PublishEnqueue(s) ==
    LET au == hand[s] IN
    /\ worker[s] = "framing"
    /\ au.size <= MaxFrame
    /\ worker' = [worker EXCEPT ![s] = "take"]
    /\ hand' = [hand EXCEPT ![s] = Blank(s)]
    /\ \/ /\ LinkDown
          /\ UNCHANGED <<shared, dropped, slow, skipped>>
       \/ /\ ~LinkDown /\ Withheld(au)
          /\ dropped' = dropped + 1
          /\ skipped' = [skipped EXCEPT ![s] = @ + 1]
          /\ UNCHANGED <<shared, slow>>
       \/ /\ ~LinkDown /\ ~Withheld(au)
          /\ waitingForKeyframe' = [waitingForKeyframe EXCEPT ![s] = FALSE]
          /\ IF Overflows(au)
             THEN /\ dropped' = dropped + Len(queue) + 1
                  /\ ClearQueue
                  /\ disconnect' = TRUE
                  /\ slow' = slow + 1
             ELSE /\ queuedBytes' = queuedBytes + au.size
                  /\ queue' = Append(queue, au)
                  /\ UNCHANGED <<dropped, disconnect, slow>>
          /\ UNCHANGED <<connected, skipped>>
    /\ UNCHANGED <<forceKeyframe, accepted, stopping, server, produced,
                   forcePending, network, received>>

-----------------------------------------------------------------------------
(* run(), the server thread.                                               *)

\* closeClient(), critical section.
ResetLink ==
    /\ pc = "reset"
    /\ pc' = resume /\ resume' = "loop"
    /\ connected' = FALSE /\ disconnect' = FALSE
    /\ ClearQueue
    /\ waitingForKeyframe' = [s \in Streams |-> TRUE]
    /\ UNCHANGED <<forceKeyframe, accepted, dropped, slow, stopping, client,
                   pending, offset, revents, stalled, workers, network,
                   received, skipped>>

\* while (!stopping) fails: close whatever is open and leave.
Leave ==
    /\ pc = "loop" /\ ~Running
    /\ CloseSocket("done")
    /\ UNCHANGED <<shared, forceKeyframe, accepted, dropped, slow, stopping,
                   workers, backlog, received, skipped>>

\* Top of the loop: a publisher asked for the client to be disconnected.
HonourDisconnect ==
    /\ pc = "loop" /\ Running
    /\ disconnect
    /\ CloseSocket("poll")
    /\ UNCHANGED <<shared, forceKeyframe, accepted, dropped, slow, stopping,
                   workers, backlog, received, skipped>>

\* Top of the loop: otherwise take the next packet if none is being sent.
Dequeue ==
    /\ pc = "loop" /\ Running
    /\ ~disconnect
    /\ pc' = "poll"
    /\ IF pending = <<>> /\ queue # <<>>
       THEN /\ pending' = <<Head(queue)>> /\ queue' = Tail(queue)
            /\ queuedBytes' = queuedBytes - Head(queue).size
            /\ offset' = 0 /\ stalled' = FALSE
       ELSE UNCHANGED <<pending, queue, queuedBytes, offset, stalled>>
    /\ UNCHANGED <<connected, disconnect, waitingForKeyframe, forceKeyframe,
                   accepted, dropped, slow, stopping, resume, client, revents,
                   workers, network, received, skipped>>

\* poll() for at most 10 ms.  POLLOUT is asked for only with something to
\* send, and the peer may or may not have room.
Poll ==
    /\ pc = "poll"
    /\ \E out \in BOOLEAN :
         /\ out => client /\ pending # <<>>
         /\ revents' = (IF ClientGone THEN {"gone"} ELSE {})
                         \cup (IF out THEN {"out"} ELSE {})
    /\ pc' = IF ListenerReady THEN "accept" ELSE IF client THEN "serve" ELSE "loop"
    /\ UNCHANGED <<shared, forceKeyframe, accepted, dropped, slow, stopping,
                   resume, client, pending, offset, stalled, workers, network,
                   received, skipped>>

PollInterrupted ==
    /\ pc = "poll"
    /\ pc' = "loop"
    /\ UNCHANGED <<shared, forceKeyframe, accepted, dropped, slow, stopping,
                   resume, client, pending, offset, revents, stalled, workers,
                   network, received, skipped>>

\* poll() fails for good: the thread leaves its loop, the listener stays.
PollFails ==
    /\ pc = "poll"
    /\ CloseSocket("done")
    /\ UNCHANGED <<shared, forceKeyframe, accepted, dropped, slow, stopping,
                   workers, backlog, received, skipped>>

\* accept4() with no client: the new connection starts with every stream
\* waiting for the keyframe that is requested here.
AcceptClient ==
    /\ pc = "accept" /\ ~client
    /\ pc' = "loop"
    /\ client' = TRUE /\ backlog' = backlog - 1 /\ peerGone' = FALSE
    /\ connected' = TRUE
    /\ waitingForKeyframe' = [s \in Streams |-> TRUE]
    /\ forceKeyframe' = [s \in Streams |-> TRUE]
    /\ accepted' = accepted + 1
    /\ received' = <<>> /\ skipped' = [s \in Streams |-> 0]
    /\ UNCHANGED <<disconnect, queue, queuedBytes, dropped, slow, stopping,
                   resume, pending, offset, revents, stalled, workers>>

\* accept4() while a client is served: the newcomer is closed.  The same
\* step stands for a connection that is gone before it could be accepted.
RefuseClient ==
    /\ pc = "accept"
    /\ pc' = IF client THEN "serve" ELSE "loop"
    /\ backlog' = backlog - 1
    /\ UNCHANGED <<shared, forceKeyframe, accepted, dropped, slow, stopping,
                   resume, client, pending, offset, revents, stalled, workers,
                   peerGone, received, skipped>>

\* The peer closed, reset the connection or sent a byte.
HangUp ==
    /\ pc = "serve" /\ "gone" \in revents
    /\ CloseSocket("loop")
    /\ UNCHANGED <<shared, forceKeyframe, accepted, dropped, slow, stopping,
                   workers, backlog, received, skipped>>

\* send() takes n more bytes of the pending packet.
Send ==
    /\ pc = "serve" /\ revents = {"out"} /\ pending # <<>>
    /\ pc' = "loop" /\ revents' = {} /\ stalled' = FALSE
    /\ \E n \in 1..(pending[1].size - offset) :
         IF offset + n = pending[1].size
         THEN /\ pending' = <<>> /\ offset' = 0
              /\ received' = Append(received, pending[1])
         ELSE /\ offset' = offset + n
              /\ UNCHANGED <<pending, received>>
    /\ UNCHANGED <<shared, forceKeyframe, accepted, dropped, slow, stopping,
                   resume, client, workers, network, skipped>>

\* send() fails because the peer left after poll() returned.
SendFails ==
    /\ pc = "serve" /\ revents = {"out"} /\ pending # <<>> /\ peerGone
    /\ CloseSocket("loop")
    /\ UNCHANGED <<shared, forceKeyframe, accepted, dropped, slow, stopping,
                   workers, backlog, received, skipped>>

\* Nothing was sent: no room, or EAGAIN.  A write without progress for two
\* seconds closes the client.
Idle ==
    /\ pc = "serve" /\ "gone" \notin revents
    /\ ~Expired
    /\ pc' = "loop" /\ revents' = {}
    /\ UNCHANGED <<shared, forceKeyframe, accepted, dropped, slow, stopping,
                   resume, client, pending, offset, stalled, workers, network,
                   received, skipped>>

Timeout ==
    /\ pc = "serve" /\ "gone" \notin revents
    /\ Expired
    /\ slow' = slow + 1
    /\ CloseSocket("loop")
    /\ UNCHANGED <<shared, forceKeyframe, accepted, dropped, stopping,
                   workers, backlog, received, skipped>>

-----------------------------------------------------------------------------
(* The environment.                                                        *)

\* A client connects: the kernel queues it for the listener.
Connect ==
    /\ backlog < MaxBacklog
    /\ accepted + backlog < MaxConnections
    /\ backlog' = backlog + 1
    /\ UNCHANGED <<shared, forceKeyframe, accepted, dropped, slow, stopping,
                   server, workers, peerGone, received, skipped>>

PeerLeaves ==
    /\ client /\ ~peerGone
    /\ peerGone' = TRUE
    /\ UNCHANGED <<shared, forceKeyframe, accepted, dropped, slow, stopping,
                   server, workers, backlog, received, skipped>>

TimePasses ==
    /\ pending # <<>> /\ ~stalled
    /\ stalled' = TRUE
    /\ UNCHANGED <<shared, forceKeyframe, accepted, dropped, slow, stopping,
                   pc, resume, client, pending, offset, revents, workers,
                   network, received, skipped>>

\* main() joins the workers and then destroys the server.
Shutdown ==
    /\ ~stopping /\ \A s \in Streams : worker[s] = "done"
    /\ stopping' = TRUE
    /\ UNCHANGED <<shared, forceKeyframe, accepted, dropped, slow, server,
                   workers, network, received, skipped>>

Finished ==
    /\ pc = "done" /\ stopping
    /\ UNCHANGED vars

-----------------------------------------------------------------------------
Worker(s) ==
    \/ TakeKeyframeRequest(s) \/ NoFrame(s) \/ Retire(s)
    \/ PublishCheck(s) \/ FrameInvalid(s) \/ PublishEnqueue(s)

\* Every step of run() but the failures of poll(), which nothing promises.
Run ==
    \/ Leave \/ HonourDisconnect \/ Dequeue \/ Poll
    \/ AcceptClient \/ RefuseClient
    \/ HangUp \/ Send \/ SendFails \/ Idle \/ Timeout \/ ResetLink

Next ==
    \/ \E s \in Streams : Worker(s)
    \/ Run \/ PollInterrupted \/ PollFails
    \/ Connect \/ PeerLeaves \/ TimePasses \/ Shutdown \/ Finished

Spec == Init /\ [][Next]_vars

-----------------------------------------------------------------------------
(* What the transport must never do.                                       *)

\* The access units accepted for this connection, in the order of the wire.
Line == (received \o pending) \o queue

\* A client never receives an access unit it cannot decode, whatever the
\* workers were publishing when it connected (protocol.md: the server does
\* not continue an undecodable sequence).  The abstract channel says it as a
\* state machine, this invariant says it of what is queued as well.
Wire == INSTANCE AccessUnitChannel WITH up <- client

LineDecodable == client => Wire!Decodable(Line)

WireSpec == Wire!Spec

\* The dual: on a connection that stands, a stream that was started and whose
\* worker still runs has lost nothing.  The last access unit it published is
\* on the line, and the last of its stream there: a predictive frame is
\* dropped only together with the connection or the worker.
LastPublished(s) == produced[s] - (IF worker[s] = "framing" THEN 1 ELSE 0)

NoSilentDrop ==
    connected /\ ~disconnect /\ client =>
        \A s \in Streams : ~waitingForKeyframe[s] /\ worker[s] # "done" =>
            \E i \in 1..Len(Line) :
                /\ Line[i].stream = s /\ Line[i].seq = LastPublished(s)
                /\ \A j \in (i + 1)..Len(Line) : Line[j].stream # s

\* A connection costs a stream at most one access unit that was encoded
\* before its keyframe request was seen: the request made at accept is never
\* lost, taken twice or left over for a later connection.
StartsPromptly ==
    client /\ connected /\ ~disconnect => \A s \in Streams : skipped[s] <= 1

\* With no client nothing is queued, half sent or marked for disconnection:
\* the next client starts on an empty link.
DeadLinkIsEmpty ==
    ~client /\ pc # "reset" =>
        /\ ~connected /\ ~disconnect
        /\ queue = <<>> /\ queuedBytes = 0
        /\ pending = <<>> /\ offset = 0

\* Both limits of the queue hold (protocol.md: 12 packets and 16 MiB), and the
\* byte count stays exact through publish(), the server loop, overflow and
\* close, so that the unsigned counter never wraps below zero.
QueueBooks ==
    /\ Len(queue) <= QueueLimit /\ queuedBytes <= ByteLimit
    /\ queuedBytes = SumSizes(queue)

-----------------------------------------------------------------------------
(* What it must eventually do.  The kernel schedules the server thread and *)
(* poll() is interrupted by signals only finitely often; a pending write   *)
(* that makes no progress is two seconds old some time.                    *)

Fairness == WF_vars(Run) /\ SF_vars(Poll) /\ WF_vars(TimePasses)

LiveSpec == Spec /\ Fairness

\* Nothing holds on to a client that is lost: an overflow disconnects it even
\* while its socket is blocked, a packet does not stay half sent, and a client
\* that left is noticed even while nothing is sent.
ClientReleased ==
    /\ disconnect ~> ~connected
    /\ (pending # <<>>) ~> (pending = <<>>)
    /\ peerGone ~> ~peerGone

\* Whatever the present client does, a newcomer is accepted or refused, and
\* the destructor's join returns.
ServerAnswers ==
    /\ (backlog > 0) ~> (backlog = 0 \/ pc = "done")
    /\ stopping ~> (pc = "done")

=============================================================================
