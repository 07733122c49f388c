-------------------------- MODULE AccessUnitChannel --------------------------
(***************************************************************************)
(* What the QSTV transport promises a client, without sockets, threads or  *)
(* queues: on each connection the client receives a line of access units   *)
(* it can decode.  Each stream's part of the line starts with a keyframe   *)
(* (an IDR, which carries SPS and PPS) and then goes on without a gap, for *)
(* a hole in a predictive H.264 stream cannot be decoded.  A connection    *)
(* may end at any time, and the next one starts from nothing.              *)
(***************************************************************************)
EXTENDS Naturals, Sequences

CONSTANT AccessUnit    \* records with at least stream, seq and key

VARIABLES
    up,                \* a client is connected
    received           \* access units the current (or last) client received

vars == <<up, received>>

-----------------------------------------------------------------------------
(* The n-th access unit of a line can be decoded after the ones before it: *)
(* it is the first of its stream and a keyframe, or the immediate          *)
(* successor of the last one of its stream.                                *)
Follows(line, n) ==
    \/ /\ line[n].key
       /\ \A i \in 1..(n - 1) : line[i].stream # line[n].stream
    \/ \E i \in 1..(n - 1) :
         /\ line[i].stream = line[n].stream
         /\ line[i].seq + 1 = line[n].seq
         /\ \A j \in (i + 1)..(n - 1) : line[j].stream # line[n].stream

Decodable(line) == \A n \in 1..Len(line) : Follows(line, n)

-----------------------------------------------------------------------------
Init == up = FALSE /\ received = <<>>

Connect == ~up /\ up' = TRUE /\ received' = <<>>

Deliver ==
    \E au \in AccessUnit :
        /\ up
        /\ received' = Append(received, au)
        /\ Follows(received', Len(received'))
        /\ UNCHANGED up

Disconnect == up /\ up' = FALSE /\ UNCHANGED received

Next == Connect \/ Deliver \/ Disconnect

Spec == Init /\ [][Next]_vars
=============================================================================
