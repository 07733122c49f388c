----------------------------- MODULE FrameSource ------------------------------
(***************************************************************************)
(* What a capture session promises the encoder worker, without buffers,    *)
(* pools, queues or threads: the worker asks for a picture and gets a      *)
(* newer one than it had, or none; what it has in hand, and what it keeps  *)
(* to repeat a static screen, stay the pictures they were; they are all of *)
(* one kind of memory; and a source that has failed is not asked again.    *)
(***************************************************************************)
EXTENDS Naturals

VARIABLES
    recorded,          \* pictures the producer has recorded so far
    failed,            \* the source has failed
    kind,              \* memory the pictures are in
    user,              \* what the worker does
    current,           \* the picture it encodes, 0 for none
    repeat             \* the picture it keeps, 0 for none

vars == <<recorded, failed, kind, user, current, repeat>>

Kinds == {"none", "cpu", "dma"}

Init ==
    /\ recorded = 0 /\ failed = FALSE /\ kind = "none"
    /\ user = "idle" /\ current = 0 /\ repeat = 0

Record ==
    /\ recorded' = recorded + 1
    /\ UNCHANGED <<failed, kind, user, current, repeat>>

Fail ==
    /\ failed' = TRUE
    /\ UNCHANGED <<recorded, kind, user, current, repeat>>

\* Nobody may hold a picture of the kind that goes.
Settle ==
    /\ current = 0 /\ repeat = 0
    /\ kind' \in Kinds
    /\ UNCHANGED <<recorded, failed, user, current, repeat>>

Ask ==
    /\ user = "idle" /\ ~failed
    /\ user' = "waiting"
    /\ UNCHANGED <<recorded, failed, kind, current, repeat>>

Answer ==
    /\ user = "waiting"
    /\ current' \in (repeat + 1)..recorded
    /\ user' = "encoding"
    /\ UNCHANGED <<recorded, failed, kind, repeat>>

NoAnswer ==
    /\ user = "waiting"
    /\ user' = "idle"
    /\ UNCHANGED <<recorded, failed, kind, current, repeat>>

Keep ==
    /\ user = "encoding"
    /\ repeat' = current /\ current' = 0
    /\ user' = "idle"
    /\ UNCHANGED <<recorded, failed, kind>>

Leave ==
    /\ user = "idle"
    /\ user' = "left"
    /\ UNCHANGED <<recorded, failed, kind, current, repeat>>

Next ==
    \/ Record \/ Fail \/ Settle
    \/ Ask \/ Answer \/ NoAnswer \/ Keep \/ Leave

Spec == Init /\ [][Next]_vars
=============================================================================
