--------------------------- MODULE BorrowedScreens ----------------------------
(***************************************************************************)
(* What headset mode promises the user, without helpers, files or units:   *)
(* all outputs that are on are borrowed at once, only while it is in use   *)
(* and the Quest outputs are there, and given back at once; none that was  *)
(* off comes on; there is a screen at any time; and nothing is still       *)
(* borrowed when the use ends.  When the host has died or KScreen has      *)
(* failed, what is left is that each output that was on is on or borrowed, *)
(* and no other.                                                           *)
(***************************************************************************)
CONSTANT Outputs       \* the outputs of the laptop

VARIABLES
    on, borrowed,      \* outputs that are on; that headset mode has taken
    quest,             \* the Quest outputs are there
    inUse,             \* streams or helpers run
    broken             \* the host has died, or KScreen has failed

vars == <<on, borrowed, quest, inUse, broken>>

Init ==
    /\ on \in (SUBSET Outputs) \ {{}} /\ borrowed = {}
    /\ quest = FALSE /\ inUse = FALSE /\ broken = FALSE

Begin ==
    /\ inUse' = TRUE
    /\ UNCHANGED <<on, borrowed, quest, broken>>

Borrow ==
    /\ inUse /\ quest /\ borrowed = {}
    /\ on' = {} /\ borrowed' = on
    /\ UNCHANGED <<quest, inUse, broken>>

GiveBack ==
    /\ on' = on \cup borrowed /\ borrowed' = {}
    /\ UNCHANGED <<quest, inUse, broken>>

End ==
    /\ borrowed = {}
    /\ inUse' = FALSE
    /\ UNCHANGED <<on, borrowed, quest, broken>>

QuestComes ==
    /\ quest' = TRUE
    /\ UNCHANGED <<on, borrowed, inUse, broken>>

\* The stop hook looks once more for something to give back.
QuestGoes ==
    /\ on # {}
    /\ quest' = FALSE /\ inUse' = TRUE
    /\ UNCHANGED <<on, borrowed, broken>>

\* From the failure on.
Broken ==
    /\ broken' = TRUE
    /\ on' \cup borrowed' = on \cup borrowed /\ on' \cap borrowed' = {}
    /\ quest' \in BOOLEAN /\ inUse' \in BOOLEAN

Next ==
    \/ Begin \/ Borrow \/ GiveBack \/ End
    \/ QuestComes \/ QuestGoes \/ Broken

Spec == Init /\ [][Next]_vars
=============================================================================
