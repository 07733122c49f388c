--------------------------- MODULE VirtualMonitors ----------------------------
(***************************************************************************)
(* What quest-displays promises those who capture its monitors, without    *)
(* processes, locks, events or node numbers: the screens that exist belong *)
(* to one host and show one monitor each; one host at a time serves, all   *)
(* screens are its own, and the notice names it as long as it serves; and  *)
(* a capture gets, at one moment, the screen of every monitor.             *)
(***************************************************************************)
CONSTANTS
    Hosts, Monitors,
    Screens,           \* records with at least host and monitor
    NoHost             \* what the notice says when it names nobody

VARIABLES
    screens,           \* those that exist
    servers,           \* the hosts that serve, of which there is never a second
    notice,            \* the host that readers are told of
    captured           \* of each monitor, the screen that is captured

vars == <<screens, servers, notice, captured>>

Nothing == [m \in Monitors |-> {}]

Init == screens = {} /\ servers = {} /\ notice = NoHost /\ captured = Nothing

Appear ==
    /\ \E s \in Screens :
         /\ servers \subseteq {s.host}
         /\ \A t \in screens : t.host = s.host /\ t.monitor # s.monitor
         /\ screens' = screens \cup {s}
    /\ UNCHANGED <<servers, notice, captured>>

Vanish ==
    /\ \E s \in screens : screens' = screens \ {s}
    /\ UNCHANGED <<servers, notice, captured>>

Publish ==
    /\ servers = {}
    /\ \E h \in Hosts :
         /\ \A s \in screens : s.host = h
         /\ servers' = {h} /\ notice' = h
    /\ UNCHANGED <<screens, captured>>

\* It stops, fails or dies, and the notice goes with it or is left until later.
Withdraw ==
    /\ servers' = {} /\ notice' \in {notice, NoHost}
    /\ UNCHANGED <<screens, captured>>

Capture ==
    /\ \A m \in Monitors : \E s \in screens : s.monitor = m
    /\ captured' = [m \in Monitors |-> {s \in screens : s.monitor = m}]
    /\ UNCHANGED <<screens, servers, notice>>

Drop == captured' = Nothing /\ UNCHANGED <<screens, servers, notice>>

Next == Appear \/ Vanish \/ Publish \/ Withdraw \/ Capture \/ Drop

Spec == Init /\ [][Next]_vars
=============================================================================
