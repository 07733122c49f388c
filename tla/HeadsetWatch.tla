----------------------------- MODULE HeadsetWatch ----------------------------
(***************************************************************************)
(* quest-headset-watch (tools/headset-watch.py): starts the virtual        *)
(* monitors when a Quest appears among adb's devices, reapplies the        *)
(* reverse tunnel when it returns, and stops the monitors when it has been *)
(* missing for three seconds.                                              *)
(*                                                                         *)
(* The watcher knows the devices only from the listings that "adb          *)
(* track-devices" writes, one at its start and one per change; the tracker *)
(* may end, with what is still in the pipe lost; commands block the loop   *)
(* while devices come and go; the watcher itself may die and is started    *)
(* again, and systemd restarts a failed quest-displays.service until it    *)
(* gives up.  Commands may fail or time out, also for a headset that is    *)
(* there; the watcher logs their exit code and goes on (run()).            *)
(***************************************************************************)
EXTENDS Naturals, Sequences, FiniteSets

CONSTANTS
    Serials,           \* Quest headsets
    Grace,             \* UNPLUG_GRACE, in ticks
    MaxChanges,        \* bound: times a headset is plugged or unplugged
    MaxDeaths,         \* bound: times the tracker ends
    MaxCrashes         \* bound: times the watcher dies

Nobody == "none"

ASSUME WatchAssumption ==
    /\ IsFiniteSet(Serials) /\ Nobody \notin Serials /\ Grace \in Nat \ {0}
    /\ MaxChanges \in Nat /\ MaxDeaths \in Nat /\ MaxCrashes \in Nat

Never == Grace + 1          \* missing_since is None

VARIABLES
    \* the world: headsets present, their reverse tunnels, the service:
    \* "failed" if systemd is still to start it (again), "refused" if not,
    \* because a start failed for good or reached StartLimitBurst
    devices, tunnels, service,
    \* adb track-devices, and the listings in the pipe
    tracker, pipe,
    \* the watcher: what it does next, the listings it has read and not
    \* handled, attached, ticks since missing_since, displays_running
    pc, buffer, attached, missing, running,
    \* history: ticks without any headset; the monitors may run although the
    \* watcher takes them for stopped, since it last started them: it was
    \* itself started while systemd was about to restart them, or could not
    \* stop them; the last "adb reverse" failed although the headset was there
    absent, missed, noTunnel,
    changes, deaths, crashes

world   == <<devices, tunnels, service, absent, changes>>
adb     == <<tracker, pipe, deaths>>
watcher == <<pc, buffer, attached, missing, running, crashes, missed, noTunnel>>
vars == <<world, adb, watcher>>

TypeOK ==
    /\ devices \subseteq Serials /\ tunnels \subseteq devices
    /\ service \in {"inactive", "active", "failed", "refused"}
    /\ tracker \in {"starting", "up", "down"}
    /\ pipe \in Seq(SUBSET Serials) /\ (pipe # <<>> => tracker # "starting")
    /\ pc \in {"select", "handle", "return", "reverse", "start", "check",
               "stop", "sleep"}
    /\ buffer \in Seq(SUBSET Serials)
    /\ attached \in Serials \cup {Nobody} /\ running \in BOOLEAN
    /\ missing \in 0..Grace \cup {Never}
    /\ attached = Nobody => missing # Never
    /\ absent \in 0..Grace /\ missed \in BOOLEAN /\ noTunnel \in BOOLEAN
    /\ changes \in 0..MaxChanges /\ deaths \in 0..MaxDeaths
    /\ crashes \in 0..MaxCrashes

Init ==
    /\ devices \in SUBSET Serials /\ tunnels = {} /\ service = "inactive"
    /\ tracker = "starting" /\ pipe = <<>>
    /\ pc = "select" /\ buffer = <<>> /\ attached = Nobody /\ missing = 0
    /\ running = FALSE
    /\ absent = 0 /\ missed = FALSE /\ noTunnel = FALSE
    /\ changes = 0 /\ deaths = 0 /\ crashes = 0

-----------------------------------------------------------------------------
(* The conditions the code decides by, and bugs (M_) they could have had.  *)

\* A headset that comes back within the grace period needs its tunnel again.
M_NeverBack == FALSE
CameBack == missing # Never

\* The monitors are owned by a headset, or were running at the start.
M_AttachedOnly == attached # Nobody
OwnsMonitors == attached # Nobody \/ running

M_AtOnce == missing # Never
GraceOver == missing = Grace

\* What detaching resets.
M_ResetsTime == attached' = Nobody /\ running' = FALSE /\ missing' = Never
Detached == attached' = Nobody /\ running' = FALSE /\ UNCHANGED missing

\* displays_running at the start: systemctl is-active.
IsActive == service = "active"

-----------------------------------------------------------------------------
(* The world.                                                              *)

Report == pipe' = IF tracker = "up" THEN Append(pipe, devices') ELSE pipe

Plug ==
    /\ changes < MaxChanges /\ changes' = changes + 1
    /\ \E s \in Serials \ devices : devices' = devices \cup {s}
    /\ Report /\ absent' = 0
    /\ UNCHANGED <<tunnels, service, tracker, deaths, watcher>>

\* The reverse tunnel goes with the device.
Unplug ==
    /\ changes < MaxChanges /\ changes' = changes + 1
    /\ \E s \in devices : devices' = devices \ {s} /\ tunnels' = tunnels \ {s}
    /\ Report
    /\ UNCHANGED <<service, absent, tracker, deaths, watcher>>

Older(n) == IF n < Grace THEN n + 1 ELSE n

Tick ==
    /\ missing' = IF missing = Never THEN Never ELSE Older(missing)
    /\ absent' = IF devices = {} THEN Older(absent) ELSE 0
    /\ UNCHANGED <<devices, tunnels, service, changes, adb, pc, buffer,
                   attached,
                   running, crashes, missed, noTunnel>>

\* The first listing may take adb as long as it likes.
FirstListing ==
    /\ tracker = "starting" /\ pc # "sleep"
    /\ tracker' = "up" /\ pipe' = <<devices>>
    /\ UNCHANGED <<deaths, world, watcher>>

TrackerEnds ==
    /\ tracker # "down" /\ deaths < MaxDeaths
    /\ tracker' = "down" /\ deaths' = deaths + 1
    /\ UNCHANGED <<pipe, world, watcher>>

ServiceFails ==
    /\ service = "active" /\ service' = "failed"
    /\ UNCHANGED <<devices, tunnels, absent, changes, adb, watcher>>

\* Restart=on-failure, five seconds or more later, or a start job that was
\* queued; the eighth start within 900 seconds is the last (StartLimitBurst).
ServiceRestarts ==
    /\ service = "failed" /\ service' \in {"active", "refused"}
    /\ UNCHANGED <<devices, tunnels, absent, changes, adb, watcher>>

-----------------------------------------------------------------------------
(* The loop of main().                                                     *)

\* select() and read(): everything that is in the pipe, if anything is.
Read ==
    /\ pc = "select" /\ tracker # "down"
    /\ buffer' = pipe /\ pipe' = <<>>
    /\ pc' = IF pipe = <<>> THEN "check" ELSE "handle"
    /\ UNCHANGED <<world, tracker, deaths, attached, missing, running, crashes,
                   missed, noTunnel>>

Present == Head(buffer)
Handled == buffer' = Tail(buffer)
More == pc' = IF Tail(buffer) = <<>> THEN "check" ELSE "handle"

StillThere ==
    /\ pc = "handle" /\ attached \in Present
    /\ IF CameBack THEN pc' = "return" /\ UNCHANGED <<buffer, missing>>
                   ELSE More /\ Handled /\ missing' = Never
    /\ UNCHANGED <<world, adb, attached, running, crashes, missed, noTunnel>>

\* adb reverse fails when the headset has gone again, and may fail or time out
\* when it is there; nothing tries it again before the next drop.
Reverse(s) ==
    /\ tunnels' \in {tunnels, tunnels \cup ({s} \cap devices)}
    /\ noTunnel' = (s \in devices \ tunnels')

Returned ==
    /\ pc = "return" /\ Reverse(attached)
    /\ More /\ Handled /\ missing' = Never
    /\ UNCHANGED <<devices, service, absent, changes, adb, attached, running,
                   crashes, missed>>

\* Another headset, or the first: one of them, by its name.
Appeared ==
    /\ pc = "handle" /\ attached \notin Present /\ Present # {}
    /\ \E s \in Present : attached' = s
    /\ missing' = Never /\ pc' = "reverse"
    /\ UNCHANGED <<world, adb, buffer, running, crashes, missed, noTunnel>>

AttachReverse ==
    /\ pc = "reverse" /\ Reverse(attached) /\ pc' = "start"
    /\ UNCHANGED <<devices, service, absent, changes, adb, buffer, attached,
                   missing,
                   running, crashes, missed>>

\* systemctl start, which may fail or leave its job behind, then the launch of
\* the client.
AttachStart ==
    /\ pc = "start" /\ running' = TRUE /\ missed' = FALSE
    /\ service' \in IF IsActive THEN {"active"} ELSE {"active", "failed", "refused"}
    /\ More /\ Handled
    /\ UNCHANGED <<devices, tunnels, absent, changes, adb, attached, missing,
                   crashes,
                   noTunnel>>

Disappeared ==
    /\ pc = "handle" /\ Present = {}
    /\ missing' = IF missing = Never THEN 0 ELSE missing
    /\ More /\ Handled
    /\ UNCHANGED <<world, adb, attached, running, crashes, missed, noTunnel>>

Check ==
    /\ pc = "check"
    /\ pc' = IF OwnsMonitors /\ GraceOver THEN "stop" ELSE "select"
    /\ UNCHANGED <<world, adb, buffer, attached, missing, running, crashes,
                   missed, noTunnel>>

\* systemctl stop; when it fails the monitors are left to themselves.
Detach ==
    /\ pc = "stop" /\ Detached /\ pc' = "select"
    /\ \/ service' = "inactive" /\ UNCHANGED missed
       \/ UNCHANGED service /\ missed' = TRUE
    /\ UNCHANGED <<devices, tunnels, absent, changes, adb, buffer, crashes,
                   noTunnel>>

\* The tracker has ended; what it wrote and nobody read is lost.
TrackerGone ==
    /\ pc = "select" /\ tracker = "down"
    /\ pipe' = <<>> /\ pc' = "sleep"
    /\ UNCHANGED <<world, tracker, deaths, buffer, attached, missing, running,
                   crashes, missed, noTunnel>>

TrackAgain ==
    /\ pc = "sleep" /\ tracker' = "starting" /\ pc' = "select"
    /\ UNCHANGED <<world, pipe, deaths, buffer, attached, missing, running,
                   crashes, missed, noTunnel>>

\* The watcher dies, its tracker with it, and is started again.
Crash ==
    /\ crashes < MaxCrashes /\ crashes' = crashes + 1
    /\ tracker' = "starting" /\ pipe' = <<>>
    /\ pc' = "select" /\ buffer' = <<>>
    /\ attached' = Nobody /\ missing' = 0 /\ running' = IsActive
    /\ missed' = (missed \/ service = "failed") /\ noTunnel' = FALSE
    /\ UNCHANGED <<world, deaths>>

-----------------------------------------------------------------------------
Watch ==
    \/ Read \/ StillThere \/ Returned \/ Appeared \/ AttachReverse
    \/ AttachStart \/ Disappeared \/ Check \/ Detach
    \/ TrackerGone \/ TrackAgain

Next ==
    \/ Plug \/ Unplug \/ Tick \/ FirstListing \/ TrackerEnds
    \/ ServiceFails \/ ServiceRestarts
    \/ Watch \/ Crash

Spec == Init /\ [][Next]_vars

-----------------------------------------------------------------------------
(* What the user of a headset relies on.                                   *)

\* "A brief USB drop loses the reverse tunnel; the client reconnects once it
\* is back": whenever the watcher has handled all there is, the headset that
\* it serves has its tunnel, unless it was there when "adb reverse" last tried
\* and failed: each return makes the watcher try again.
TunnelBack ==
    pc = "select" /\ tracker = "up" /\ pipe = <<>> /\ attached \in devices
        => attached \in tunnels \/ noTunnel

\* This holds as long as the tracker did not end, also for a watcher that had
\* to be started again.
TunnelUp == deaths = 0 => TunnelBack

\* "Detach (absent for UNPLUG_GRACE seconds)": the monitors are stopped only
\* after that long without a headset, unless one has just appeared and its
\* listing is still to be read.  As long as neither the tracker ended nor the
\* watcher died: a watcher counts from its start until the first listing.
DetachOnlyAbsent ==
    [][Check /\ pc' = "stop" /\ deaths = 0 /\ crashes = 0
           => absent = Grace \/ pipe # <<>>]_vars

-----------------------------------------------------------------------------
(* The watcher is scheduled, time passes, adb answers, systemd restarts.   *)
LiveSpec ==
    /\ Spec
    /\ WF_vars(Watch) /\ WF_vars(Tick) /\ WF_vars(FirstListing)
    /\ WF_vars(ServiceRestarts)

\* "Own the Quest monitors only while a Quest headset is attached": a headset
\* that stays gets its monitors, also when they fail or the start has to be
\* repeated by systemd, unless systemd refuses a start that the watcher asked
\* for: nothing asks again while that headset stays, but the next attach does,
\* however the last one ended.  And monitors that nobody uses go, also when the
\* watcher had to be started again, unless it missed them, and then they go with
\* the next headset.
Refused == service = "refused" /\ attached # Nobody

MonitorsFollow ==
    /\ devices # {} ~> devices = {} \/ service = "active" \/ Refused
    /\ (devices = {} /\ service = "active")
         ~> (devices # {} \/ service \in {"inactive", "refused"} \/ missed)
=============================================================================
