----------------------------- MODULE HeadsetMode -----------------------------
(***************************************************************************)
(* Headset mode: the main thread of quest-streams (host/stream_main.cpp)   *)
(* switches the physical outputs off while a client is connected, by       *)
(* running the helper tools/laptop-display.py, and the stop hooks of the   *)
(* two systemd units run the helper once more to get them back.            *)
(*                                                                         *)
(* Up to three helpers run at once: the child of quest-streams, the stop   *)
(* hook of quest-streams.service and the stop hook of                      *)
(* quest-displays.service.  They share KScreen's outputs and one file of   *)
(* saved names, which they read and write without a lock, and the child    *)
(* dies with its unit at any point.  A command to KScreen is one step.     *)
(*                                                                         *)
(* Time since the client came or went is "fresh", "held" (more than 1.5 s) *)
(* or "long" (more than 4 s).                                              *)
(***************************************************************************)
EXTENDS Naturals, FiniteSets

CONSTANT Physical      \* the outputs of the laptop

ASSUME HeadsetAssumption == IsFiniteSet(Physical) /\ Physical # {}

VARIABLES
    \* KScreen: enabled physical outputs; the Quest outputs are there
    enabled, quest,
    \* the names in laptop-display.json; {} when it is missing or torn
    saved,
    \* the units
    host, streams,
    \* the helpers: what each does next, the names it has read, and what the
    \* child is about to record
    step, names, record,
    \* quest-streams: its main thread, some worker still active, and what the
    \* watching loop remembers
    main, active, laptopOff, connected, lastConnected, since,
    \* history: outputs a helper disabled and nobody enabled since; what has
    \* gone wrong: quest-displays died by itself, a KScreen command failed
    dark, faults

screens == <<enabled, quest>>
helpers == <<step, names, record>>
history == <<dark, faults>>
watch   == <<main, active, laptopOff, connected, lastConnected, since>>
vars == <<screens, saved, host, streams, helpers, watch, history>>

Helpers == {"child", "streamsHook", "hostHook"}
Steps == {"none", "query", "merge", "truncate", "write", "disable",
          "read", "enable", "unlink"}

TypeOK ==
    /\ enabled \subseteq Physical /\ saved \subseteq Physical
    /\ dark \subseteq Physical /\ faults \subseteq {"host", "command"}
    /\ quest \in BOOLEAN
    /\ host \in {"up", "stopping", "down"}
    /\ streams \in {"up", "signalled", "hook", "down"}
    /\ step \in [Helpers -> Steps]
    /\ names \in [Helpers -> SUBSET Physical] /\ record \subseteq Physical
    /\ main \in {"loop", "off", "on", "last", "gone"}
    /\ active \in BOOLEAN /\ laptopOff \in BOOLEAN
    /\ connected \in BOOLEAN /\ lastConnected \in BOOLEAN
    /\ since \in {"fresh", "held", "long"}
    /\ main = "gone" => step["child"] = "none"

Init ==
    /\ enabled \in (SUBSET Physical) \ {{}} /\ quest = FALSE /\ saved = {}
    /\ host = "down" /\ streams = "down"
    /\ step = [h \in Helpers |-> "none"] /\ names = [h \in Helpers |-> {}]
    /\ record = {}
    /\ main = "gone" /\ active = FALSE /\ laptopOff = FALSE
    /\ connected = FALSE /\ lastConnected = FALSE /\ since = "fresh"
    /\ dark = {} /\ faults = {}

-----------------------------------------------------------------------------
(* The conditions the code decides by, and bugs (M_) they could have had.  *)

\* What a helper does after a step that went well.
M_DisablesFirst(s) ==
    CASE s = "query" -> "disable" [] s = "disable" -> "merge"
      [] s = "merge" -> "truncate" [] s = "truncate" -> "write"
      [] s = "read" -> "enable" [] s = "enable" -> "unlink"
      [] OTHER -> "none"
After(s) ==
    CASE s = "query" -> "merge" [] s = "merge" -> "truncate"
      [] s = "truncate" -> "write" [] s = "write" -> "disable"
      [] s = "read" -> "enable" [] s = "enable" -> "unlink"
      [] OTHER -> "none"

\* off switches off, and records, what is connected and enabled.
M_Connected == Physical
Blankable == enabled

\* After=: systemd stops the streams, hook included, before the host.
M_Unordered == streams # "up"
HostMayStop == streams = "down"

\* The watching loop restores after four seconds without a client.
M_OnlyHeld(s) == ~connected /\ laptopOff /\ s = "held"
MustRestore(s) == ~connected /\ laptopOff /\ s = "long"
MustBlank(s) == connected /\ ~laptopOff /\ s # "fresh"

-----------------------------------------------------------------------------
(* tools/laptop-display.py.                                                *)

Advance(h) == step' = [step EXCEPT ![h] = After(@)]
Exit(h) == step' = [step EXCEPT ![h] = "none"]
Start(h, first) == step' = [step EXCEPT ![h] = first]

\* outputs(): when kscreen-doctor fails there are none.
Listings == {[quest |-> quest, physical |-> Blankable],
             [quest |-> FALSE, physical |-> {}]}

\* off: nothing is disabled without a Quest output, or with nothing to do.
OffQuery(h) ==
    /\ step[h] = "query"
    /\ \E seen \in Listings :
         IF seen.quest /\ seen.physical # {}
         THEN Advance(h) /\ names' = [names EXCEPT ![h] = seen.physical]
         ELSE Exit(h) /\ UNCHANGED names
    /\ UNCHANGED <<screens, saved, host, streams, record, watch, history>>

OffMerge(h) ==
    /\ step[h] = "merge"
    /\ Advance(h) /\ record' = names[h] \cup saved
    /\ UNCHANGED <<screens, saved, host, streams, names, watch, history>>

\* write_text() truncates the file and then writes it.
OffTruncate(h) ==
    /\ step[h] = "truncate"
    /\ Advance(h) /\ saved' = {}
    /\ UNCHANGED <<screens, host, streams, names, record, watch, history>>

OffWrite(h) ==
    /\ step[h] = "write"
    /\ Advance(h) /\ saved' = record
    /\ UNCHANGED <<screens, host, streams, names, record, watch, history>>

OffDisable(h) ==
    /\ step[h] = "disable"
    /\ Advance(h)
    /\ enabled' = enabled \ names[h]
    /\ dark' = dark \cup (enabled \cap names[h])
    /\ UNCHANGED <<quest, saved, host, streams, names, record, watch, faults>>

\* kscreen-doctor fails: "off" leaves its record, "on" leaves what it read.
CommandFails(h) ==
    /\ step[h] \in {"disable", "enable"}
    /\ Exit(h) /\ faults' = faults \cup {"command"}
    /\ \E part \in SUBSET names[h] :
         IF step[h] = "disable"
         THEN enabled' = enabled \ part /\ dark' = dark \cup (enabled \cap part)
         ELSE enabled' = enabled \cup part /\ dark' = dark \ part
    /\ UNCHANGED <<quest, saved, host, streams, names, record, watch>>

\* on: restore what is saved, if anything is, and forget it.
OnRead(h) ==
    /\ step[h] = "read"
    /\ names' = [names EXCEPT ![h] = saved]
    /\ IF saved = {} THEN Exit(h) ELSE Advance(h)
    /\ UNCHANGED <<screens, saved, host, streams, record, watch, history>>

OnEnable(h) ==
    /\ step[h] = "enable"
    /\ Advance(h)
    /\ enabled' = enabled \cup names[h] /\ dark' = dark \ names[h]
    /\ UNCHANGED <<quest, saved, host, streams, names, record, watch, faults>>

OnUnlink(h) ==
    /\ step[h] = "unlink"
    /\ Advance(h) /\ saved' = {}
    /\ UNCHANGED <<screens, host, streams, names, record, watch, history>>

Helper(h) ==
    \/ OffQuery(h) \/ OffMerge(h) \/ OffTruncate(h) \/ OffWrite(h)
    \/ OffDisable(h) \/ CommandFails(h)
    \/ OnRead(h) \/ OnEnable(h) \/ OnUnlink(h)

-----------------------------------------------------------------------------
(* quest-streams: the watching loop of main().                             *)

ProcessAlive == streams \in {"up", "signalled"} /\ main # "gone"

ClientChanges ==
    /\ ProcessAlive /\ active
    /\ connected' = ~connected
    /\ UNCHANGED <<screens, saved, host, streams, helpers, main, active,
                   laptopOff, lastConnected, since, history>>

TimePasses ==
    /\ ProcessAlive /\ since # "long"
    /\ since' = IF since = "fresh" THEN "held" ELSE "long"
    /\ UNCHANGED <<screens, saved, host, streams, helpers, main, active,
                   laptopOff, connected, lastConnected, history>>

\* One turn of the loop; setLaptop() blocks it until the helper is done.
Turn ==
    LET now == IF connected = lastConnected THEN since ELSE "fresh" IN
    /\ ProcessAlive /\ main = "loop" /\ active
    /\ lastConnected' = connected /\ since' = now
    /\ \/ MustBlank(now) /\ main' = "off" /\ Start("child", "query")
       \/ MustRestore(now) /\ main' = "on" /\ Start("child", "read")
       \/ ~MustBlank(now) /\ ~MustRestore(now) /\ UNCHANGED <<main, step>>
    /\ UNCHANGED <<screens, saved, host, streams, names, record, active, laptopOff,
                   connected, history>>

\* The helper has exited, whatever its exit code.
HelperReturned ==
    /\ ProcessAlive /\ main \in {"off", "on", "last"}
    /\ step["child"] = "none"
    /\ laptopOff' = (main = "off")
    /\ main' = IF main = "last" THEN "gone" ELSE "loop"
    /\ UNCHANGED <<screens, saved, host, streams, helpers, active, connected,
                   lastConnected, since, history>>

\* No worker is active any more.
LoopEnds ==
    /\ ProcessAlive /\ main = "loop" /\ ~active
    /\ IF laptopOff THEN main' = "last" /\ Start("child", "read")
                    ELSE main' = "gone" /\ UNCHANGED step
    /\ UNCHANGED <<screens, saved, host, streams, names, record, active, laptopOff,
                   connected, lastConnected, since, history>>

\* The last worker ends: an error in any stream, or a signal, ends them all.
WorkersEnd ==
    /\ ProcessAlive /\ active
    /\ active' = FALSE
    /\ UNCHANGED <<screens, saved, host, streams, helpers, main, laptopOff,
                   connected, lastConnected, since, history>>

-----------------------------------------------------------------------------
(* systemd and the display host.                                           *)

\* The child dies with the unit, between any two of its steps.
KillChild == step' = [step EXCEPT !["child"] = "none"]

HostStarts ==
    /\ host = "down" /\ streams = "down"
    /\ host' = "up" /\ quest' = TRUE
    /\ UNCHANGED <<enabled, saved, streams, helpers, watch, history>>

StreamsStart ==
    /\ host = "up" /\ streams = "down"
    /\ streams' = "up" /\ main' = "loop" /\ active' = TRUE
    /\ laptopOff' = FALSE /\ connected' = FALSE /\ lastConnected' = FALSE
    /\ since' = "fresh"
    /\ UNCHANGED <<screens, saved, host, helpers, history>>

\* SIGTERM goes to every process of the unit: quest-streams winds down.
StopStreams ==
    /\ streams = "up"
    /\ streams' = "signalled" /\ KillChild
    /\ UNCHANGED <<screens, saved, host, names, record, watch, history>>

\* The hook runs when no process of the unit is left.
M_ChildSurvives == step' = [step EXCEPT !["streamsHook"] = "read"]
HookStarts ==
    step' = [step EXCEPT !["child"] = "none", !["streamsHook"] = "read"]

\* The process has exited, crashed, or is killed after TimeoutStopSec.
StreamsExit ==
    /\ streams \in {"up", "signalled"}
    /\ streams' = "hook" /\ main' = "gone" /\ active' = FALSE
    /\ connected' = FALSE
    /\ HookStarts
    /\ UNCHANGED <<screens, saved, host, names, record, laptopOff,
                   lastConnected, since, history>>

StreamsHookDone ==
    /\ streams = "hook" /\ step["streamsHook"] = "none"
    /\ streams' = "down"
    /\ UNCHANGED <<screens, saved, host, helpers, watch, history>>

HostExits ==
    /\ host' = "stopping" /\ quest' = FALSE
    /\ Start("hostHook", "read")
    /\ UNCHANGED <<enabled, saved, streams, names, record, watch, dark>>

StopHost == host = "up" /\ HostMayStop /\ HostExits /\ UNCHANGED faults

\* quest-displays dies by itself, while streams run or not.
CrashHost == host = "up" /\ HostExits /\ faults' = faults \cup {"host"}

HostHookDone ==
    /\ host = "stopping" /\ step["hostHook"] = "none"
    /\ host' = "down"
    /\ UNCHANGED <<screens, saved, streams, helpers, watch, history>>

-----------------------------------------------------------------------------
Watching == Turn \/ HelperReturned \/ LoopEnds

Hooks == StreamsHookDone \/ HostHookDone

Next ==
    \/ \E h \in Helpers : Helper(h)
    \/ ClientChanges \/ TimePasses \/ Watching \/ WorkersEnd
    \/ HostStarts \/ StreamsStart \/ StopStreams \/ StreamsExit
    \/ StopHost \/ CrashHost \/ Hooks

Spec == Init /\ [][Next]_vars

-----------------------------------------------------------------------------
(* What the user relies on.                                                *)

Quiet == streams = "down" /\ \A h \in Helpers : step[h] = "none"

\* "Never leave the laptop screen off after streaming stops or crashes": when
\* the streams are down and no helper runs, everything a helper disabled is
\* on again, wherever in their work the child helpers were killed, unless
\* quest-displays died by itself or KScreen failed.
NeverLeftOff == faults = {} /\ Quiet => dark = {}

\* The same whatever has crashed, as long as KScreen's commands succeed.
OnAfterCrash == "command" \notin faults /\ Quiet => dark = {}

\* "so the session always keeps a screen", and the stop hook of the streams
\* "restores the laptop display first", before the Quest outputs go.
AlwaysAScreen == faults = {} => quest \/ enabled # {}

\* "restore exactly those outputs": an output that was off before the headset
\* came, which no helper switched off, is never switched on by one, whatever
\* fails.
RestoresExactly == [][enabled' \ enabled \subseteq dark]_vars

\* All of it at once, as a state machine of the screens alone: "off" borrows
\* outputs, "on" gives borrowed ones back (laptop-display.py).
Screens == INSTANCE BorrowedScreens WITH
    Outputs <- Physical, on <- enabled, borrowed <- dark,
    inUse <- ~Quiet, broken <- faults # {}

ScreenSpec == Screens!Spec

-----------------------------------------------------------------------------
(* Processes are scheduled, time passes, KScreen answers, and systemd runs *)
(* what it has to run.                                                     *)
LiveSpec ==
    /\ Spec
    /\ \A h \in Helpers : WF_vars(Helper(h))
    /\ WF_vars(Watching) /\ WF_vars(Hooks) /\ WF_vars(TimePasses)
    /\ WF_vars(streams = "signalled" /\ StreamsExit)

\* When the client or the streams are gone, the laptop's outputs come back
\* unless quest-displays died by itself or KScreen failed.
Used == connected /\ active
LaptopReturns == (~Used /\ dark # {}) ~> (Used \/ dark = {} \/ faults # {})
=============================================================================
