----------------------------- MODULE DisplayHost -----------------------------
(***************************************************************************)
(* quest-displays (host/virtual_display/main.cpp): the process that owns   *)
(* the virtual outputs, its lock, its state.json, and what the readers of  *)
(* that file make of it (discoverMonitors() in host/capture/capture.cpp).  *)
(*                                                                         *)
(* Processes compete for the lock, KWin creates and removes outputs and    *)
(* PipeWire nodes in its own time, its events reach the process later and  *)
(* in part, a process may die at any point and its PID may be used again,  *)
(* and node numbers are reused at once.                                    *)
(*                                                                         *)
(* A stream is the record of its monitor, the process it was made for and  *)
(* its node; the record also stands for the stream's serial, as no two     *)
(* streams that exist have the same.                                       *)
(***************************************************************************)
EXTENDS FiniteSets, TLC

CONSTANTS
    Hosts,             \* bound: the processes ever started, each once
    Monitors,          \* the fixed monitors
    Nodes              \* PipeWire node numbers

Symmetry == Permutations(Hosts) \cup Permutations(Nodes)

Absent == [pid |-> "none", node |-> <<>>]
Nobody == "nobody"

ASSUME HostAssumption ==
    /\ Absent.pid \notin Hosts /\ Nobody \notin Hosts
    /\ IsFiniteSet(Monitors) /\ Monitors # {} /\ IsFiniteSet(Nodes)

VARIABLES
    \* KWin: virtual outputs that exist, as streams; those that are disabled
    outputs, disabled,
    \* the runtime directory: the lock's holder, state.json
    lock, state,
    \* each process: where it is, whether statePath is set, outputs and
    \* streams it has heard of, a stream it was told has failed, whether the
    \* state it saved is the current one, the streams it asked for and has
    \* not got
    pc, path, known, ready, error, saved, asked,
    \* a reader: where it is, the file it read, the streams it will capture
    reader, seen, target

kwin    == <<outputs, disabled>>
runtime == <<lock, state>>
process == <<pc, path, known, ready, error, saved, asked>>
reading == <<reader, seen, target>>
vars == <<kwin, runtime, process, reading>>

Stream == [monitor : Monitors, host : Hosts, node : Nodes]

Alive(h) == pc[h] \notin {"unborn", "exited", "dead"}

TypeOK ==
    /\ outputs \subseteq Stream /\ disabled \subseteq outputs
    /\ lock \in Hosts \cup {Nobody}
    /\ state = Absent \/ (state.pid \in Hosts /\ state.node \in [Monitors -> Nodes])
    /\ pc \in [Hosts -> {"unborn", "lock", "clear", "connect", "inspect",
                         "create", "wait", "look", "serve", "idle", "release",
                         "unwind", "catch", "unlock", "exited", "dead"}]
    /\ path \in [Hosts -> BOOLEAN] /\ error \in [Hosts -> BOOLEAN]
    /\ saved \in [Hosts -> BOOLEAN]
    /\ \A h \in Hosts : known[h] \subseteq Stream /\ ready[h] \subseteq Stream
    /\ asked \in [Hosts -> SUBSET Monitors]
    /\ reader \in {"idle", "read", "found"}
    /\ seen = Absent \/ (seen.pid \in Hosts /\ seen.node \in [Monitors -> Nodes])
    /\ target \in [Monitors -> SUBSET Stream]

Init ==
    /\ outputs = {} /\ disabled = {}
    /\ lock = Nobody /\ state = Absent
    /\ pc = [h \in Hosts |-> "unborn"] /\ path = [h \in Hosts |-> FALSE]
    /\ known = [h \in Hosts |-> {}] /\ ready = [h \in Hosts |-> {}]
    /\ error = [h \in Hosts |-> FALSE] /\ saved = [h \in Hosts |-> FALSE]
    /\ asked = [h \in Hosts |-> {}]
    /\ reader = "idle" /\ seen = Absent /\ target = [m \in Monitors |-> {}]

-----------------------------------------------------------------------------
(* The conditions the code decides by, and bugs (M_) they could have had.  *)

Set(f, h, v) == [f EXCEPT ![h] = v]
To(h, step) == pc' = Set(pc, h, step)

Enabled == outputs \ disabled

\* tryLock(): free, or left by a process that died.
LockFree == lock = Nobody \/ (lock \in Hosts /\ pc[lock] = "dead")

\* A process that did not get the lock knows no state file.
M_PathFirst == TRUE
PathWithoutLock == FALSE

\* checkExistingKScreenOutputs(): enabled or not, no Quest output may exist.
M_EnabledOnly == Enabled = {}
NoneExists == outputs = {}

\* findOutput(), which throws if two outputs have the name.
Found(h, m) == {o \in known[h] : o.monitor = m}
Ambiguous(h) == \E m \in Monitors : \E o, p \in Found(h, m) : o # p

M_AnyOf(h) == ready[h] # {} /\ known[h] # {}
Complete(h) ==
    \A m \in Monitors :
        Found(h, m) # {} /\ \E s \in ready[h] : s.monitor = m

\* snapshot(): the node of each stream that is ready.
Feeds(h) ==
    [m \in {s.monitor : s \in ready[h]} |->
        (CHOOSE s \in ready[h] : s.monitor = m).node]
Snapshot(h) == [pid |-> h, node |-> Feeds(h)]

\* Before the outputs are released, the file goes.
Removed == Absent

\* discoverMonitors(): the node is there, and it is this monitor's.
M_ByNumber(m) == {s \in outputs : s.node = seen.node[m]}
NodeFor(m) == {s \in outputs : s.node = seen.node[m] /\ s.monitor = m}

-----------------------------------------------------------------------------
(* main(), up to the outputs.                                              *)

Start(h) ==
    /\ pc[h] = "unborn" /\ To(h, "lock")
    /\ UNCHANGED <<kwin, runtime, path, known, ready, error, saved, asked, reading>>

TakeLock(h) ==
    /\ pc[h] = "lock" /\ LockFree
    /\ lock' = h /\ path' = Set(path, h, TRUE) /\ To(h, "clear")
    /\ UNCHANGED <<kwin, state, known, ready, error, saved, asked, reading>>

\* The lock is held, or there is no session or no directory to put it in.
Refused(h) ==
    /\ pc[h] = "lock"
    /\ To(h, "catch") /\ path' = Set(path, h, PathWithoutLock)
    /\ UNCHANGED <<kwin, runtime, known, ready, error, saved, asked, reading>>

Clear(h) ==
    /\ pc[h] = "clear"
    /\ state' = Absent /\ To(h, "connect")
    /\ UNCHANGED <<kwin, lock, path, known, ready, error, saved, asked, reading>>

\* sync(): all that KWin had sent before it answered has arrived.
Sync(h) == known' = Set(known, h, Enabled)

ConnectDisplay(h) ==
    /\ pc[h] = "connect" /\ Sync(h) /\ To(h, "inspect")
    /\ UNCHANGED <<kwin, runtime, path, ready, error, saved, asked, reading>>

Inspect(h) ==
    /\ pc[h] = "inspect" /\ NoneExists
    /\ To(h, "create")
    /\ UNCHANGED <<kwin, runtime, path, known, ready, error, saved, asked, reading>>

\* create(): none of the names is known, so ask KWin for all the outputs.
Create(h) ==
    /\ pc[h] = "create" /\ known[h] = {}
    /\ asked' = Set(asked, h, Monitors) /\ To(h, "wait")
    /\ UNCHANGED <<kwin, runtime, path, known, ready, error, saved, reading>>

\* What makes the code throw: at whatever step it is, the connection, KScreen,
\* a deadline or the writing of the state may fail; some steps must.
Throws(h) ==
    /\ pc[h] \in {"connect", "inspect", "create", "wait", "serve", "idle"}
    /\ To(h, "unwind")
    /\ UNCHANGED <<kwin, runtime, path, known, ready, error, saved, asked, reading>>

-----------------------------------------------------------------------------
(* create()'s loop and main()'s loop.                                      *)

\* pump(): the events that have come so far.  Removed outputs leave the map;
\* the loss of a stream is an error.
Pump(h) ==
    /\ pc[h] \in {"wait", "idle"}
    /\ To(h, IF pc[h] = "wait" THEN "look" ELSE "serve")
    /\ \E news \in SUBSET (Enabled \ known[h]), gone \in SUBSET (known[h] \ Enabled),
          made \in SUBSET ({s \in outputs : s.host = h} \ ready[h]) :
         /\ known' = Set(known, h, (known[h] \cup news) \ gone)
         /\ ready' = Set(ready, h, ready[h] \cup made)
    /\ error' \in {error} \cup
         (IF ready[h] \subseteq outputs THEN {} ELSE {Set(error, h, TRUE)})
    /\ UNCHANGED <<kwin, runtime, path, saved, asked, reading>>

Healthy(h) == ~error[h] /\ ~Ambiguous(h)

\* create() after each pump(): throw, return, or wait on.
Look(h) ==
    /\ pc[h] = "look"
    /\ To(h, IF ~Healthy(h) THEN "unwind"
             ELSE IF Complete(h) THEN "serve" ELSE "wait")
    /\ UNCHANGED <<kwin, runtime, path, known, ready, error, saved, asked, reading>>

\* main() before each pump(): QSaveFile replaces the file at once.
Save(h) ==
    /\ pc[h] = "serve" /\ Healthy(h) /\ Complete(h)
    /\ state' = Snapshot(h)
    /\ saved' = Set(saved, h, TRUE) /\ To(h, "idle")
    /\ UNCHANGED <<kwin, lock, path, known, ready, error, asked, reading>>

Lost(h) ==
    /\ pc[h] = "serve" /\ ~(Healthy(h) /\ Complete(h))
    /\ To(h, "unwind")
    /\ UNCHANGED <<kwin, runtime, path, known, ready, error, saved, asked, reading>>

-----------------------------------------------------------------------------
(* The ends: stopped, failed, killed.                                      *)

\* SIGTERM in the main loop: the file goes first.
Stop(h) ==
    /\ pc[h] = "serve"
    /\ state' = Removed /\ saved' = Set(saved, h, FALSE) /\ To(h, "release")
    /\ UNCHANGED <<kwin, lock, path, known, ready, error, asked, reading>>

\* ~VirtualDisplayManager(): close the streams.  KWin removes them later.
Release(h) ==
    /\ pc[h] \in {"release", "unwind"}
    /\ To(h, IF pc[h] = "release" THEN "unlock" ELSE "catch")
    /\ asked' = Set(asked, h, {})
    /\ UNCHANGED <<kwin, runtime, path, known, ready, error, saved, reading>>

\* catch: the file goes, if this process had come to know it.
Catch(h) ==
    /\ pc[h] = "catch"
    /\ state' = IF path[h] THEN Absent ELSE state
    /\ saved' = Set(saved, h, FALSE)
    /\ To(h, "unlock")
    /\ UNCHANGED <<kwin, lock, path, known, ready, error, asked, reading>>

Unlock(h) ==
    /\ pc[h] = "unlock"
    /\ lock' = (IF lock = h THEN Nobody ELSE lock) /\ To(h, "exited")
    /\ UNCHANGED <<kwin, state, path, known, ready, error, saved, asked, reading>>

Die(h) ==
    /\ Alive(h)
    /\ To(h, "dead") /\ asked' = Set(asked, h, {})
    /\ UNCHANGED <<kwin, runtime, path, known, ready, error, saved, reading>>

-----------------------------------------------------------------------------
(* KWin and the user.                                                      *)

KwinCreates(h) ==
    /\ \E m \in asked[h], n \in Nodes \ {s.node : s \in outputs} :
         /\ outputs' = outputs \cup {[monitor |-> m, host |-> h, node |-> n]}
         /\ asked' = Set(asked, h, asked[h] \ {m})
    /\ UNCHANGED <<disabled, runtime, pc, path, known, ready, error, saved, reading>>

\* Its owner has gone, or closed the streams, or KWin drops it on its own.
KwinRemoves ==
    /\ \E s \in outputs :
         outputs' = outputs \ {s} /\ disabled' = disabled \ {s}
    /\ UNCHANGED <<runtime, process, reading>>

UserDisables ==
    /\ \E s \in Enabled : disabled' = disabled \cup {s}
    /\ UNCHANGED <<outputs, runtime, process, reading>>

-----------------------------------------------------------------------------
(* stream-launcher.py and discoverMonitors().                              *)

\* The PID in the file is a quest-displays process: the one that wrote it, or
\* one that has been given its number.
Read ==
    /\ reader = "idle" /\ state # Absent
    /\ \E h \in Hosts : Alive(h)
    /\ reader' = "read" /\ seen' = state
    /\ UNCHANGED <<kwin, runtime, process, target>>

\* pw-dump, some time later: every monitor's node, or an error.
Discover ==
    /\ reader = "read"
    /\ \/ /\ \A m \in Monitors : NodeFor(m) # {}
          /\ reader' = "found"
          /\ target' = [m \in Monitors |-> NodeFor(m)]
          /\ UNCHANGED seen
       \/ reader' = "idle" /\ seen' = Absent /\ UNCHANGED target
    /\ UNCHANGED <<kwin, runtime, process>>

Forget ==
    /\ reader = "found"
    /\ reader' = "idle" /\ seen' = Absent /\ target' = [m \in Monitors |-> {}]
    /\ UNCHANGED <<kwin, runtime, process>>

-----------------------------------------------------------------------------
Run(h) ==
    \/ TakeLock(h) \/ Refused(h) \/ Clear(h) \/ ConnectDisplay(h) \/ Inspect(h)
    \/ Create(h) \/ Pump(h) \/ Look(h) \/ Save(h) \/ Lost(h) \/ Throws(h)
    \/ Stop(h) \/ Release(h) \/ Catch(h) \/ Unlock(h)

Next ==
    \/ \E h \in Hosts : Start(h) \/ Run(h) \/ Die(h) \/ KwinCreates(h)
    \/ KwinRemoves \/ UserDisables
    \/ Read \/ Discover \/ Forget

Spec == Init /\ [][Next]_vars

-----------------------------------------------------------------------------
(* What the host and its readers rely on.                                  *)

\* While a host serves, its state stays published: no other process, refused
\* or failing, removes it; and a file is left behind only by a process that
\* was killed.
StaysPublished ==
    /\ \A h \in Hosts :
         pc[h] \in {"serve", "idle"} /\ saved[h] => state # Absent /\ state.pid = h
    /\ state # Absent => pc[state.pid] # "exited"

\* Outputs belong to one process at a time, although a new one starts as soon
\* as the last is dead and KWin is slow to remove, and a monitor has only one.
OneOwner ==
    \A s, t \in outputs :
        s.host = t.host /\ (s.monitor = t.monitor => s = t)

\* A capture of a monitor gets that monitor's picture, and all of them come
\* from one host, although the file may be older than the nodes it is compared
\* with and their numbers may be in use again.
RightScreen ==
    \A m, n \in Monitors : \A s \in target[m], t \in target[n] :
        s.monitor = m /\ s.host = t.host

\* All of it at once, as a state machine of screens, notice and captures: the
\* screens are one host's, the host that serves is the one the file names and
\* owns every screen there is, and a capture is taken at one moment, whatever
\* processes start, die or are refused meanwhile.
Servers == {h \in Hosts : pc[h] \in {"serve", "idle"} /\ saved[h]}

Shown == INSTANCE VirtualMonitors WITH
    Screens <- Stream, NoHost <- Absent.pid,
    screens <- outputs, servers <- Servers, notice <- state.pid,
    captured <- target

MonitorSpec == Shown!Spec
=============================================================================
