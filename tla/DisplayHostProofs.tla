-------------------------- MODULE DisplayHostProofs --------------------------
(* Theorems about any number of display hosts, monitors and nodes.         *)
EXTENDS DisplayHost, TLAPS

\* TypeOK, with what the maps of the processes are.
InvTypes ==
    /\ TypeOK
    /\ known \in [Hosts -> SUBSET Stream] /\ ready \in [Hosts -> SUBSET Stream]

\* Where a process has the lock, and where it may own outputs and a file.
Owning == {"clear", "connect", "inspect", "create", "wait", "look", "serve",
           "idle", "release", "unwind"}
Serving == {"serve", "idle", "unwind", "catch"}
Asking == {"wait", "look", "serve", "idle", "release", "unwind"}

\* A process that knows the path of the state file has the lock as long as it
\* lives; what it published is there as long as it serves, and it takes it
\* along unless it is killed.
InvState ==
    /\ \A h \in Hosts :
         /\ pc[h] \in Owning => path[h]
         /\ pc[h] \in {"unborn", "lock"} => ~path[h]
         /\ path[h] /\ Alive(h) => lock = h
         /\ saved[h] => pc[h] \in Serving \cup {"dead"}
         /\ saved[h] /\ pc[h] \in {"serve", "idle"} =>
              state # Absent /\ state.pid = h
    /\ state # Absent =>
         \/ pc[state.pid] = "dead"
         \/ pc[state.pid] \in Serving /\ path[state.pid]

\* Who waits for outputs has the lock, and all outputs are his, from then until
\* he has closed them.
InvOutputs ==
    /\ \A h \in Hosts :
         /\ asked[h] # {} => pc[h] \in Asking
         /\ pc[h] \in Asking \ {"unwind"} => \A s \in outputs : s.host = h
         /\ pc[h] = "create" => outputs = {}
         /\ asked[h] # {} =>
              \A s \in outputs : s.host = h /\ s.monitor \notin asked[h]
    /\ OneOwner

IInv == InvTypes /\ InvState /\ InvOutputs /\ RightScreen

-----------------------------------------------------------------------------
(* Lemmas.                                                                 *)

\* snapshot() of a complete host names a node for every monitor, and is not
\* mistaken for a missing file.
LEMMA SnapshotTyped ==
  ASSUME InvTypes, NEW h \in Hosts, Complete(h)
  PROVE  /\ Snapshot(h) # Absent /\ Snapshot(h).pid = h
         /\ Snapshot(h).node \in [Monitors -> Nodes]
  <1>1. ready[h] \subseteq Stream
    BY DEF InvTypes
  <1>2. \A s \in Stream : s.monitor \in Monitors /\ s.node \in Nodes
    BY DEF Stream
  <1>3. {s.monitor : s \in ready[h]} = Monitors
    BY <1>1, <1>2 DEF Complete
  <1>4. \A m \in Monitors :
          (CHOOSE s \in ready[h] : s.monitor = m) \in ready[h]
    BY DEF Complete
  <1>5. Feeds(h) \in [Monitors -> Nodes]
    BY <1>1, <1>2, <1>3, <1>4 DEF Feeds
  <1>6. Snapshot(h).pid = h /\ Snapshot(h).node = Feeds(h)
    BY DEF Snapshot
  <1>7. Snapshot(h).pid # Absent.pid
    BY <1>6, HostAssumption, Zenon
  <1> QED BY <1>5, <1>6, <1>7, Zenon

\* Nothing has been started or published.
LEMMA InitIInv == Init => IInv
  <1> SUFFICES ASSUME Init PROVE IInv
    OBVIOUS
  <1> USE HostAssumption DEF Init
  <1>1. InvTypes
    BY DEF InvTypes, TypeOK, Stream
  <1>2. InvState
    BY DEF InvState, Owning, Alive
  <1>3. InvOutputs
    BY DEF InvOutputs, OneOwner
  <1>4. RightScreen
    BY DEF RightScreen
  <1> QED BY <1>1, <1>2, <1>3, <1>4 DEF IInv

\* Every step keeps the types.
LEMMA TypesStep ==
  InvTypes /\ [Next]_vars => InvTypes'
  <1> SUFFICES ASSUME InvTypes, [Next]_vars
               PROVE  InvTypes'
    OBVIOUS
  <1> USE HostAssumption DEF InvTypes, TypeOK, Alive, kwin, runtime, process,
          reading
  <1>1. ASSUME NEW h \in Hosts,
              Start(h) \/ Run(h) \/ Die(h) \/ KwinCreates(h)
        PROVE  InvTypes'
    <2>1. CASE Start(h)
      BY <2>1 DEF Start, Set, To
    <2>2. CASE TakeLock(h)
      BY <2>2 DEF TakeLock, Set, To, LockFree
    <2>3. CASE Refused(h)
      BY <2>3 DEF Refused, Set, To, PathWithoutLock
    <2>4. CASE Clear(h)
      BY <2>4 DEF Clear, Set, To
    <2>5. CASE ConnectDisplay(h)
      BY <2>5 DEF ConnectDisplay, Set, To, Sync, Enabled
    <2>6. CASE Inspect(h)
      BY <2>6 DEF Inspect, Set, To, NoneExists
    <2>7. CASE Create(h)
      BY <2>7 DEF Create, Set, To
    <2>8. CASE Pump(h)
      <3>1. PICK news \in SUBSET (Enabled \ known[h]),
                 gone \in SUBSET (known[h] \ Enabled),
                 made \in SUBSET ({s \in outputs : s.host = h} \ ready[h]) :
              /\ known' = [known EXCEPT ![h] = (known[h] \cup news) \ gone]
              /\ ready' = [ready EXCEPT ![h] = ready[h] \cup made]
        BY <2>8 DEF Pump, Set
      <3>2. /\ known' \in [Hosts -> SUBSET Stream]
            /\ ready' \in [Hosts -> SUBSET Stream]
        BY <3>1 DEF Enabled
      <3>3. error' \in [Hosts -> BOOLEAN]
        BY <2>8 DEF Pump, Set
      <3> QED BY <2>8, <3>2, <3>3 DEF Pump, Set, To
    <2>9. CASE Look(h)
      BY <2>9 DEF Look, Set, To, Healthy
    <2>10. CASE Save(h)
      BY <2>10, SnapshotTyped DEF Save, Set, To
    <2>11. CASE Lost(h)
      BY <2>11 DEF Lost, Set, To
    <2>12. CASE Throws(h)
      BY <2>12 DEF Throws, Set, To
    <2>13. CASE Stop(h)
      BY <2>13 DEF Stop, Set, To, Removed
    <2>14. CASE Release(h)
      BY <2>14 DEF Release, Set, To
    <2>15. CASE Catch(h)
      BY <2>15 DEF Catch, Set, To
    <2>16. CASE Unlock(h)
      BY <2>16 DEF Unlock, Set, To
    <2>17. CASE Die(h)
      BY <2>17 DEF Die, Set, To
    <2>18. CASE KwinCreates(h)
      BY <2>18 DEF KwinCreates, Set, To, Stream
    <2> QED BY <1>1, <2>1, <2>2, <2>3, <2>4, <2>5, <2>6, <2>7, <2>8, <2>9,
           <2>10, <2>11, <2>12, <2>13, <2>14, <2>15, <2>16, <2>17, <2>18 DEF
           Run
  <1>2. CASE KwinRemoves
    BY <1>2 DEF KwinRemoves
  <1>3. CASE UserDisables
    BY <1>3 DEF UserDisables, Enabled
  <1>4. CASE Read
    BY <1>4 DEF Read
  <1>5. CASE Discover
    BY <1>5 DEF Discover, NodeFor
  <1>6. CASE Forget
    BY <1>6 DEF Forget
  <1>7. CASE UNCHANGED vars
    BY <1>7 DEF vars
  <1> QED BY <1>1, <1>2, <1>3, <1>4, <1>5, <1>6, <1>7 DEF Next

\* Who serves has the lock and a published state; a process that never had the
\* lock touches no file.
LEMMA StateStep ==
  InvTypes /\ InvState /\ [Next]_vars => InvState'
  <1> SUFFICES ASSUME InvTypes, InvState, [Next]_vars
               PROVE  InvState'
    OBVIOUS
  <1> USE HostAssumption DEF InvTypes, TypeOK, InvState, Owning, Serving,
          Alive, kwin, runtime, process, reading
  <1>1. ASSUME NEW h \in Hosts,
              Start(h) \/ Run(h) \/ Die(h) \/ KwinCreates(h)
        PROVE  InvState'
    <2>1. CASE Start(h)
      BY <2>1 DEF Start, Set, To
    <2>2. CASE TakeLock(h)
      BY <2>2 DEF TakeLock, Set, To, LockFree
    <2>3. CASE Refused(h)
      BY <2>3 DEF Refused, Set, To, PathWithoutLock
    <2>4. CASE Clear(h)
      BY <2>4 DEF Clear, Set, To
    <2>5. CASE ConnectDisplay(h)
      BY <2>5 DEF ConnectDisplay, Set, To, Sync
    <2>6. CASE Inspect(h)
      BY <2>6 DEF Inspect, Set, To
    <2>7. CASE Create(h)
      BY <2>7 DEF Create, Set, To
    <2>8. CASE Pump(h)
      BY <2>8 DEF Pump, Set, To
    <2>9. CASE Look(h)
      BY <2>9 DEF Look, Set, To
    <2>10. CASE Save(h)
      BY <2>10, SnapshotTyped DEF Save, Set, To
    <2>11. CASE Lost(h)
      BY <2>11 DEF Lost, Set, To
    <2>12. CASE Throws(h)
      BY <2>12 DEF Throws, Set, To
    <2>13. CASE Stop(h)
      BY <2>13 DEF Stop, Set, To, Removed
    <2>14. CASE Release(h)
      BY <2>14 DEF Release, Set, To
    <2>15. CASE Catch(h)
      BY <2>15 DEF Catch, Set, To
    <2>16. CASE Unlock(h)
      BY <2>16 DEF Unlock, Set, To
    <2>17. CASE Die(h)
      BY <2>17 DEF Die, Set, To
    <2>18. CASE KwinCreates(h)
      BY <2>18 DEF KwinCreates, Set, To
    <2> QED BY <1>1, <2>1, <2>2, <2>3, <2>4, <2>5, <2>6, <2>7, <2>8, <2>9,
           <2>10, <2>11, <2>12, <2>13, <2>14, <2>15, <2>16, <2>17, <2>18 DEF
           Run
  <1>2. CASE KwinRemoves
    BY <1>2 DEF KwinRemoves
  <1>3. CASE UserDisables
    BY <1>3 DEF UserDisables
  <1>4. CASE Read
    BY <1>4 DEF Read
  <1>5. CASE Discover
    BY <1>5 DEF Discover
  <1>6. CASE Forget
    BY <1>6 DEF Forget
  <1>7. CASE UNCHANGED vars
    BY <1>7 DEF vars
  <1> QED BY <1>1, <1>2, <1>3, <1>4, <1>5, <1>6, <1>7 DEF Next

\* Only the process with the lock asks for outputs, and only when there were
\* none.
LEMMA OutputsStep ==
  InvTypes /\ InvState /\ InvOutputs /\ [Next]_vars => InvOutputs'
  <1> SUFFICES ASSUME InvTypes, InvState, InvOutputs, [Next]_vars
               PROVE  InvOutputs'
    OBVIOUS
  <1> USE HostAssumption DEF InvTypes, TypeOK, InvState, InvOutputs, OneOwner,
          Owning, Asking, Alive, kwin, runtime, process, reading
  <1>1. ASSUME NEW h \in Hosts,
              Start(h) \/ Run(h) \/ Die(h) \/ KwinCreates(h)
        PROVE  InvOutputs'
    <2>1. CASE Start(h)
      BY <2>1 DEF Start, Set, To
    <2>2. CASE TakeLock(h)
      BY <2>2 DEF TakeLock, Set, To, LockFree
    <2>3. CASE Refused(h)
      BY <2>3 DEF Refused, Set, To, PathWithoutLock
    <2>4. CASE Clear(h)
      BY <2>4 DEF Clear, Set, To
    <2>5. CASE ConnectDisplay(h)
      BY <2>5 DEF ConnectDisplay, Set, To, Sync
    <2>6. CASE Inspect(h)
      BY <2>6 DEF Inspect, Set, To, NoneExists
    <2>7. CASE Create(h)
      BY <2>7 DEF Create, Set, To
    <2>8. CASE Pump(h)
      BY <2>8 DEF Pump, Set, To
    <2>9. CASE Look(h)
      BY <2>9 DEF Look, Set, To
    <2>10. CASE Save(h)
      BY <2>10 DEF Save, Set, To
    <2>11. CASE Lost(h)
      BY <2>11 DEF Lost, Set, To
    <2>12. CASE Throws(h)
      BY <2>12 DEF Throws, Set, To
    <2>13. CASE Stop(h)
      BY <2>13 DEF Stop, Set, To
    <2>14. CASE Release(h)
      BY <2>14 DEF Release, Set, To
    <2>15. CASE Catch(h)
      BY <2>15 DEF Catch, Set, To
    <2>16. CASE Unlock(h)
      BY <2>16 DEF Unlock, Set, To
    <2>17. CASE Die(h)
      BY <2>17 DEF Die, Set, To
    <2>18. CASE KwinCreates(h)
      BY <2>18 DEF KwinCreates, Set, To, Stream
    <2> QED BY <1>1, <2>1, <2>2, <2>3, <2>4, <2>5, <2>6, <2>7, <2>8, <2>9,
           <2>10, <2>11, <2>12, <2>13, <2>14, <2>15, <2>16, <2>17, <2>18 DEF
           Run
  <1>2. CASE KwinRemoves
    BY <1>2 DEF KwinRemoves
  <1>3. CASE UserDisables
    BY <1>3 DEF UserDisables
  <1>4. CASE Read
    BY <1>4 DEF Read
  <1>5. CASE Discover
    BY <1>5 DEF Discover
  <1>6. CASE Forget
    BY <1>6 DEF Forget
  <1>7. CASE UNCHANGED vars
    BY <1>7 DEF vars
  <1> QED BY <1>1, <1>2, <1>3, <1>4, <1>5, <1>6, <1>7 DEF Next

\* What a reader finds existed all at once.
LEMMA ReaderStep ==
  InvTypes /\ InvOutputs /\ RightScreen /\ [Next]_vars => RightScreen'
  <1> SUFFICES ASSUME InvTypes, InvOutputs, RightScreen, [Next]_vars
               PROVE  RightScreen'
    OBVIOUS
  <1> USE DEF RightScreen, kwin, runtime, process, reading
  <1>1. ASSUME NEW h \in Hosts,
              Start(h) \/ Run(h) \/ Die(h) \/ KwinCreates(h)
        PROVE  RightScreen'
    <2>1. CASE Start(h)
      BY <2>1 DEF Start, Set, To
    <2>2. CASE TakeLock(h)
      BY <2>2 DEF TakeLock, Set, To
    <2>3. CASE Refused(h)
      BY <2>3 DEF Refused, Set, To
    <2>4. CASE Clear(h)
      BY <2>4 DEF Clear, Set, To
    <2>5. CASE ConnectDisplay(h)
      BY <2>5 DEF ConnectDisplay, Set, To
    <2>6. CASE Inspect(h)
      BY <2>6 DEF Inspect, Set, To
    <2>7. CASE Create(h)
      BY <2>7 DEF Create, Set, To
    <2>8. CASE Pump(h)
      BY <2>8 DEF Pump, Set, To
    <2>9. CASE Look(h)
      BY <2>9 DEF Look, Set, To
    <2>10. CASE Save(h)
      BY <2>10 DEF Save, Set, To
    <2>11. CASE Lost(h)
      BY <2>11 DEF Lost, Set, To
    <2>12. CASE Throws(h)
      BY <2>12 DEF Throws, Set, To
    <2>13. CASE Stop(h)
      BY <2>13 DEF Stop, Set, To
    <2>14. CASE Release(h)
      BY <2>14 DEF Release, Set, To
    <2>15. CASE Catch(h)
      BY <2>15 DEF Catch, Set, To
    <2>16. CASE Unlock(h)
      BY <2>16 DEF Unlock, Set, To
    <2>17. CASE Die(h)
      BY <2>17 DEF Die, Set, To
    <2>18. CASE KwinCreates(h)
      BY <2>18 DEF KwinCreates, Set, To
    <2> QED BY <1>1, <2>1, <2>2, <2>3, <2>4, <2>5, <2>6, <2>7, <2>8, <2>9,
           <2>10, <2>11, <2>12, <2>13, <2>14, <2>15, <2>16, <2>17, <2>18 DEF
           Run
  <1>2. CASE KwinRemoves
    BY <1>2 DEF KwinRemoves
  <1>3. CASE UserDisables
    BY <1>3 DEF UserDisables
  <1>4. CASE Read
    BY <1>4 DEF Read
  <1>5. CASE Discover
    BY <1>5 DEF Discover, NodeFor, InvOutputs, OneOwner, InvTypes, TypeOK
  <1>6. CASE Forget
    BY <1>6 DEF Forget
  <1>7. CASE UNCHANGED vars
    BY <1>7 DEF vars
  <1> QED BY <1>1, <1>2, <1>3, <1>4, <1>5, <1>6, <1>7 DEF Next

-----------------------------------------------------------------------------
(* The invariant, and what follows from it.                                *)

\* All of the above holds in every state.
THEOREM Invariant == Spec => []IInv
  <1>1. IInv /\ [Next]_vars => IInv'
    BY TypesStep, StateStep, OutputsStep, ReaderStep DEF IInv
  <1> QED BY <1>1, InitIInv, PTL DEF Spec

\* Type correctness of lock, state file, processes, KWin's outputs and reader.
THEOREM TypeCorrect == Spec => []TypeOK
  <1>1. IInv => TypeOK
    BY DEF IInv, InvTypes
  <1> QED BY <1>1, Invariant, PTL

\* However many hosts are started, refused, killed or stopped, the state of
\* the one that serves stays published, and none that exits leaves a file:
\* failing paths remove state.json only where the lock was taken.
THEOREM PublishedWhileServing == Spec => []StaysPublished
  <1>1. IInv => StaysPublished
    BY DEF IInv, InvState, InvTypes, TypeOK, StaysPublished, Serving
  <1> QED BY <1>1, Invariant, PTL

\* All outputs belong to one process and no monitor has two: the check of
\* KScreen's outputs comes after the lock and before create().
THEOREM OutputsHaveOneOwner == Spec => []OneOwner
  <1>1. IInv => OneOwner
    BY DEF IInv, InvOutputs
  <1> QED BY <1>1, Invariant, PTL

\* discoverMonitors() matches serials with the nodes of one moment, so the
\* screens it captures are the right ones and of one host.
THEOREM CapturesRightScreen == Spec => []RightScreen
  <1>1. IInv => RightScreen
    BY DEF IInv
  <1> QED BY <1>1, Invariant, PTL

-----------------------------------------------------------------------------
(* The hosts implement VirtualMonitors.                                    *)

\* A host that serves has the lock, is the one the file names, and owns every
\* screen.
LEMMA ServerOwns ==
  ASSUME IInv, NEW h \in Servers
  PROVE  /\ h \in Hosts /\ lock = h /\ state.pid = h
         /\ \A s \in outputs : s.host = h
  <1>1. h \in Hosts /\ pc[h] \in {"serve", "idle"} /\ saved[h]
    BY DEF Servers
  <1> QED BY <1>1 DEF IInv, InvState, InvOutputs, Owning, Asking, Alive

\* So there is one at most, and none but the one with the lock.
LEMMA OneServer ==
  ASSUME IInv, NEW h \in Hosts, lock = h
  PROVE  Servers \subseteq {h}
  BY ServerOwns

\* The others serve as they did.
LEMMA OthersServe ==
  ASSUME NEW h \in Hosts,
         \A g \in Hosts \ {h} : pc'[g] = pc[g] /\ saved'[g] = saved[g]
  PROVE  Servers' \ {h} = Servers \ {h}
  BY DEF Servers

\* Each step of a process sets nothing of the others.
LEMMA OwnVariables ==
  ASSUME InvTypes, NEW h \in Hosts, Start(h) \/ Run(h) \/ Die(h)
  PROVE  /\ \A g \in Hosts \ {h} : pc'[g] = pc[g] /\ saved'[g] = saved[g]
         /\ UNCHANGED <<outputs, target>>
  <1> USE DEF InvTypes, TypeOK, Set, To, kwin, runtime, process, reading
  <1>1. CASE Start(h) \/ Die(h)
    BY <1>1 DEF Start, Die
  <1>2. CASE TakeLock(h) \/ Refused(h) \/ Clear(h) \/ ConnectDisplay(h)
             \/ Inspect(h) \/ Create(h)
    BY <1>2 DEF TakeLock, Refused, Clear, ConnectDisplay, Inspect, Create
  <1>3. CASE Pump(h) \/ Look(h) \/ Lost(h) \/ Throws(h)
    BY <1>3 DEF Pump, Look, Lost, Throws
  <1>4. CASE Save(h) \/ Stop(h)
    BY <1>4 DEF Save, Stop
  <1>5. CASE Release(h) \/ Catch(h) \/ Unlock(h)
    BY <1>5 DEF Release, Catch, Unlock
  <1> QED BY <1>1, <1>2, <1>3, <1>4, <1>5 DEF Run

\* Nothing exists, is published or captured.
LEMMA ShownInit == Init => Shown!Init
  BY DEF Init, Servers, Shown!Init, Shown!Nothing

\* A host that saves its state is, or becomes, the one that serves.
LEMMA SavePublishes ==
  ASSUME IInv, NEW h \in Hosts, Save(h)
  PROVE  [Shown!Next]_(Shown!vars)
  <1> USE DEF kwin, reading
  <1>1. pc[h] = "serve" /\ state' = Snapshot(h) /\ UNCHANGED <<outputs, target>>
    BY DEF Save
  <1>2. lock = h /\ \A s \in outputs : s.host = h
    BY <1>1 DEF IInv, InvState, InvOutputs, Owning, Asking, Alive
  <1>3. Servers \subseteq {h}
    BY <1>2, OneServer
  <1>4. pc'[h] = "idle" /\ saved'[h]
    BY DEF Save, Set, To, IInv, InvTypes, TypeOK
  <1>5. Servers' = {h}
    <2>1. h \in Servers'
      BY <1>4 DEF Servers
    <2>2. Servers' \ {h} = Servers \ {h}
      BY OthersServe, OwnVariables DEF Run, IInv
    <2> QED BY <1>3, <2>1, <2>2
  <1>6. state'.pid = h
    BY <1>1 DEF Snapshot
  <1>7. CASE Servers = {}
    BY <1>1, <1>2, <1>5, <1>6, <1>7 DEF Shown!Publish, Shown!Next
  <1>8. CASE Servers = {h}
    <2>1. state.pid = h
      BY <1>8, ServerOwns
    <2> QED BY <1>1, <1>5, <1>6, <1>8, <2>1 DEF Shown!vars
  <1> QED BY <1>3, <1>7, <1>8

\* A host that leaves its loop no longer serves; if it is stopped, the file goes
\* in the same step.
LEMMA EndWithdraws ==
  ASSUME IInv, NEW h \in Hosts, Lost(h) \/ Throws(h) \/ Stop(h) \/ Die(h)
  PROVE  [Shown!Next]_(Shown!vars)
  <1>1. /\ UNCHANGED <<outputs, target>>
        /\ Servers' \ {h} = Servers \ {h}
    BY OthersServe, OwnVariables DEF Run, IInv
  <1>2. h \notin Servers'
    BY DEF Lost, Throws, Stop, Die, Set, To, IInv, InvTypes, TypeOK, Servers
  <1>3. state' = state \/ (Stop(h) /\ state'.pid = Absent.pid)
    BY DEF Lost, Throws, Stop, Die, runtime, Removed
  <1>4. CASE h \in Servers \/ Stop(h)
    <2>1. lock = h
      <3>1. CASE h \in Servers
        BY <3>1, ServerOwns
      <3>2. CASE Stop(h)
        BY <3>2 DEF Stop, IInv, InvState, Owning, Alive
      <3> QED BY <1>4, <3>1, <3>2
    <2>2. Servers' = {}
      BY <1>1, <1>2, <2>1, OneServer
    <2> QED BY <1>1, <1>3, <2>2 DEF Shown!Withdraw, Shown!Next
  <1>5. CASE h \notin Servers /\ ~Stop(h)
    BY <1>1, <1>2, <1>3, <1>5 DEF Shown!vars
  <1> QED BY <1>4, <1>5

\* Only a process with the lock touches the file, and it is not serving then.
LEMMA ClearWithdraws ==
  ASSUME IInv, NEW h \in Hosts, Clear(h) \/ Catch(h)
  PROVE  [Shown!Next]_(Shown!vars)
  <1>1. /\ UNCHANGED <<outputs, target>>
        /\ Servers' \ {h} = Servers \ {h}
    BY OthersServe, OwnVariables DEF Run, IInv
  <1>2. h \notin Servers /\ h \notin Servers'
    BY DEF Clear, Catch, Set, To, IInv, InvTypes, TypeOK, Servers
  <1>3. Servers' = Servers
    BY <1>1, <1>2
  <1>4. CASE path[h]
    <2>1. lock = h
      BY <1>4 DEF Clear, Catch, IInv, InvState, Alive
    <2>2. Servers = {}
      BY <1>2, <2>1, OneServer
    <2>3. state'.pid = Absent.pid
      BY <1>4 DEF Clear, Catch
    <2> QED BY <1>1, <1>3, <2>2, <2>3 DEF Shown!Withdraw, Shown!Next
  <1>5. CASE ~path[h]
    <2>1. state' = state
      BY <1>5 DEF Clear, Catch, IInv, InvState, Owning
    <2> QED BY <1>1, <1>3, <2>1 DEF Shown!vars
  <1> QED BY <1>4, <1>5

\* The steps before and after, and the events, concern nobody else.
LEMMA HiddenSteps ==
  ASSUME IInv, NEW h \in Hosts,
         \/ Start(h) \/ TakeLock(h) \/ Refused(h) \/ ConnectDisplay(h)
         \/ Inspect(h) \/ Create(h) \/ Pump(h) \/ Look(h) \/ Release(h)
         \/ Unlock(h)
  PROVE  UNCHANGED Shown!vars
  <1>1. /\ UNCHANGED <<outputs, target>>
        /\ Servers' \ {h} = Servers \ {h}
    BY OthersServe, OwnVariables DEF Run, IInv
  <1>2. UNCHANGED <<state, saved>>
    BY DEF Start, TakeLock, Refused, ConnectDisplay, Inspect, Create, Pump,
           Look, Release, Unlock, runtime
  <1>3. h \in Servers <=> h \in Servers'
    <2>1. CASE Pump(h)
      BY <2>1 DEF Pump, Set, To, IInv, InvTypes, TypeOK, InvState, Serving,
                  Servers
    <2>2. CASE Look(h)
      BY <2>2 DEF Look, Set, To, IInv, InvTypes, TypeOK, InvState, Serving,
                  Servers
    <2>3. CASE \/ Start(h) \/ TakeLock(h) \/ Refused(h) \/ ConnectDisplay(h)
               \/ Inspect(h) \/ Create(h) \/ Release(h) \/ Unlock(h)
      BY <2>3 DEF Start, TakeLock, Refused, ConnectDisplay, Inspect, Create,
                  Release, Unlock, Set, To, IInv, InvTypes, TypeOK, Servers
    <2> QED BY <2>1, <2>2, <2>3
  <1>4. Servers' = Servers
    BY <1>1, <1>3
  <1> QED BY <1>1, <1>2, <1>4 DEF Shown!vars

\* KWin creates only what the host with the lock has asked for.
LEMMA CreatesAppear ==
  ASSUME IInv, NEW h \in Hosts, KwinCreates(h)
  PROVE  Shown!Appear
  <1>1. PICK m \in asked[h], n \in Nodes :
          outputs' = outputs \cup {[monitor |-> m, host |-> h, node |-> n]}
    BY DEF KwinCreates
  <1> DEFINE new == [monitor |-> m, host |-> h, node |-> n]
  <1>2. UNCHANGED <<pc, saved, state, target>>
    BY DEF KwinCreates, runtime, reading
  <1>3. UNCHANGED Servers
    BY <1>2 DEF Servers
  <1>4. new \in Stream /\ new.host = h /\ new.monitor = m
    BY <1>1 DEF Stream, IInv, InvTypes, TypeOK
  <1>5. \A s \in outputs : s.host = h /\ s.monitor # m
    BY <1>1 DEF IInv, InvOutputs
  <1>6. Servers \subseteq {h}
    <2>1. lock = h
      BY <1>1 DEF IInv, InvState, InvOutputs, Owning, Asking, Alive
    <2> QED BY <2>1, OneServer
  <1> HIDE DEF new
  <1>7. outputs' = outputs \cup {new}
    BY <1>1 DEF new
  <1> QED BY <1>2, <1>3, <1>4, <1>5, <1>6, <1>7 DEF Shown!Appear

\* discoverMonitors() compares nodes and serials of one moment, at which it
\* finds a screen of every monitor or none.
LEMMA DiscoverCaptures ==
  ASSUME IInv, Discover
  PROVE  [Shown!Next]_(Shown!vars)
  <1>1. UNCHANGED <<outputs, state, Servers>>
    BY DEF Discover, kwin, runtime, process, Servers
  <1>2. CASE UNCHANGED target
    BY <1>1, <1>2 DEF Shown!vars
  <1>3. CASE /\ \A m \in Monitors : NodeFor(m) # {}
             /\ target' = [m \in Monitors |-> NodeFor(m)]
    <2>1. ASSUME NEW m \in Monitors
          PROVE  /\ \E s \in outputs : s.monitor = m
                 /\ NodeFor(m) = {s \in outputs : s.monitor = m}
      BY <1>3 DEF NodeFor, IInv, InvOutputs, OneOwner
    <2>2. target' = [m \in Monitors |-> {s \in outputs : s.monitor = m}]
      BY <1>3, <2>1
    <2> QED BY <1>1, <2>1, <2>2 DEF Shown!Capture, Shown!Next
  <1> QED BY <1>2, <1>3 DEF Discover

\* However many processes start, are refused, die or stop, and however KWin and
\* PipeWire use their numbers again: the readers see one host at a time, whose
\* screens are all there are, and capture them as they are at one moment.
THEOREM HostsImplementMonitors == Spec => MonitorSpec
  <1>1. IInv /\ [Next]_vars => [Shown!Next]_(Shown!vars)
    <2> SUFFICES ASSUME IInv, [Next]_vars
                 PROVE  [Shown!Next]_(Shown!vars)
      OBVIOUS
    <2>1. ASSUME NEW h \in Hosts, Start(h) \/ Run(h) \/ Die(h)
          PROVE  [Shown!Next]_(Shown!vars)
      BY <2>1, HiddenSteps, SavePublishes, EndWithdraws, ClearWithdraws DEF Run
    <2>2. ASSUME NEW h \in Hosts, KwinCreates(h)
          PROVE  [Shown!Next]_(Shown!vars)
      BY <2>2, CreatesAppear DEF Shown!Next
    <2>3. CASE KwinRemoves
      BY <2>3 DEF KwinRemoves, runtime, process, reading, Servers, Shown!Vanish,
                  Shown!Next
    <2>4. CASE UserDisables \/ Read \/ UNCHANGED vars
      BY <2>4 DEF UserDisables, Read, vars, kwin, runtime, process, reading,
                  Servers, Shown!vars
    <2>5. CASE Discover
      BY <2>5, DiscoverCaptures
    <2>6. CASE Forget
      BY <2>6 DEF Forget, kwin, runtime, process, Servers, Shown!Drop,
                  Shown!Nothing, Shown!Next
    <2> QED BY <2>1, <2>2, <2>3, <2>4, <2>5, <2>6 DEF Next
  <1> QED BY <1>1, ShownInit, Invariant, PTL DEF Spec, MonitorSpec, Shown!Spec

-----------------------------------------------------------------------------
(* What follows from the abstract monitors alone.                          *)

\* What a reader may rely on: screens and captures are one host's each, a
\* capture of a monitor shows that monitor, and while a host serves, it is the
\* one the notice names and all screens are its own.
ReadersMayRely ==
    /\ OneOwner /\ RightScreen
    /\ \A h \in Servers : state.pid = h /\ \A s \in outputs : s.host = h

LEMMA MonitorsStep ==
  ASSUME ReadersMayRely, [Shown!Next]_(Shown!vars)
  PROVE  ReadersMayRely'
  <1> USE DEF ReadersMayRely, OneOwner, RightScreen
  <1>1. CASE Shown!Appear
    BY <1>1 DEF Shown!Appear
  <1>2. CASE Shown!Vanish
    BY <1>2 DEF Shown!Vanish
  <1>3. CASE Shown!Publish
    BY <1>3 DEF Shown!Publish
  <1>4. CASE Shown!Withdraw
    BY <1>4 DEF Shown!Withdraw
  <1>5. CASE Shown!Capture
    BY <1>5 DEF Shown!Capture
  <1>6. CASE Shown!Drop
    BY <1>6 DEF Shown!Drop, Shown!Nothing
  <1>7. CASE UNCHANGED Shown!vars
    BY <1>7 DEF Shown!vars
  <1> QED BY <1>1, <1>2, <1>3, <1>4, <1>5, <1>6, <1>7 DEF Shown!Next

\* VirtualMonitors is all that discoverMonitors() and the stream launcher need.
THEOREM MonitorsAreReliable == Shown!Spec => []ReadersMayRely
  <1>1. Shown!Init => ReadersMayRely
    BY DEF Shown!Init, Shown!Nothing, ReadersMayRely, OneOwner, RightScreen
  <1>2. ReadersMayRely /\ [Shown!Next]_(Shown!vars) => ReadersMayRely'
    BY MonitorsStep
  <1> QED BY <1>1, <1>2, PTL DEF Shown!Spec
=============================================================================
