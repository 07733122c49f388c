--------------------------- MODULE HeadsetModeProofs -------------------------
(* Theorems about headset mode with any physical outputs.                  *)
EXTENDS HeadsetMode, TLAPS

\* Who may be at work when, as systemd orders the units: whatever has crashed.
InvUnits ==
    /\ quest <=> host = "up"
    /\ step["hostHook"] # "none" => host = "stopping"
    /\ step["streamsHook"] # "none" => streams = "hook"
    /\ step["child"] # "none" => streams \in {"up", "signalled"}
    /\ main \in {"loop", "gone"} => step["child"] = "none"
    /\ \A h \in Helpers \ {"child"} :
         step[h] \in {"none", "read", "enable", "unlink"}
    /\ "host" \notin faults /\ host # "up" => streams = "down"

\* Every name that is on record, or in a helper's hands, is that of an output
\* which is on or which a helper has switched off, never both: whatever has
\* failed.
Known == enabled \cup dark
InvNames ==
    /\ saved \subseteq Known /\ record \subseteq Known
    /\ \A h \in Helpers : names[h] \subseteq Known
    /\ Known # {} /\ enabled \cap dark = {}

\* What is dark is on record, all the time; an off that has something to do
\* finds nothing dark, and an on leaves nothing dark; the streams are not down
\* before their hook has seen to that.
InvDark ==
    faults = {} =>
      /\ dark \subseteq saved
      /\ dark # {} => enabled = {}
      /\ step["child"] \in {"merge", "truncate", "write", "disable"} =>
           dark = {} /\ names["child"] = enabled
      /\ step["child"] \in {"truncate", "write"} =>
           names["child"] \subseteq record
      /\ step["child"] = "disable" => names["child"] \subseteq saved
      /\ \A h \in Helpers : step[h] = "enable" => names[h] = saved
      /\ \A h \in Helpers : step[h] = "unlink" => dark = {}
      /\ streams = "hook" /\ step["streamsHook"] = "none" => dark = {}
      /\ streams = "down" => dark = {}

IInv == TypeOK /\ InvUnits /\ InvNames /\ InvDark

-----------------------------------------------------------------------------
(* Lemmas.                                                                 *)

\* Before anything runs, nothing is recorded and nothing is dark.
LEMMA InitIInv == Init => IInv
  <1> SUFFICES ASSUME Init PROVE IInv
    OBVIOUS
  <1> USE HeadsetAssumption DEF Init
  <1>1. TypeOK
    BY DEF TypeOK, Helpers, Steps
  <1>2. InvUnits
    BY DEF InvUnits, Helpers
  <1>3. InvNames
    <2>1. enabled # {} /\ dark = {} /\ saved = {} /\ record = {}
      OBVIOUS
    <2>2. \A h \in Helpers : names[h] = {}
      OBVIOUS
    <2> QED BY ONLY <2>1, <2>2 DEF InvNames, Known
  <1>4. InvDark
    BY DEF InvDark, Helpers
  <1> QED BY <1>1, <1>2, <1>3, <1>4 DEF IInv

\* Every step keeps the types.
LEMMA TypeStep ==
  TypeOK /\ InvUnits /\ [Next]_vars => TypeOK'
  <1> SUFFICES ASSUME TypeOK, InvUnits, [Next]_vars
               PROVE  TypeOK'
    OBVIOUS
  <1> USE HeadsetAssumption DEF TypeOK, InvUnits, Helpers, Steps, screens,
          helpers, history, watch
  <1>1. ASSUME NEW h \in Helpers, Helper(h)
        PROVE  TypeOK'
    <2>1. CASE OffQuery(h)
      BY <2>1 DEF OffQuery, Listings, Blankable, Advance, Exit, After
    <2>2. CASE OffMerge(h)
      BY <2>2 DEF OffMerge, Advance, After
    <2>3. CASE OffTruncate(h)
      BY <2>3 DEF OffTruncate, Advance, After
    <2>4. CASE OffWrite(h)
      BY <2>4 DEF OffWrite, Advance, After
    <2>5. CASE OffDisable(h)
      BY <2>5 DEF OffDisable, Advance, After
    <2>6. CASE CommandFails(h)
      BY <2>6 DEF CommandFails, Exit
    <2>7. CASE OnRead(h)
      BY <2>7 DEF OnRead, Exit, Advance, After
    <2>8. CASE OnEnable(h)
      BY <2>8 DEF OnEnable, Advance, After
    <2>9. CASE OnUnlink(h)
      BY <2>9 DEF OnUnlink, Advance, After
    <2> QED BY <1>1, <2>1, <2>2, <2>3, <2>4, <2>5, <2>6, <2>7, <2>8, <2>9 DEF
           Helper
  <1>2. CASE ClientChanges
    BY <1>2 DEF ClientChanges, ProcessAlive
  <1>3. CASE TimePasses
    BY <1>3 DEF TimePasses, ProcessAlive
  <1>4. CASE Turn
    BY <1>4 DEF Turn, ProcessAlive, Start
  <1>5. CASE HelperReturned
    BY <1>5 DEF HelperReturned, ProcessAlive
  <1>6. CASE LoopEnds
    BY <1>6 DEF LoopEnds, ProcessAlive, Start
  <1>7. CASE WorkersEnd
    BY <1>7 DEF WorkersEnd, ProcessAlive
  <1>8. CASE HostStarts
    BY <1>8 DEF HostStarts
  <1>9. CASE StreamsStart
    BY <1>9 DEF StreamsStart
  <1>10. CASE StopStreams
    BY <1>10 DEF StopStreams, KillChild
  <1>11. CASE StreamsExit
    BY <1>11 DEF StreamsExit, HookStarts
  <1>12. CASE StopHost
    BY <1>12 DEF StopHost, HostMayStop, HostExits, Start
  <1>13. CASE CrashHost
    BY <1>13 DEF CrashHost, HostExits, Start
  <1>14. CASE StreamsHookDone
    BY <1>14 DEF StreamsHookDone
  <1>15. CASE HostHookDone
    BY <1>15 DEF HostHookDone
  <1>16. CASE UNCHANGED vars
    BY <1>16 DEF vars
  <1> QED BY <1>1, <1>2, <1>3, <1>4, <1>5, <1>6, <1>7, <1>8, <1>9, <1>10,
         <1>11, <1>12, <1>13, <1>14, <1>15, <1>16 DEF Next, Watching, Hooks

\* systemd starts each hook in its time, and the units in their order.
LEMMA UnitsStep ==
  TypeOK /\ InvUnits /\ [Next]_vars => InvUnits'
  <1> SUFFICES ASSUME TypeOK, InvUnits, [Next]_vars
               PROVE  InvUnits'
    OBVIOUS
  <1> USE HeadsetAssumption DEF TypeOK, InvUnits, Helpers, screens, helpers,
          history, watch
  <1>1. ASSUME NEW h \in Helpers, Helper(h)
        PROVE  InvUnits'
    <2>1. CASE OffQuery(h)
      BY <2>1 DEF OffQuery, Listings, Blankable, Advance, Exit, After
    <2>2. CASE OffMerge(h)
      BY <2>2 DEF OffMerge, Advance, After
    <2>3. CASE OffTruncate(h)
      BY <2>3 DEF OffTruncate, Advance, After
    <2>4. CASE OffWrite(h)
      BY <2>4 DEF OffWrite, Advance, After
    <2>5. CASE OffDisable(h)
      BY <2>5 DEF OffDisable, Advance, After
    <2>6. CASE CommandFails(h)
      BY <2>6 DEF CommandFails, Exit
    <2>7. CASE OnRead(h)
      BY <2>7 DEF OnRead, Exit, Advance, After
    <2>8. CASE OnEnable(h)
      BY <2>8 DEF OnEnable, Advance, After
    <2>9. CASE OnUnlink(h)
      BY <2>9 DEF OnUnlink, Advance, After
    <2> QED BY <1>1, <2>1, <2>2, <2>3, <2>4, <2>5, <2>6, <2>7, <2>8, <2>9 DEF
           Helper
  <1>2. CASE ClientChanges
    BY <1>2 DEF ClientChanges, ProcessAlive
  <1>3. CASE TimePasses
    BY <1>3 DEF TimePasses, ProcessAlive
  <1>4. CASE Turn
    BY <1>4 DEF Turn, ProcessAlive, Start
  <1>5. CASE HelperReturned
    BY <1>5 DEF HelperReturned, ProcessAlive
  <1>6. CASE LoopEnds
    BY <1>6 DEF LoopEnds, ProcessAlive, Start
  <1>7. CASE WorkersEnd
    BY <1>7 DEF WorkersEnd, ProcessAlive
  <1>8. CASE HostStarts
    BY <1>8 DEF HostStarts
  <1>9. CASE StreamsStart
    BY <1>9 DEF StreamsStart
  <1>10. CASE StopStreams
    BY <1>10 DEF StopStreams, KillChild
  <1>11. CASE StreamsExit
    BY <1>11 DEF StreamsExit, HookStarts
  <1>12. CASE StopHost
    BY <1>12 DEF StopHost, HostMayStop, HostExits, Start
  <1>13. CASE CrashHost
    BY <1>13 DEF CrashHost, HostExits, Start
  <1>14. CASE StreamsHookDone
    BY <1>14 DEF StreamsHookDone
  <1>15. CASE HostHookDone
    BY <1>15 DEF HostHookDone
  <1>16. CASE UNCHANGED vars
    BY <1>16 DEF vars
  <1> QED BY <1>1, <1>2, <1>3, <1>4, <1>5, <1>6, <1>7, <1>8, <1>9, <1>10,
         <1>11, <1>12, <1>13, <1>14, <1>15, <1>16 DEF Next, Watching, Hooks

\* A helper only takes names of outputs that are on, or off by a helper.
LEMMA NamesStep ==
  TypeOK /\ InvNames /\ [Next]_vars => InvNames'
  <1> SUFFICES ASSUME TypeOK, InvNames, [Next]_vars
               PROVE  InvNames'
    OBVIOUS
  <1> USE HeadsetAssumption DEF TypeOK, InvNames, Known, Helpers, screens,
          helpers, history, watch
  <1>1. ASSUME NEW h \in Helpers, Helper(h)
        PROVE  InvNames'
    <2>1. CASE OffQuery(h)
      BY <2>1 DEF OffQuery, Listings, Blankable, Advance, Exit, After
    <2>2. CASE OffMerge(h)
      BY <2>2 DEF OffMerge, Advance, After
    <2>3. CASE OffTruncate(h)
      BY <2>3 DEF OffTruncate, Advance, After
    <2>4. CASE OffWrite(h)
      BY <2>4 DEF OffWrite, Advance, After
    <2>5. CASE OffDisable(h)
      BY <2>5 DEF OffDisable, Advance, After
    <2>6. CASE CommandFails(h)
      BY <2>6 DEF CommandFails, Exit
    <2>7. CASE OnRead(h)
      BY <2>7 DEF OnRead, Exit, Advance, After
    <2>8. CASE OnEnable(h)
      BY <2>8 DEF OnEnable, Advance, After
    <2>9. CASE OnUnlink(h)
      BY <2>9 DEF OnUnlink, Advance, After
    <2> QED BY <1>1, <2>1, <2>2, <2>3, <2>4, <2>5, <2>6, <2>7, <2>8, <2>9 DEF
           Helper
  <1>2. CASE ClientChanges
    BY <1>2 DEF ClientChanges, ProcessAlive
  <1>3. CASE TimePasses
    BY <1>3 DEF TimePasses, ProcessAlive
  <1>4. CASE Turn
    BY <1>4 DEF Turn, ProcessAlive, Start
  <1>5. CASE HelperReturned
    BY <1>5 DEF HelperReturned, ProcessAlive
  <1>6. CASE LoopEnds
    BY <1>6 DEF LoopEnds, ProcessAlive, Start
  <1>7. CASE WorkersEnd
    BY <1>7 DEF WorkersEnd, ProcessAlive
  <1>8. CASE HostStarts
    BY <1>8 DEF HostStarts
  <1>9. CASE StreamsStart
    BY <1>9 DEF StreamsStart
  <1>10. CASE StopStreams
    BY <1>10 DEF StopStreams, KillChild
  <1>11. CASE StreamsExit
    BY <1>11 DEF StreamsExit, HookStarts
  <1>12. CASE StopHost
    BY <1>12 DEF StopHost, HostMayStop, HostExits, Start
  <1>13. CASE CrashHost
    BY <1>13 DEF CrashHost, HostExits, Start
  <1>14. CASE StreamsHookDone
    BY <1>14 DEF StreamsHookDone
  <1>15. CASE HostHookDone
    BY <1>15 DEF HostHookDone
  <1>16. CASE UNCHANGED vars
    BY <1>16 DEF vars
  <1> QED BY <1>1, <1>2, <1>3, <1>4, <1>5, <1>6, <1>7, <1>8, <1>9, <1>10,
         <1>11, <1>12, <1>13, <1>14, <1>15, <1>16 DEF Next, Watching, Hooks

\* As long as nothing fails one helper at a time is at work, and the record
\* is written before the outputs go and forgotten after they are back.
LEMMA DarkStep ==
  TypeOK /\ InvUnits /\ InvNames /\ InvDark /\ [Next]_vars => InvDark'
  <1> SUFFICES ASSUME TypeOK, InvUnits, InvNames, InvDark, [Next]_vars
               PROVE  InvDark'
    OBVIOUS
  <1> USE HeadsetAssumption DEF TypeOK, InvUnits, InvNames, Known, InvDark,
          Helpers, screens, helpers, history, watch
  <1>1. ASSUME NEW h \in Helpers, Helper(h)
        PROVE  InvDark'
    <2>1. CASE OffQuery(h)
      BY <2>1 DEF OffQuery, Listings, Blankable, Advance, Exit, After
    <2>2. CASE OffMerge(h)
      BY <2>2 DEF OffMerge, Advance, After
    <2>3. CASE OffTruncate(h)
      BY <2>3 DEF OffTruncate, Advance, After
    <2>4. CASE OffWrite(h)
      BY <2>4 DEF OffWrite, Advance, After
    <2>5. CASE OffDisable(h)
      BY <2>5 DEF OffDisable, Advance, After
    <2>6. CASE CommandFails(h)
      BY <2>6 DEF CommandFails, Exit
    <2>7. CASE OnRead(h)
      BY <2>7 DEF OnRead, Exit, Advance, After
    <2>8. CASE OnEnable(h)
      BY <2>8 DEF OnEnable, Advance, After
    <2>9. CASE OnUnlink(h)
      BY <2>9 DEF OnUnlink, Advance, After
    <2> QED BY <1>1, <2>1, <2>2, <2>3, <2>4, <2>5, <2>6, <2>7, <2>8, <2>9 DEF
           Helper
  <1>2. CASE ClientChanges
    BY <1>2 DEF ClientChanges, ProcessAlive
  <1>3. CASE TimePasses
    BY <1>3 DEF TimePasses, ProcessAlive
  <1>4. CASE Turn
    BY <1>4 DEF Turn, ProcessAlive, Start
  <1>5. CASE HelperReturned
    BY <1>5 DEF HelperReturned, ProcessAlive
  <1>6. CASE LoopEnds
    BY <1>6 DEF LoopEnds, ProcessAlive, Start
  <1>7. CASE WorkersEnd
    BY <1>7 DEF WorkersEnd, ProcessAlive
  <1>8. CASE HostStarts
    BY <1>8 DEF HostStarts
  <1>9. CASE StreamsStart
    BY <1>9 DEF StreamsStart
  <1>10. CASE StopStreams
    BY <1>10 DEF StopStreams, KillChild
  <1>11. CASE StreamsExit
    BY <1>11 DEF StreamsExit, HookStarts
  <1>12. CASE StopHost
    BY <1>12 DEF StopHost, HostMayStop, HostExits, Start
  <1>13. CASE CrashHost
    BY <1>13 DEF CrashHost, HostExits, Start
  <1>14. CASE StreamsHookDone
    BY <1>14 DEF StreamsHookDone
  <1>15. CASE HostHookDone
    BY <1>15 DEF HostHookDone
  <1>16. CASE UNCHANGED vars
    BY <1>16 DEF vars
  <1> QED BY <1>1, <1>2, <1>3, <1>4, <1>5, <1>6, <1>7, <1>8, <1>9, <1>10,
         <1>11, <1>12, <1>13, <1>14, <1>15, <1>16 DEF Next, Watching, Hooks

-----------------------------------------------------------------------------
(* The invariant, and what follows from it.                                *)

\* All of the above holds in every state.
THEOREM Invariant == Spec => []IInv
  <1>1. IInv /\ [Next]_vars => IInv'
    BY TypeStep, UnitsStep, NamesStep, DarkStep DEF IInv
  <1> QED BY <1>1, InitIInv, PTL DEF Spec

\* Type correctness: no child helper outlives the main thread.
THEOREM TypeCorrect == Spec => []TypeOK
  <1>1. IInv => TypeOK
    BY DEF IInv
  <1> QED BY <1>1, Invariant, PTL

\* However many outputs a laptop has, and wherever helpers are killed, none
\* stays off when the streams are down: the record always names what is dark.
THEOREM LaptopComesBack == Spec => []NeverLeftOff
  <1>1. IInv => NeverLeftOff
    BY DEF IInv, InvDark, NeverLeftOff, Quiet
  <1> QED BY <1>1, Invariant, PTL

\* There is always a screen: the Quest outputs go only when the streams are
\* down, and then nothing is dark.
THEOREM SomeScreen == Spec => []AlwaysAScreen
  <1>1. IInv => AlwaysAScreen
    BY DEF IInv, TypeOK, InvUnits, InvNames, Known, InvDark, AlwaysAScreen
  <1> QED BY <1>1, Invariant, PTL

\* Whatever crashes or fails, no helper switches on what none switched off.
THEOREM OnlyWhatWasOn == Spec => RestoresExactly
  <1>1. IInv /\ [Next]_vars => [enabled' \ enabled \subseteq dark]_vars
    <2> SUFFICES ASSUME IInv, [Next]_vars
                 PROVE  enabled' \ enabled \subseteq dark
      OBVIOUS
    <2> USE DEF screens, helpers, history, watch
    <2>1. ASSUME NEW h \in Helpers, Helper(h)
          PROVE  enabled' \ enabled \subseteq dark
      <3>1. names[h] \subseteq enabled \cup dark
        BY DEF IInv, InvNames, Known
      <3>2. enabled' \subseteq enabled \cup names[h]
        BY <2>1 DEF Helper, OffQuery, OffMerge, OffTruncate, OffWrite,
                    OffDisable, CommandFails, OnRead, OnEnable, OnUnlink
      <3> QED BY <3>1, <3>2
    <2>2. CASE UNCHANGED enabled
      BY <2>2
    <2>3. (\E h \in Helpers : Helper(h)) \/ UNCHANGED enabled
      BY DEF Next, ClientChanges, TimePasses, Watching, Turn, HelperReturned,
             LoopEnds, WorkersEnd, HostStarts, StreamsStart, StopStreams,
             StreamsExit, StopHost, CrashHost, HostExits, Hooks,
             StreamsHookDone, HostHookDone, vars
    <2> QED BY <2>1, <2>2, <2>3
  <1> QED BY <1>1, Invariant, PTL DEF Spec, RestoresExactly

-----------------------------------------------------------------------------
(* Headset mode implements the screens of BorrowedScreens.                 *)

\* Before anything runs, nothing is borrowed.
LEMMA ScreensInit == Init => Screens!Init
  BY DEF Init, Screens!Init, Quiet, Helpers

\* No step loses an output or finds one: it is on, or dark.
LEMMA KnownKept ==
  ASSUME IInv, [Next]_vars
  PROVE  Known' = Known
  <1> USE DEF Known, screens, helpers, history, watch
  <1>1. ASSUME NEW h \in Helpers, Helper(h)
        PROVE  Known' = Known
    <2>1. names[h] \subseteq Known
      BY DEF IInv, InvNames
    <2>2. CASE OffDisable(h)
      BY <2>2 DEF OffDisable
    <2>3. CASE CommandFails(h)
      BY <2>1, <2>3 DEF CommandFails
    <2>4. CASE OnEnable(h)
      BY <2>1, <2>4 DEF OnEnable
    <2> QED BY <1>1, <2>2, <2>3, <2>4 DEF Helper, OffQuery, OffMerge, OffTruncate,
               OffWrite, OnRead, OnUnlink
  <1>2. CASE UNCHANGED <<enabled, dark>>
    BY <1>2
  <1> QED BY <1>1, <1>2 DEF Next, ClientChanges, TimePasses, Watching, Turn,
          HelperReturned, LoopEnds, WorkersEnd, HostStarts, StreamsStart,
          StopStreams, StreamsExit, StopHost, CrashHost, HostExits, Hooks,
          StreamsHookDone, HostHookDone, vars

\* From a failure on, that is all there is to show.
LEMMA ScreensBroken ==
  ASSUME IInv, IInv', [Next]_vars, faults' # {}
  PROVE  Screens!Broken
  <1>1. enabled' \cup dark' = enabled \cup dark /\ enabled' \cap dark' = {}
    BY KnownKept DEF Known, IInv, InvNames
  <1>2. quest' \in BOOLEAN
    BY DEF IInv, TypeOK
  <1> QED BY <1>1, <1>2 DEF Screens!Broken

\* A step that moves no output and brings or takes no Quest output begins the
\* use, ends it with nothing borrowed, or shows nothing.
LEMMA ScreensIdle ==
  ASSUME IInv', faults = {}, UNCHANGED <<enabled, dark, quest, faults>>
  PROVE  [Screens!Next]_(Screens!vars)
  <1>1. CASE Quiet'
    <2>1. dark = {}
      BY <1>1 DEF IInv, InvDark, Quiet
    <2>2. Screens!End
      BY <1>1, <2>1 DEF Screens!End
    <2> QED BY <2>2 DEF Screens!Next
  <1>2. CASE ~Quiet'
    <2>1. Screens!Begin
      BY <1>2 DEF Screens!Begin
    <2> QED BY <2>1 DEF Screens!Next
  <1> QED BY <1>1, <1>2

\* "disable" takes everything that is on, and only the child does it, while the
\* streams and with them the Quest outputs are up.
LEMMA DisableBorrows ==
  ASSUME IInv, faults = {}, NEW h \in Helpers, OffDisable(h)
  PROVE  Screens!Borrow
  <1>1. h = "child" /\ step["child"] = "disable"
    BY DEF OffDisable, IInv, InvUnits, Helpers
  <1>2. dark = {} /\ names[h] = enabled
    BY <1>1 DEF IInv, InvDark
  <1>3. streams \in {"up", "signalled"} /\ quest
    BY <1>1 DEF IInv, InvUnits
  <1>4. ~Quiet /\ ~Quiet'
    BY <1>3 DEF OffDisable, Quiet
  <1>5. enabled' = {} /\ dark' = enabled
    BY <1>2 DEF OffDisable
  <1> QED BY <1>2, <1>3, <1>4, <1>5 DEF OffDisable, Screens!Borrow

\* "enable" gives everything back that is dark, since the record names it.
LEMMA EnableGivesBack ==
  ASSUME IInv, faults = {}, NEW h \in Helpers, OnEnable(h)
  PROVE  Screens!GiveBack
  <1>1. names[h] = saved /\ dark \subseteq saved /\ saved \subseteq Known
    BY DEF OnEnable, IInv, InvDark, InvNames
  <1>2. enabled' = enabled \cup dark /\ dark' = {}
    BY <1>1 DEF OnEnable, Known
  <1>3. step[h] # "none" /\ step'[h] # "none"
    BY DEF OnEnable, Advance, After, IInv, TypeOK
  <1>4. ~Quiet /\ ~Quiet'
    BY <1>3 DEF Quiet
  <1> QED BY <1>2, <1>4 DEF OnEnable, Screens!GiveBack

\* systemd stops the host when the streams are down, and then nothing is dark.
LEMMA StopTakesQuest ==
  ASSUME IInv, faults = {}, StopHost
  PROVE  Screens!QuestGoes
  <1>1. dark = {} /\ enabled # {}
    BY DEF StopHost, HostMayStop, IInv, InvDark, InvNames, Known
  <1>2. step'["hostHook"] = "read"
    BY DEF StopHost, HostExits, Start, IInv, TypeOK, Helpers
  <1>3. ~Quiet'
    BY <1>2 DEF Quiet, Helpers
  <1> QED BY <1>1, <1>3 DEF StopHost, HostExits, watch, Screens!QuestGoes

\* Whatever is killed, fails or crashes, the screens do what BorrowedScreens
\* lets them do: each step of a helper or a unit is one of its steps or none.
THEOREM HeadsetModeImplementsScreens == Spec => ScreenSpec
  <1>1. IInv /\ IInv' /\ [Next]_vars => [Screens!Next]_(Screens!vars)
    <2> SUFFICES ASSUME IInv, IInv', [Next]_vars
                 PROVE  [Screens!Next]_(Screens!vars)
      OBVIOUS
    <2> USE DEF screens, helpers, history, watch
    <2>1. CASE faults' # {}
      BY <2>1, ScreensBroken DEF Screens!Next
    <2>2. CASE faults' = {}
      <3>1. faults = {} /\ UNCHANGED faults
        BY <2>2 DEF Next, Helper, OffQuery, OffMerge, OffTruncate, OffWrite,
              OffDisable, CommandFails, OnRead, OnEnable, OnUnlink, ClientChanges,
              TimePasses, Watching, Turn, HelperReturned, LoopEnds, WorkersEnd,
              HostStarts, StreamsStart, StopStreams, StreamsExit, StopHost,
              CrashHost, HostExits, Hooks, StreamsHookDone, HostHookDone, vars
      <3>2. ASSUME NEW h \in Helpers, OffDisable(h)
            PROVE  [Screens!Next]_(Screens!vars)
        BY <3>1, <3>2, DisableBorrows DEF Screens!Next
      <3>3. ASSUME NEW h \in Helpers, OnEnable(h)
            PROVE  [Screens!Next]_(Screens!vars)
        BY <3>1, <3>3, EnableGivesBack DEF Screens!Next
      <3>4. CASE StopHost
        BY <3>1, <3>4, StopTakesQuest DEF Screens!Next
      <3>5. CASE HostStarts
        <4>1. UNCHANGED Quiet
          BY <3>5 DEF HostStarts, Quiet
        <4>2. Screens!QuestComes
          BY <3>5, <4>1 DEF HostStarts, Screens!QuestComes
        <4> QED BY <4>2 DEF Screens!Next
      <3>6. CASE UNCHANGED <<enabled, dark, quest>>
        BY <3>1, <3>6, ScreensIdle
      <3>7. \/ \E h \in Helpers : OffDisable(h) \/ OnEnable(h)
            \/ StopHost \/ HostStarts
            \/ UNCHANGED <<enabled, dark, quest>>
        <4>1. ASSUME NEW h \in Helpers, CommandFails(h)
              PROVE  FALSE
          BY <2>2, <4>1 DEF CommandFails
        <4>2. ~CrashHost
          BY <2>2 DEF CrashHost
        <4> QED BY <4>1, <4>2 DEF Next, Helper, OffQuery, OffMerge, OffTruncate,
              OffWrite, OnRead, OnUnlink, ClientChanges, TimePasses, Watching, Turn,
              HelperReturned, LoopEnds, WorkersEnd, StreamsStart, StopStreams,
              StreamsExit, Hooks, StreamsHookDone, HostHookDone, vars
      <3> QED BY <3>2, <3>3, <3>4, <3>5, <3>6, <3>7
    <2> QED BY <2>1, <2>2
  <1> QED BY <1>1, ScreensInit, Invariant, PTL DEF Spec, ScreenSpec, Screens!Spec

-----------------------------------------------------------------------------
(* What follows from the abstract screens alone, and so for any helper and  *)
(* units that implement them.                                              *)

\* What the user of headset mode may rely on until something breaks: there is a
\* screen, on the laptop or the Quest, at any time, and with headset mode out of
\* use nothing is borrowed; no output is ever both on and borrowed.
LendingWorks ==
    /\ enabled \cap dark = {}
    /\ faults = {} => quest \/ enabled # {}
    /\ faults = {} /\ Quiet => dark = {}

\* One step of the screens.
LEMMA LendingStep ==
  ASSUME LendingWorks, [Screens!Next]_(Screens!vars)
  PROVE  LendingWorks'
  <1> USE DEF LendingWorks
  <1>1. CASE Screens!Begin
    BY <1>1 DEF Screens!Begin
  <1>2. CASE Screens!Borrow
    BY <1>2 DEF Screens!Borrow
  <1>3. CASE Screens!GiveBack
    BY <1>3 DEF Screens!GiveBack
  <1>4. CASE Screens!End
    BY <1>4 DEF Screens!End
  <1>5. CASE Screens!QuestComes
    BY <1>5 DEF Screens!QuestComes
  <1>6. CASE Screens!QuestGoes
    BY <1>6 DEF Screens!QuestGoes
  <1>7. CASE Screens!Broken
    BY <1>7 DEF Screens!Broken
  <1>8. CASE UNCHANGED Screens!vars
    BY <1>8 DEF Screens!vars
  <1> QED BY <1>1, <1>2, <1>3, <1>4, <1>5, <1>6, <1>7, <1>8 DEF Screens!Next

\* The lending of BorrowedScreens is enough for all three.
THEOREM ScreensComeBack == Screens!Spec => []LendingWorks
  <1>1. Screens!Init => LendingWorks
    BY DEF Screens!Init, LendingWorks
  <1>2. LendingWorks /\ [Screens!Next]_(Screens!vars) => LendingWorks'
    BY LendingStep
  <1> QED BY <1>1, <1>2, PTL DEF Screens!Spec
=============================================================================
