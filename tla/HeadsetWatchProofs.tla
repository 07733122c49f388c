-------------------------- MODULE HeadsetWatchProofs -------------------------
(* Theorems about the watcher with any number of headsets and any grace.   *)
EXTENDS HeadsetWatch, SequenceTheorems, TLAPS

Attaching == {"return", "reverse", "start"}

\* Where the loop is, and what that says: a listing is at the head of the
\* buffer exactly while one is handled, and while a tunnel is made or the
\* monitors are started the headset is on it.
InvLoop ==
    /\ buffer # <<>> <=> pc \in Attaching \cup {"handle"}
    /\ pc \in Attaching => attached \in Head(buffer)
    /\ pc \in {"reverse", "start"} => missing = Never
    /\ pc = "stop" => missing = Grace
    /\ pc = "sleep" => tracker = "down" /\ pipe = <<>>
    /\ tracker = "down" => deaths > 0
    /\ tracker = "starting" /\ deaths = 0 => buffer = <<>> /\ attached = Nobody
    /\ tracker = "starting" /\ deaths = 0 /\ crashes = 0 => ~running

\* Listings that are still to be handled; one of them without s; one of them
\* with any headset at all.
Pending == buffer # <<>> \/ pipe # <<>>
Without(s) ==
    \/ \E i \in 1..Len(buffer) : s \notin buffer[i]
    \/ \E i \in 1..Len(pipe) : s \notin pipe[i]
SomeHeadset ==
    \/ \E i \in 1..Len(buffer) : buffer[i] # {}
    \/ \E i \in 1..Len(pipe) : pipe[i] # {}

\* As long as the tracker lives, the last listing says what there is.
InvListings ==
    deaths = 0 /\ tracker = "up" =>
      /\ pipe # <<>> => pipe[Len(pipe)] = devices
      /\ pipe = <<>> /\ buffer # <<>> => buffer[Len(buffer)] = devices
      /\ ~Pending /\ devices # {} => missing = Never

\* A headset without its tunnel is about to get it, or its absence is on a
\* listing that is still to come, or has been noticed and its return is to come,
\* or it was there when the last attempt failed.
InvTunnel ==
    deaths = 0 /\ attached # Nobody =>
      /\ attached \in devices /\ attached \notin tunnels =>
           \/ pc \in {"return", "reverse"}
           \/ Without(attached)
           \/ missing # Never /\ Pending
           \/ noTunnel
      /\ attached \notin devices => Without(attached) \/ missing # Never

\* A watcher that owns the monitors counts no longer than nobody was there,
\* unless it has yet to read that somebody was.
InvGrace ==
    deaths = 0 /\ crashes = 0 /\ OwnsMonitors =>
      SomeHeadset \/ missing = Never \/ absent >= missing

IInv == TypeOK /\ InvLoop /\ InvListings /\ InvTunnel /\ InvGrace

-----------------------------------------------------------------------------
(* Lemmas.                                                                 *)

\* The watcher starts with nothing read, nothing owned.
LEMMA InitIInv == Init => IInv
  <1> SUFFICES ASSUME Init PROVE IInv
    OBVIOUS
  <1> USE WatchAssumption DEF WatchAssumption, Init
  <1>1. TypeOK
    <2>1. devices \subseteq Serials /\ tunnels \subseteq devices
      OBVIOUS
    <2>2. pipe \in Seq(SUBSET Serials) /\ buffer \in Seq(SUBSET Serials)
      OBVIOUS
    <2>3. /\ missing \in 0..Grace \cup {Never} /\ missing # Never
          /\ absent \in 0..Grace
      BY DEF Never
    <2>4. /\ changes \in 0..MaxChanges /\ deaths \in 0..MaxDeaths
          /\ crashes \in 0..MaxCrashes
      OBVIOUS
    <2> QED BY <2>1, <2>2, <2>3, <2>4 DEF TypeOK
  <1>2. InvLoop
    BY DEF InvLoop, Attaching
  <1>3. InvListings /\ InvTunnel /\ InvGrace
    BY DEF InvListings, InvTunnel, InvGrace, OwnsMonitors
  <1> QED BY <1>1, <1>2, <1>3 DEF IInv

\* What is left of the listings when the first of them has been handled.
LEMMA HandledLeaves ==
  ASSUME TypeOK, buffer # <<>>, Handled
  PROVE  /\ Len(buffer) \in Nat \ {0} /\ Head(buffer) = buffer[1]
         /\ Head(buffer) \subseteq Serials
         /\ buffer' \in Seq(SUBSET Serials) /\ Len(buffer') = Len(buffer) - 1
         /\ \A i \in 1..Len(buffer') : buffer'[i] = buffer[i + 1]
         /\ buffer' = <<>> <=> Len(buffer) = 1
  <1>1. buffer \in Seq(SUBSET Serials)
    BY DEF TypeOK
  <1>2. Len(buffer) \in Nat \ {0} /\ Head(buffer) = buffer[1]
    BY <1>1
  <1>3. /\ Head(buffer) \in SUBSET Serials
        /\ buffer' \in Seq(SUBSET Serials) /\ Len(buffer') = Len(buffer) - 1
        /\ \A i \in 1..Len(buffer') : buffer'[i] = buffer[i + 1]
    BY <1>1, HeadTailProperties DEF Handled
  <1>4. buffer' # <<>> => Len(buffer') \in Nat \ {0}
    BY <1>3, EmptySeq
  <1>5. buffer' = <<>> => Len(buffer') = 0
    OBVIOUS
  <1> QED BY <1>2, <1>3, <1>4, <1>5

\* No listing is lost but the one handled; if none is left, it was the last
\* one and said what there is.
LEMMA HandledKeeps ==
  ASSUME TypeOK, InvListings, buffer # <<>>, Handled, UNCHANGED <<pipe, devices>>
  PROVE  /\ \A s : s \in Head(buffer) /\ Without(s) => Without(s)'
         /\ Head(buffer) = {} /\ SomeHeadset => SomeHeadset'
         /\ deaths = 0 /\ tracker = "up" =>
              /\ pipe' = <<>> /\ buffer' # <<>> => buffer'[Len(buffer')] = devices'
              /\ ~Pending' => Head(buffer) = devices
              /\ \A s : s \in Head(buffer) \ devices => Without(s)'
  <1> USE HandledLeaves
  <1>1. ASSUME NEW i \in 1..Len(buffer), buffer[i] # Head(buffer)
        PROVE  i - 1 \in 1..Len(buffer') /\ buffer'[i - 1] = buffer[i]
    <2>1. i # 1
      BY <1>1
    <2>2. i - 1 \in 1..Len(buffer') /\ (i - 1) + 1 = i
      BY <2>1
    <2> QED BY <2>2
  <1>2. ASSUME NEW s, s \in Head(buffer), Without(s)
        PROVE  Without(s)'
    BY <1>1, <1>2 DEF Without
  <1>3. ASSUME Head(buffer) = {}, SomeHeadset
        PROVE  SomeHeadset'
    BY <1>1, <1>3 DEF SomeHeadset
  <1>4. ASSUME deaths = 0, tracker = "up"
        PROVE  /\ pipe' = <<>> /\ buffer' # <<>> => buffer'[Len(buffer')] = devices'
               /\ ~Pending' => Head(buffer) = devices
    BY <1>4 DEF InvListings, Pending
  <1>5. ASSUME deaths = 0, tracker = "up", NEW s, s \in Head(buffer) \ devices
        PROVE  Without(s)'
    <2>1. CASE pipe # <<>>
      <3>1. Len(pipe) \in 1..Len(pipe) /\ pipe[Len(pipe)] = devices
        BY <1>5, <2>1 DEF InvListings, TypeOK
      <3> QED BY <1>5, <3>1 DEF Without
    <2>2. CASE pipe = <<>>
      <3>1. buffer' # <<>> /\ buffer'[Len(buffer')] = devices
        BY <1>4, <1>5, <2>2 DEF Pending
      <3>2. Len(buffer') \in 1..Len(buffer')
        BY <3>1
      <3> QED BY <1>5, <3>1, <3>2 DEF Without
    <2> QED BY <2>1, <2>2
  <1> QED BY <1>2, <1>3, <1>4, <1>5

\* What adb reverse leaves behind: the tunnel, or a headset that is gone, or a
\* note that it failed.
LEMMA ReverseTyped ==
  ASSUME TypeOK, NEW s, Reverse(s), UNCHANGED devices
  PROVE  /\ tunnels' \subseteq devices' /\ noTunnel' \in BOOLEAN
         /\ s \in devices \ tunnels' => noTunnel'
  <1>1. tunnels' \subseteq devices'
    BY DEF TypeOK, Reverse
  <1>2. noTunnel' \in BOOLEAN
    BY DEF Reverse
  <1>3. s \in devices \ tunnels' => noTunnel'
    BY DEF Reverse
  <1> QED BY <1>1, <1>2, <1>3

\* Every step keeps the types.
LEMMA TypeStep ==
  TypeOK /\ InvLoop /\ [Next]_vars => TypeOK'
  <1> SUFFICES ASSUME TypeOK, InvLoop, [Next]_vars PROVE TypeOK'
    OBVIOUS
  <1> USE WatchAssumption DEF WatchAssumption, TypeOK, Never, world, adb,
     watcher, InvLoop, Attaching
  <1>1. CASE Read
    BY <1>1 DEF Read
  <1>2. CASE StillThere
    BY <1>2, HandledLeaves, HandledKeeps DEF StillThere, CameBack, More, Present
  <1>3. CASE Returned
    <2>1. tunnels' \subseteq devices' /\ noTunnel' \in BOOLEAN
      BY <1>3, ReverseTyped DEF Returned
    <2>2. buffer' \in Seq(SUBSET Serials)
      BY <1>3, HandledLeaves DEF Returned
    <2> QED BY <1>3, <2>1, <2>2 DEF Returned, More
  <1>4. CASE Appeared
    BY <1>4 DEF Appeared, Present
  <1>5. CASE AttachReverse
    <2>1. tunnels' \subseteq devices' /\ noTunnel' \in BOOLEAN
      BY <1>5, ReverseTyped DEF AttachReverse
    <2> QED BY <1>5, <2>1 DEF AttachReverse
  <1>6. CASE AttachStart
    BY <1>6, HandledLeaves, HandledKeeps DEF AttachStart, More, IsActive
  <1>7. CASE Disappeared
    BY <1>7 DEF Disappeared, Handled, More, Present
  <1>8. CASE Check
    BY <1>8 DEF Check, OwnsMonitors, GraceOver
  <1>9. CASE Detach
    <2>1. missing \in 0..Grace /\ missing # Never
      BY <1>9 DEF Detach
    <2>2. service' \in {"inactive", "active", "failed", "refused"} /\ missed' \in BOOLEAN
      BY <1>9 DEF Detach
    <2> QED BY <1>9, <2>1, <2>2 DEF Detach, Detached
  <1>10. CASE TrackerGone
    BY <1>10 DEF TrackerGone
  <1>11. CASE TrackAgain
    BY <1>11 DEF TrackAgain
  <1>12. CASE Plug
    BY <1>12 DEF Plug, Report
  <1>13. CASE Unplug
    BY <1>13 DEF Unplug, Report
  <1>14. CASE Tick
    BY <1>14 DEF Tick, Older
  <1>15. CASE FirstListing
    BY <1>15 DEF FirstListing
  <1>16. CASE TrackerEnds
    BY <1>16 DEF TrackerEnds
  <1>17. CASE ServiceFails
    BY <1>17 DEF ServiceFails
  <1>18. CASE ServiceRestarts
    BY <1>18 DEF ServiceRestarts
  <1>19. CASE Crash
    <2>1. running' \in BOOLEAN /\ missed' \in BOOLEAN
      BY <1>19 DEF Crash, IsActive
    <2>2. noTunnel' = FALSE
      BY <1>19 DEF Crash
    <2>3. noTunnel' \in BOOLEAN
      BY <2>2
    <2> QED BY <1>19, <2>1, <2>3 DEF Crash
  <1>20. CASE UNCHANGED vars
    BY <1>20 DEF vars
  <1> QED BY <1>1, <1>2, <1>3, <1>4, <1>5, <1>6, <1>7, <1>8, <1>9, <1>10,
     <1>11, <1>12, <1>13, <1>14, <1>15, <1>16, <1>17, <1>18, <1>19, <1>20 DEF
     Next, Watch

\* The loop goes from a listing to its commands and to the next.
LEMMA LoopStep ==
  TypeOK /\ InvLoop /\ [Next]_vars => InvLoop'
  <1> SUFFICES ASSUME TypeOK, InvLoop, [Next]_vars PROVE InvLoop'
    OBVIOUS
  <1> USE WatchAssumption DEF WatchAssumption, TypeOK, Never, world, adb,
     watcher, InvLoop, Attaching
  <1>1. CASE Read
    BY <1>1 DEF Read
  <1>2. CASE StillThere
    BY <1>2 DEF StillThere, CameBack, Handled, More, Present
  <1>3. CASE Returned
    BY <1>3 DEF Returned, Reverse, Handled, More
  <1>4. CASE Appeared
    BY <1>4 DEF Appeared, Present
  <1>5. CASE AttachReverse
    BY <1>5 DEF AttachReverse, Reverse
  <1>6. CASE AttachStart
    BY <1>6 DEF AttachStart, Handled, More, IsActive
  <1>7. CASE Disappeared
    BY <1>7 DEF Disappeared, Handled, More, Present
  <1>8. CASE Check
    BY <1>8 DEF Check, OwnsMonitors, GraceOver
  <1>9. CASE Detach
    BY <1>9 DEF Detach, Detached
  <1>10. CASE TrackerGone
    BY <1>10 DEF TrackerGone
  <1>11. CASE TrackAgain
    BY <1>11 DEF TrackAgain
  <1>12. CASE Plug
    BY <1>12 DEF Plug, Report
  <1>13. CASE Unplug
    BY <1>13 DEF Unplug, Report
  <1>14. CASE Tick
    BY <1>14 DEF Tick, Older
  <1>15. CASE FirstListing
    BY <1>15 DEF FirstListing
  <1>16. CASE TrackerEnds
    BY <1>16 DEF TrackerEnds
  <1>17. CASE ServiceFails
    BY <1>17 DEF ServiceFails
  <1>18. CASE ServiceRestarts
    BY <1>18 DEF ServiceRestarts
  <1>19. CASE Crash
    BY <1>19 DEF Crash, IsActive
  <1>20. CASE UNCHANGED vars
    BY <1>20 DEF vars
  <1> QED BY <1>1, <1>2, <1>3, <1>4, <1>5, <1>6, <1>7, <1>8, <1>9, <1>10,
     <1>11, <1>12, <1>13, <1>14, <1>15, <1>16, <1>17, <1>18, <1>19, <1>20 DEF
     Next, Watch

\* A change is listed, and a headset that is listed last is not missing.
LEMMA ListingsStep ==
  TypeOK /\ InvLoop /\ InvListings /\ [Next]_vars => InvListings'
  <1> SUFFICES ASSUME TypeOK, InvLoop, InvListings, [Next]_vars PROVE
     InvListings'
    OBVIOUS
  <1> USE WatchAssumption DEF WatchAssumption, TypeOK, Never, world, adb,
     watcher, InvLoop, Attaching, InvListings, Pending
  <1>1. CASE Read
    BY <1>1 DEF Read
  <1>2. CASE StillThere
    BY <1>2, HandledLeaves, HandledKeeps DEF StillThere, CameBack, More, Present
  <1>3. CASE Returned
    BY <1>3 DEF Returned, Reverse, Handled, More
  <1>4. CASE Appeared
    BY <1>4 DEF Appeared, Present
  <1>5. CASE AttachReverse
    BY <1>5 DEF AttachReverse, Reverse
  <1>6. CASE AttachStart
    BY <1>6 DEF AttachStart, Handled, More, IsActive
  <1>7. CASE Disappeared
    BY <1>7, HandledLeaves, HandledKeeps DEF Disappeared, More, Present
  <1>8. CASE Check
    BY <1>8 DEF Check, OwnsMonitors, GraceOver
  <1>9. CASE Detach
    BY <1>9 DEF Detach, Detached
  <1>10. CASE TrackerGone
    BY <1>10 DEF TrackerGone
  <1>11. CASE TrackAgain
    BY <1>11 DEF TrackAgain
  <1>12. CASE Plug
    BY <1>12 DEF Plug, Report
  <1>13. CASE Unplug
    BY <1>13 DEF Unplug, Report
  <1>14. CASE Tick
    BY <1>14 DEF Tick, Older
  <1>15. CASE FirstListing
    BY <1>15 DEF FirstListing
  <1>16. CASE TrackerEnds
    BY <1>16 DEF TrackerEnds
  <1>17. CASE ServiceFails
    BY <1>17 DEF ServiceFails
  <1>18. CASE ServiceRestarts
    BY <1>18 DEF ServiceRestarts
  <1>19. CASE Crash
    BY <1>19 DEF Crash, IsActive
  <1>20. CASE UNCHANGED vars
    BY <1>20 DEF vars
  <1> QED BY <1>1, <1>2, <1>3, <1>4, <1>5, <1>6, <1>7, <1>8, <1>9, <1>10,
     <1>11, <1>12, <1>13, <1>14, <1>15, <1>16, <1>17, <1>18, <1>19, <1>20 DEF
     Next, Watch

\* A drop is listed before the return, and the return makes the tunnel.
LEMMA TunnelStep ==
  TypeOK /\ InvLoop /\ InvListings /\ InvTunnel /\ [Next]_vars => InvTunnel'
  <1> SUFFICES ASSUME TypeOK, InvLoop, InvListings, InvTunnel, [Next]_vars
     PROVE InvTunnel'
    OBVIOUS
  <1> USE WatchAssumption DEF WatchAssumption, TypeOK, Never, world, adb,
     watcher, InvLoop, Attaching, InvListings, InvTunnel, Pending, Without
  <1>1. CASE Read
    BY <1>1 DEF Read
  <1>2. CASE StillThere
    BY <1>2, HandledLeaves, HandledKeeps DEF StillThere, CameBack, More, Present
  <1>3. CASE Returned
    <2>1. attached \in devices' \ tunnels' => noTunnel'
      BY <1>3, ReverseTyped DEF Returned
    <2>2. deaths = 0 /\ attached \notin devices => Without(attached)'
      BY <1>3, HandledKeeps DEF Returned
    <2> QED BY <1>3, <2>1, <2>2 DEF Returned
  <1>4. CASE Appeared
    BY <1>4 DEF Appeared, Present
  <1>5. CASE AttachReverse
    BY <1>5 DEF AttachReverse, Reverse
  <1>6. CASE AttachStart
    BY <1>6, HandledLeaves, HandledKeeps DEF AttachStart, More, IsActive
  <1>7. CASE Disappeared
    BY <1>7 DEF Disappeared, Handled, More, Present
  <1>8. CASE Check
    BY <1>8 DEF Check, OwnsMonitors, GraceOver
  <1>9. CASE Detach
    BY <1>9 DEF Detach, Detached
  <1>10. CASE TrackerGone
    BY <1>10 DEF TrackerGone
  <1>11. CASE TrackAgain
    BY <1>11 DEF TrackAgain
  <1>12. CASE Plug
    BY <1>12 DEF Plug, Report
  <1>13. CASE Unplug
    BY <1>13 DEF Unplug, Report
  <1>14. CASE Tick
    BY <1>14 DEF Tick, Older
  <1>15. CASE FirstListing
    BY <1>15 DEF FirstListing
  <1>16. CASE TrackerEnds
    BY <1>16 DEF TrackerEnds
  <1>17. CASE ServiceFails
    BY <1>17 DEF ServiceFails
  <1>18. CASE ServiceRestarts
    BY <1>18 DEF ServiceRestarts
  <1>19. CASE Crash
    BY <1>19 DEF Crash, IsActive
  <1>20. CASE UNCHANGED vars
    BY <1>20 DEF vars
  <1> QED BY <1>1, <1>2, <1>3, <1>4, <1>5, <1>6, <1>7, <1>8, <1>9, <1>10,
     <1>11, <1>12, <1>13, <1>14, <1>15, <1>16, <1>17, <1>18, <1>19, <1>20 DEF
     Next, Watch

\* The count starts anew with every headset that is read of.
LEMMA GraceStep ==
  TypeOK /\ InvLoop /\ InvListings /\ InvGrace /\ [Next]_vars => InvGrace'
  <1> SUFFICES ASSUME TypeOK, InvLoop, InvListings, InvGrace, [Next]_vars
     PROVE InvGrace'
    OBVIOUS
  <1> USE WatchAssumption DEF WatchAssumption, TypeOK, Never, world, adb,
     watcher, InvLoop, Attaching, InvListings, InvGrace, OwnsMonitors,
     Pending, SomeHeadset
  <1>1. CASE Read
    BY <1>1 DEF Read
  <1>2. CASE StillThere
    BY <1>2 DEF StillThere, CameBack, Handled, More, Present
  <1>3. CASE Returned
    BY <1>3 DEF Returned, Reverse, Handled, More
  <1>4. CASE Appeared
    BY <1>4 DEF Appeared, Present
  <1>5. CASE AttachReverse
    BY <1>5 DEF AttachReverse, Reverse
  <1>6. CASE AttachStart
    BY <1>6 DEF AttachStart, Handled, More, IsActive
  <1>7. CASE Disappeared
    BY <1>7, HandledLeaves, HandledKeeps DEF Disappeared, More, Present
  <1>8. CASE Check
    BY <1>8 DEF Check, OwnsMonitors, GraceOver
  <1>9. CASE Detach
    BY <1>9 DEF Detach, Detached
  <1>10. CASE TrackerGone
    BY <1>10 DEF TrackerGone
  <1>11. CASE TrackAgain
    BY <1>11 DEF TrackAgain
  <1>12. CASE Plug
    BY <1>12 DEF Plug, Report
  <1>13. CASE Unplug
    BY <1>13 DEF Unplug, Report
  <1>14. CASE Tick
    BY <1>14 DEF Tick, Older
  <1>15. CASE FirstListing
    BY <1>15 DEF FirstListing
  <1>16. CASE TrackerEnds
    BY <1>16 DEF TrackerEnds
  <1>17. CASE ServiceFails
    BY <1>17 DEF ServiceFails
  <1>18. CASE ServiceRestarts
    BY <1>18 DEF ServiceRestarts
  <1>19. CASE Crash
    BY <1>19 DEF Crash, IsActive
  <1>20. CASE UNCHANGED vars
    BY <1>20 DEF vars
  <1> QED BY <1>1, <1>2, <1>3, <1>4, <1>5, <1>6, <1>7, <1>8, <1>9, <1>10,
     <1>11, <1>12, <1>13, <1>14, <1>15, <1>16, <1>17, <1>18, <1>19, <1>20 DEF
     Next, Watch

-----------------------------------------------------------------------------
(* The invariant, and what follows from it.                                *)

\* All of the above holds in every state.
THEOREM Invariant == Spec => []IInv
  <1>1. IInv /\ [Next]_vars => IInv'
    BY TypeStep, LoopStep, ListingsStep, TunnelStep, GraceStep DEF IInv
  <1> QED BY <1>1, InitIInv, PTL DEF Spec

\* Type correctness: monitors without a headset are always being counted out.
THEOREM TypeCorrect == Spec => []TypeOK
  <1>1. IInv => TypeOK
    BY DEF IInv
  <1> QED BY <1>1, Invariant, PTL

\* However often headsets come and go, and whatever commands they interrupt, the
\* one that is served has its tunnel, or the last attempt to make it failed
\* although the headset was there, until a tracker ends.
THEOREM TunnelComesBack == Spec => []TunnelUp
  <1>1. IInv => TunnelUp
    <2> SUFFICES ASSUME IInv, deaths = 0, pc = "select", pipe = <<>>,
                        attached \in devices
                 PROVE  attached \in tunnels \/ noTunnel
      BY DEF TunnelUp, TunnelBack
    <2>1. buffer = <<>>
      BY DEF IInv, InvLoop, Attaching
    <2>2. attached # Nobody
      BY WatchAssumption DEF WatchAssumption, IInv, TypeOK
    <2>3. ~Without(attached) /\ ~Pending
      BY <2>1 DEF Without, Pending
    <2> QED BY <2>2, <2>3 DEF IInv, InvTunnel
  <1> QED BY <1>1, Invariant, PTL

\* Monitors are stopped only after the grace period, whatever its length.
THEOREM StopsOnlyAbsent == Spec => DetachOnlyAbsent
  <1>1. IInv /\ [Next]_vars
          => [Check /\ pc' = "stop" /\ deaths = 0 /\ crashes = 0
                => absent = Grace \/ pipe # <<>>]_vars
    BY WatchAssumption DEF IInv, TypeOK, InvLoop, Attaching, InvGrace, SomeHeadset, Check,
       OwnsMonitors, GraceOver, WatchAssumption, Never
  <1> QED BY <1>1, Invariant, PTL DEF Spec, DetachOnlyAbsent

-----------------------------------------------------------------------------
(* What MonitorsFollow rests on.                                           *)

\* Monitors that run, or that systemd will restart, are the watcher's to stop,
\* unless it could not know of them; and as long as the tracker lives, a watcher
\* that has handled all listings counts when there is no headset.  So what
\* nobody uses is stopped when the count is over, however the watcher, its
\* commands and the service have failed before.
Owned == service \in {"active", "failed"} => OwnsMonitors \/ missed

BeingCounted ==
    /\ Owned
    /\ deaths = 0 /\ tracker = "up" /\ pipe = <<>> /\ pc = "select" /\ devices = {}
         => missing # Never

\* Every step that starts the monitors owns them, every one that gives them up
\* has stopped them or notes that it has not.
LEMMA OwnedStep ==
  TypeOK /\ InvLoop /\ Owned /\ [Next]_vars => Owned'
  <1> SUFFICES ASSUME TypeOK, InvLoop, Owned, [Next]_vars PROVE Owned'
    OBVIOUS
  <1> USE DEF Owned, OwnsMonitors, TypeOK, world, adb, watcher
  <1>1. CASE Read
    BY <1>1 DEF Read
  <1>2. CASE StillThere
    BY <1>2 DEF StillThere, CameBack, Handled, More, Present
  <1>3. CASE Returned
    BY <1>3 DEF Returned, Handled, More
  <1>4. CASE Appeared
    <2>1. Present \subseteq Serials
      BY <1>4, HeadTailProperties DEF Appeared, Present, InvLoop, Attaching
    <2>2. attached' # Nobody
      BY <1>4, <2>1, WatchAssumption DEF Appeared, WatchAssumption
    <2> QED BY <2>2
  <1>5. CASE AttachReverse
    BY <1>5 DEF AttachReverse
  <1>6. CASE AttachStart
    BY <1>6 DEF AttachStart
  <1>7. CASE Disappeared
    BY <1>7 DEF Disappeared
  <1>8. CASE Check
    BY <1>8 DEF Check
  <1>9. CASE Detach
    BY <1>9 DEF Detach, Detached
  <1>10. CASE TrackerGone
    BY <1>10 DEF TrackerGone
  <1>11. CASE TrackAgain
    BY <1>11 DEF TrackAgain
  <1>12. CASE Plug
    BY <1>12 DEF Plug
  <1>13. CASE Unplug
    BY <1>13 DEF Unplug
  <1>14. CASE Tick
    BY <1>14 DEF Tick
  <1>15. CASE FirstListing
    BY <1>15 DEF FirstListing
  <1>16. CASE TrackerEnds
    BY <1>16 DEF TrackerEnds
  <1>17. CASE ServiceFails
    BY <1>17 DEF ServiceFails
  <1>18. CASE ServiceRestarts
    BY <1>18 DEF ServiceRestarts
  <1>19. CASE Crash
    BY <1>19 DEF Crash, IsActive
  <1>20. CASE UNCHANGED vars
    BY <1>20 DEF vars
  <1> QED BY <1>1, <1>2, <1>3, <1>4, <1>5, <1>6, <1>7, <1>8, <1>9, <1>10,
     <1>11, <1>12, <1>13, <1>14, <1>15, <1>16, <1>17, <1>18, <1>19, <1>20 DEF
     Next, Watch

\* No monitors are forgotten: the safety that MonitorsFollow needs.
THEOREM NoneForgotten == Spec => []BeingCounted
  <1>1. Init => Owned
    BY DEF Init, Owned
  <1>2. IInv /\ Owned /\ [Next]_vars => Owned'
    BY OwnedStep DEF IInv
  <1>3. IInv /\ Owned => BeingCounted
    <2> SUFFICES ASSUME IInv, deaths = 0, tracker = "up", pipe = <<>>,
                        pc = "select", devices = {}
                 PROVE  missing # Never
      BY DEF BeingCounted
    <2>1. buffer = <<>>
      BY DEF IInv, InvLoop, Attaching
    <2>2. ~Without(attached)
      BY <2>1 DEF Without
    <2> QED BY <2>2 DEF IInv, TypeOK, InvTunnel
  <1> QED BY <1>1, <1>2, <1>3, Invariant, PTL DEF Spec
=============================================================================
