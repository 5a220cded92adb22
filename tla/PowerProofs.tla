----------------------------- MODULE PowerProofs -----------------------------
(***************************************************************************)
(* Theorems about the power timers and keep awake, for minutes of any      *)
(* length, any number of them and any number of seconds lost.  IInv is the *)
(* inductive invariant: what the count and the clock have to do with each  *)
(* other, and which of page, inhibitor and badge needs which.              *)
(***************************************************************************)
EXTENDS Power, TLAPS

-----------------------------------------------------------------------------
(* The inductive invariant *)

(* The count and the clock agree.                                          *)
Counts == \A t \in running :
    left[t] + elapsed[t] + 1 = asked[t] + late[t] + (IF t \in due THEN 1 ELSE 0)

(* A timer that neither counts nor fires is reset; none is paused.         *)
Rest ==
    /\ paused = {} /\ busy \notin running
    /\ \A t \in Timer : t \in running \/ busy = t \/ (elapsed[t] = 0 /\ late[t] = 0)

(* Only a Power page has an inhibitor, only a running program has a page.  *)
Owned ==
    /\ grant => cookie
    /\ current = "power" => page
    /\ ~page => ~cookie /\ proc = None
    /\ app = "off" => ~page /\ ~badge /\ running = {} /\ busy = None

IInv == TypeOK /\ Counts /\ Rest /\ Owned /\ HoldIsShown

-----------------------------------------------------------------------------
(* Preservation *)

\* A countdown starts with at least one second.
LEMMA Minutes == \A mins \in 1 .. MaxMinutes : mins * Minute \in Nat \ {0}
  <1> SUFFICES ASSUME NEW mins \in 1 .. MaxMinutes PROVE mins * Minute \in Nat \ {0}
    OBVIOUS
  <1>1. mins \in Nat /\ mins > 0 /\ Minute \in Nat /\ Minute > 0
    BY PowerAssumption
  <1> QED
    BY <1>1, SMT

LEMMA InitInv == Init => IInv
  <1> SUFFICES ASSUME Init PROVE IInv
    OBVIOUS
  <1>1. TypeOK
    BY DEF Init, TypeOK, Zero, Timer, Page, None
  <1>2. Counts /\ Rest
    BY DEF Init, Counts, Rest, Zero, Timer
  <1>3. Owned /\ HoldIsShown
    BY DEF Init, Owned, HoldIsShown, BlockedByUs, Holding, None
  <1> QED
    BY <1>1, <1>2, <1>3 DEF IInv

\* The types are preserved.
LEMMA TypeStep ==
    ASSUME IInv, [Next]_vars
    PROVE  TypeOK'
  <1> USE DEF IInv, TypeOK, Rest, Free, Shown, Timer, Page, None, shellVars, timerVars, awakeVars
  <1>1. CASE Launch
    BY <1>1 DEF Launch
  <1>2. CASE HideWindow
    BY <1>2 DEF HideWindow, Hide, KeepAlive
  <1>3. CASE ShowWindow
    BY <1>3 DEF ShowWindow, Showing, ShowBadge, BlockedByUs
  <1>4. CASE ApplySettings
    <2>1. CASE UNCHANGED <<page, timerVars, awakeVars>>
      BY <1>4, <2>1 DEF ApplySettings
    <2>2. CASE DeletePage /\ StopTimers({"power"}) /\ UNCHANGED <<busy, orphan>>
      <3>1. /\ app' \in {"off", "visible", "tray"} /\ minimise' \in BOOLEAN
            /\ current' \in Page /\ page' \in BOOLEAN
            /\ cookie' \in BOOLEAN /\ proc' \in {None, "running", "dead"}
            /\ grant' \in BOOLEAN /\ badge' \in BOOLEAN /\ orphan' \in BOOLEAN
        BY <1>4, <2>2 DEF ApplySettings, DeletePage, Unblock
      <3>2. /\ running' \subseteq Timer /\ due' \subseteq running' /\ paused' \subseteq Timer
            /\ busy' \in Timer \cup {None}
            /\ left' \in [Timer -> Nat] /\ asked' \in [Timer -> Nat]
            /\ elapsed' \in [Timer -> Nat] /\ late' \in [Timer -> Nat]
        BY <2>2 DEF StopTimers
      <3> QED
        BY <3>1, <3>2
    <2> QED
      BY <1>4, <2>1, <2>2 DEF ApplySettings
  <1>5. CASE Quit
    <2>1. CASE app = "visible" /\ minimise
      BY <1>5, <2>1 DEF Quit, Hide, KeepAlive
    <2>2. CASE ~(app = "visible" /\ minimise)
      <3>1. /\ app' \in {"off", "visible", "tray"} /\ minimise' \in BOOLEAN
            /\ current' \in Page /\ page' \in BOOLEAN
            /\ running' \subseteq Timer /\ due' \subseteq running' /\ paused' \subseteq Timer
            /\ busy' \in Timer \cup {None}
            /\ left' \in [Timer -> Nat] /\ asked' \in [Timer -> Nat]
            /\ elapsed' \in [Timer -> Nat] /\ late' \in [Timer -> Nat]
        <4>1. Gone
          BY <1>5, <2>2 DEF Quit
        <4>2. StopTimers(Timer) /\ busy' = None
          BY <4>1 DEF Gone
        <4>3. /\ left' \in [Timer -> Nat] /\ asked' \in [Timer -> Nat]
              /\ elapsed' \in [Timer -> Nat] /\ late' \in [Timer -> Nat]
          BY <4>2 DEF StopTimers
        <4>4. running' \subseteq Timer /\ due' \subseteq running' /\ paused' \subseteq Timer
          BY <4>2 DEF StopTimers
        <4> QED
          BY <4>1, <4>2, <4>3, <4>4 DEF Gone
      <3>2. /\ cookie' \in BOOLEAN /\ proc' \in {None, "running", "dead"}
            /\ grant' \in BOOLEAN /\ badge' \in BOOLEAN /\ orphan' \in BOOLEAN
        BY <1>5, <2>2 DEF Quit, Unblock
      <3> QED
        BY <3>1, <3>2
    <2> QED
      BY <2>1, <2>2
  <1>6. CASE Crash
    BY <1>6 DEF Crash, Gone, StopTimers
  <1>7. CASE \E p \in Page : NavigateTo(p)
    BY <1>7 DEF NavigateTo, Showing, ShowBadge, BlockedByUs
  <1>8. CASE \E t \in Timer, mins \in 1 .. MaxMinutes : StartTimer(t, mins)
    BY <1>8, Minutes DEF StartTimer
  <1>9. CASE \E t \in Timer : CancelTimer(t)
    BY <1>9 DEF CancelTimer, StopTimers
  <1>10. CASE \E t \in Timer : Tick(t)
    BY <1>10 DEF Tick
  <1>11. CASE \E t \in Timer : Fire(t)
    BY <1>11 DEF Fire
  <1>12. CASE Second
    BY <1>12 DEF Second
  <1>13. CASE PerformReturns
    BY <1>13 DEF PerformReturns, StopTimers
  <1>14. CASE PowerOff
    BY <1>14 DEF PowerOff, Gone, StopTimers
  <1>15. CASE ToggleSleepBlock
    BY <1>15 DEF ToggleSleepBlock, Block, Unblock, BlockedByUs
  <1>16. CASE Refresh
    BY <1>16 DEF Refresh, ShowBadge, BlockedByUs
  <1>17. CASE ServiceEnds
    BY <1>17 DEF ServiceEnds
  <1>18. CASE InhibitorDies
    BY <1>18 DEF InhibitorDies
  <1>19. CASE OrphanDies
    BY <1>19 DEF OrphanDies
  <1>20. CASE UNCHANGED vars
    BY <1>20 DEF vars
  <1> QED
    BY <1>1, <1>2, <1>3, <1>4, <1>5, <1>6, <1>7, <1>8, <1>9, <1>10, <1>11, <1>12, <1>13, <1>14, <1>15, <1>16, <1>17, <1>18, <1>19, <1>20 DEF Next

\* Every second and every tick is accounted for; a reset timer stays so.
LEMMA CountStep ==
    ASSUME IInv, [Next]_vars
    PROVE  Counts' /\ Rest'
  <1> USE DEF IInv, TypeOK, Counts, Rest, Owned, Free, Shown, Timer, Page, None,
              shellVars, timerVars, awakeVars
  <1>1. CASE Launch
    BY <1>1 DEF Launch
  <1>2. CASE HideWindow
    BY <1>2 DEF HideWindow, Hide, KeepAlive
  <1>3. CASE ShowWindow
    BY <1>3 DEF ShowWindow, Showing, ShowBadge, BlockedByUs
  <1>4. CASE ApplySettings
    BY <1>4 DEF ApplySettings, DeletePage, StopTimers, Unblock
  <1>5. CASE Quit
    BY <1>5 DEF Quit, Hide, KeepAlive, Gone, StopTimers, Unblock
  <1>6. CASE Crash
    BY <1>6 DEF Crash, Gone, StopTimers
  <1>7. CASE \E p \in Page : NavigateTo(p)
    BY <1>7 DEF NavigateTo, Showing, ShowBadge, BlockedByUs
  <1>8. CASE \E t \in Timer, mins \in 1 .. MaxMinutes : StartTimer(t, mins)
    BY <1>8, Minutes DEF StartTimer
  <1>9. CASE \E t \in Timer : CancelTimer(t)
    BY <1>9 DEF CancelTimer, StopTimers
  <1>10. CASE \E t \in Timer : Tick(t)
    BY <1>10 DEF Tick
  <1>11. CASE \E t \in Timer : Fire(t)
    BY <1>11 DEF Fire
  <1>12. CASE Second
    BY <1>12 DEF Second
  <1>13. CASE PerformReturns
    BY <1>13 DEF PerformReturns, StopTimers
  <1>14. CASE PowerOff
    BY <1>14 DEF PowerOff, Gone, StopTimers
  <1>15. CASE ToggleSleepBlock
    BY <1>15 DEF ToggleSleepBlock, Block, Unblock, BlockedByUs
  <1>16. CASE Refresh
    BY <1>16 DEF Refresh, ShowBadge, BlockedByUs
  <1>17. CASE ServiceEnds
    BY <1>17 DEF ServiceEnds
  <1>18. CASE InhibitorDies
    BY <1>18 DEF InhibitorDies
  <1>19. CASE OrphanDies
    BY <1>19 DEF OrphanDies
  <1>20. CASE UNCHANGED vars
    BY <1>20 DEF vars
  <1> QED
    BY <1>1, <1>2, <1>3, <1>4, <1>5, <1>6, <1>7, <1>8, <1>9, <1>10, <1>11, <1>12, <1>13, <1>14, <1>15, <1>16, <1>17, <1>18, <1>19, <1>20 DEF Next

\* The page, the inhibitor and the badge.
LEMMA AwakeStep ==
    ASSUME IInv, [Next]_vars
    PROVE  Owned' /\ HoldIsShown'
  <1> USE DEF IInv, TypeOK, Rest, Owned, HoldIsShown, Free, Shown, BlockedByUs, Holding, None,
              shellVars, timerVars, awakeVars
  <1>1. CASE Launch
    BY <1>1 DEF Launch
  <1>2. CASE HideWindow
    BY <1>2 DEF HideWindow, Hide, KeepAlive
  <1>3. CASE ShowWindow
    BY <1>3 DEF ShowWindow, Showing, ShowBadge, BlockedByUs
  <1>4. CASE ApplySettings
    <2>1. CASE UNCHANGED <<page, timerVars, awakeVars>>
      BY <1>4, <2>1 DEF ApplySettings
    <2>2. CASE DeletePage /\ StopTimers({"power"}) /\ UNCHANGED <<busy, orphan>>
      <3>1. /\ page' = FALSE /\ app' = app /\ app # "off" /\ current' = "settings"
            /\ ~cookie' /\ ~grant' /\ proc' = None /\ ~badge'
        BY <1>4, <2>2 DEF ApplySettings, DeletePage, Unblock
      <3> QED
        BY <3>1
    <2> QED
      BY <1>4, <2>1, <2>2 DEF ApplySettings
  <1>5. CASE Quit
    BY <1>5 DEF Quit, Hide, KeepAlive, Gone, StopTimers, Unblock
  <1>6. CASE Crash
    BY <1>6 DEF Crash, Gone, StopTimers
  <1>7. CASE \E p \in Page : NavigateTo(p)
    <2> PICK p \in Page : NavigateTo(p)
      BY <1>7
    <2>1. /\ app' = app /\ app # "off" /\ page' = (page \/ p = "power") /\ current' = p
          /\ cookie' = cookie /\ proc' = proc /\ grant' = grant
          /\ running' = running /\ busy' = busy
      BY DEF NavigateTo
    <2>2. CASE p = "power"
      <3>1. badge' = BlockedByUs
        BY <2>2 DEF NavigateTo, Showing, ShowBadge
      <3> QED
        BY <2>1, <2>2, <3>1
    <2>3. CASE p # "power"
      <3>1. badge' = badge
        BY <2>3 DEF NavigateTo, Showing
      <3> QED
        BY <2>1, <2>3, <3>1
    <2> QED
      BY <2>2, <2>3
  <1>8. CASE \E t \in Timer, mins \in 1 .. MaxMinutes : StartTimer(t, mins)
    BY <1>8, Minutes DEF StartTimer
  <1>9. CASE \E t \in Timer : CancelTimer(t)
    BY <1>9 DEF CancelTimer, StopTimers
  <1>10. CASE \E t \in Timer : Tick(t)
    BY <1>10 DEF Tick
  <1>11. CASE \E t \in Timer : Fire(t)
    BY <1>11 DEF Fire
  <1>12. CASE Second
    BY <1>12 DEF Second
  <1>13. CASE PerformReturns
    BY <1>13 DEF PerformReturns, StopTimers
  <1>14. CASE PowerOff
    BY <1>14 DEF PowerOff, Gone, StopTimers
  <1>15. CASE ToggleSleepBlock
    <2>1. page /\ app' # "off" /\ page' = page /\ (badge' <=> cookie' \/ proc' = "running")
      BY <1>15 DEF ToggleSleepBlock, Owned
    <2>2. CASE BlockedByUs
      BY <1>15, <2>1, <2>2 DEF ToggleSleepBlock, Unblock
    <2>3. CASE ~BlockedByUs
      BY <1>15, <2>1, <2>3 DEF ToggleSleepBlock, Block
    <2> QED
      BY <2>2, <2>3
  <1>16. CASE Refresh
    BY <1>16 DEF Refresh, ShowBadge, BlockedByUs
  <1>17. CASE ServiceEnds
    BY <1>17 DEF ServiceEnds
  <1>18. CASE InhibitorDies
    BY <1>18 DEF InhibitorDies
  <1>19. CASE OrphanDies
    BY <1>19 DEF OrphanDies
  <1>20. CASE UNCHANGED vars
    BY <1>20 DEF vars
  <1> QED
    BY <1>1, <1>2, <1>3, <1>4, <1>5, <1>6, <1>7, <1>8, <1>9, <1>10, <1>11, <1>12, <1>13, <1>14, <1>15, <1>16, <1>17, <1>18, <1>19, <1>20 DEF Next

THEOREM Invariance == Spec => []IInv
  <1>1. IInv /\ [Next]_vars => IInv'
    BY TypeStep, CountStep, AwakeStep DEF IInv
  <1> QED
    BY InitInv, <1>1, PTL DEF Spec

-----------------------------------------------------------------------------
(* What follows *)

(* Every variable keeps its type. *)
THEOREM TypeCorrect == Spec => []TypeOK
  <1>1. IInv => TypeOK
    BY DEF IInv
  <1> QED
    BY Invariance, <1>1, PTL

(* Nothing keeps the machine awake for the program that its page cannot release and *)
(* the tray does not show.                                                   *)
THEOREM HoldShown == Spec => []HoldIsShown
  <1>1. IInv => HoldIsShown
    BY DEF IInv
  <1> QED
    BY Invariance, <1>1, PTL

(* A scheduled action starts on its second, but for the seconds lost to a    *)
(* blocked GUI thread: an action property, from Counts in the state it leaves. *)
THEOREM OnTime == Spec => FiresOnTime
  <1>1. ASSUME IInv, [Next]_vars
        PROVE  \A t \in Timer : busy # t /\ busy' = t => elapsed[t] = asked[t] + late[t]
    <2> SUFFICES ASSUME NEW t \in Timer, busy # t, busy' = t
                 PROVE  elapsed[t] = asked[t] + late[t]
      OBVIOUS
    <2>0. None \notin Timer
      BY DEF None, Timer
    <2>1. Fire(t)
      BY <1>1, <2>0 DEF Next, vars, shellVars, timerVars, awakeVars, Launch, HideWindow, ShowWindow, ApplySettings, Quit, Crash, NavigateTo, StartTimer, CancelTimer, Tick, Fire, Second, PerformReturns, PowerOff, ToggleSleepBlock, Refresh, ServiceEnds, InhibitorDies, OrphanDies, Hide, Gone, StopTimers
    <2>2. t \in running /\ t \in due /\ left[t] = 0
      BY <1>1, <2>1 DEF Fire, IInv, TypeOK
    <2> QED
      BY <1>1, <2>2 DEF IInv, Counts, TypeOK
  <1> QED
    BY Invariance, <1>1, PTL DEF Spec, FiresOnTime

(* A program that ends in order gives back what its page's inhibitor holds.  *)
THEOREM ReleasedOnQuit == Spec => QuitReleases
  <1>1. ASSUME IInv, Quit, app' = "off"
        PROVE  ~Holding' /\ ~badge' /\ orphan' = orphan
    <2>1. ~(app = "visible" /\ minimise)
      BY <1>1 DEF Quit, Hide
    <2>2. badge' = FALSE /\ orphan' = orphan
      BY <1>1, <2>1 DEF Quit
    <2>3. CASE page
      BY <1>1, <2>1, <2>2, <2>3 DEF Quit, Unblock, Holding, IInv, Owned, None
    <2>4. CASE ~page
      BY <1>1, <2>1, <2>2, <2>4 DEF Quit, Holding, IInv, Owned, None
    <2> QED
      BY <2>3, <2>4
  <1>2. IInv => (Quit /\ app' = "off" => ~Holding' /\ ~badge' /\ orphan' = orphan)
    BY <1>1
  <1> QED
    BY Invariance, <1>2, PTL DEF Spec, QuitReleases

(* No countdown ends silently, but for the language switch that deletes the  *)
(* Power page.                                                               *)
THEOREM CountdownsAccounted == Spec => EndsForAReason
  <1>1. ASSUME IInv, [Next]_vars, NEW t \in running, t \notin running'
        PROVE  \/ busy' = t \/ app' = "off"
               \/ Shown(t) /\ UNCHANGED page
               \/ t = "power" /\ ~page'
    <2> USE DEF IInv, TypeOK, Rest, Shown, Timer, None, shellVars, timerVars, awakeVars
    <2>1. CASE Launch
      BY <1>1, <2>1 DEF Launch
    <2>2. CASE HideWindow
      BY <1>1, <2>2 DEF HideWindow, Hide, KeepAlive
    <2>3. CASE ShowWindow
      BY <1>1, <2>3 DEF ShowWindow
    <2>4. CASE ApplySettings
      BY <1>1, <2>4 DEF ApplySettings, StopTimers, DeletePage
    <2>5. CASE Quit
      BY <1>1, <2>5 DEF Quit, Hide, KeepAlive, Gone
    <2>6. CASE Crash
      BY <1>1, <2>6 DEF Crash, Gone
    <2>7. CASE \E p \in Page : NavigateTo(p)
      BY <1>1, <2>7 DEF NavigateTo
    <2>8. CASE \E u \in Timer, mins \in 1 .. MaxMinutes : StartTimer(u, mins)
      BY <1>1, <2>8 DEF StartTimer
    <2>9. CASE \E u \in Timer : CancelTimer(u)
      BY <1>1, <2>9 DEF CancelTimer, StopTimers
    <2>10. CASE \E u \in Timer : Tick(u)
      BY <1>1, <2>10 DEF Tick
    <2>11. CASE \E u \in Timer : Fire(u)
      BY <1>1, <2>11 DEF Fire
    <2>12. CASE Second
      BY <1>1, <2>12 DEF Second
    <2>13. CASE PerformReturns
      BY <1>1, <2>13 DEF PerformReturns, StopTimers
    <2>14. CASE PowerOff
      BY <1>1, <2>14 DEF PowerOff, Gone
    <2>15. CASE ToggleSleepBlock
      BY <1>1, <2>15 DEF ToggleSleepBlock
    <2>16. CASE Refresh
      BY <1>1, <2>16 DEF Refresh
    <2>17. CASE ServiceEnds
      BY <1>1, <2>17 DEF ServiceEnds
    <2>18. CASE InhibitorDies
      BY <1>1, <2>18 DEF InhibitorDies
    <2>19. CASE OrphanDies
      BY <1>1, <2>19 DEF OrphanDies
    <2>20. CASE UNCHANGED vars
      BY <1>1, <2>20 DEF vars
    <2> QED
      BY <1>1, <2>1, <2>2, <2>3, <2>4, <2>5, <2>6, <2>7, <2>8, <2>9, <2>10, <2>11, <2>12, <2>13, <2>14, <2>15, <2>16, <2>17, <2>18, <2>19, <2>20 DEF Next
  <1>2. IInv /\ [Next]_vars =>
          \A t \in running : t \notin running' =>
             \/ busy' = t \/ app' = "off"
             \/ Shown(t) /\ UNCHANGED page
             \/ t = "power" /\ ~page'
    BY <1>1
  <1> QED
    BY Invariance, <1>2, PTL DEF Spec, EndsForAReason

-----------------------------------------------------------------------------
(* Liveness *)

(* ENABLED is beyond the provers: that these guards are all it takes stays a *)
(* hypothesis.  (The other conjuncts of the actions assign each variable     *)
(* once, and one of them to another value.)                                  *)
GuardsTell ==
    /\ running # {} /\ due = {} => ENABLED <<Second>>_vars
    /\ busy # None => ENABLED <<PerformReturns>>_vars
    /\ \A t \in Timer : Free /\ t \in due =>
         IF left[t] > 0 THEN ENABLED <<Tick(t)>>_vars ELSE ENABLED <<Fire(t)>>_vars
    /\ Free /\ Shown("power") /\ badge # BlockedByUs => ENABLED <<Refresh>>_vars

(* The GUI thread is free again and again.                                   *)
LEMMA PerformEnds ==
    FairSpec /\ []GuardsTell => (busy # None ~> busy = None)
  <1>1. GuardsTell => (busy # None => ENABLED <<PerformReturns>>_vars)
    BY DEF GuardsTell
  <1>2. <<PerformReturns>>_vars => (busy = None)'
    BY DEF PerformReturns
  <1>3. busy # None <=> ~(busy = None)
    OBVIOUS
  <1>4. FairSpec => Spec /\ WF_vars(PerformReturns)
    BY PTL DEF FairSpec, Fairness
  <1> QED
    BY <1>1, <1>2, <1>3, <1>4, PTL DEF Spec

(* The page in view finds out that its inhibitor died, if refreshState()     *)
(* runs and perform() comes back (FairSpec).                                 *)
THEOREM BadgeIsCorrected == FairSpec /\ []GuardsTell => BadgeCatchesUp
  <1> DEFINE Lags == badge # BlockedByUs /\ Shown("power")
  <1>1. GuardsTell /\ Lags /\ busy = None => ENABLED <<Refresh>>_vars
    BY DEF GuardsTell, Free, Shown
  <1>2. <<Refresh>>_vars => ~Lags'
    BY DEF Refresh, ShowBadge, BlockedByUs
  <1>3. FairSpec => SF_vars(Refresh)
    BY PTL DEF FairSpec, Fairness
  <1>4. busy # None <=> ~(busy = None)
    OBVIOUS
  <1>5. badge /\ ~BlockedByUs /\ Shown("power") => Lags
    BY DEF BlockedByUs
  <1>6. ~Lags => badge = BlockedByUs \/ ~Shown("power")
    OBVIOUS
  <1> HIDE DEF Lags
  <1>7. FairSpec /\ []GuardsTell => (Lags ~> ~Lags)
    BY <1>1, <1>2, <1>3, <1>4, PerformEnds, PTL DEF FairSpec
  <1> QED
    BY <1>5, <1>6, <1>7, PTL DEF BadgeCatchesUp

(* A timeout that waits keeps waiting until it is served or its timer is     *)
(* stopped, the count changes only by a tick, and only the clock makes a     *)
(* timeout wait.                                                             *)
LEMMA CountdownStep ==
    ASSUME IInv, [Next]_vars, NEW t \in running
    PROVE  /\ \/ t \notin running'
              \/ left'[t] = left[t] /\ (t \in due => t \in due')
              \/ t \in due /\ left[t] > 0 /\ left'[t] = left[t] - 1
           /\ \/ \A u \in Timer : u \in due' => u \in due
              \/ t \in due'
  <1> USE DEF IInv, TypeOK, Rest, Timer, None, shellVars, timerVars, awakeVars
  <1>1. CASE Launch \/ HideWindow \/ ShowWindow
    BY <1>1 DEF Launch, HideWindow, Hide, KeepAlive, ShowWindow
  <1>2. CASE ApplySettings
    BY <1>2 DEF ApplySettings, StopTimers, DeletePage
  <1>3. CASE Quit
    BY <1>3 DEF Quit, Hide, KeepAlive, Gone, StopTimers
  <1>4. CASE Crash \/ PowerOff
    BY <1>4 DEF Crash, PowerOff, Gone, StopTimers
  <1>5. CASE \E p \in Page : NavigateTo(p)
    BY <1>5 DEF NavigateTo
  <1>6. CASE \E u \in Timer, mins \in 1 .. MaxMinutes : StartTimer(u, mins)
    BY <1>6 DEF StartTimer
  <1>7. CASE \E u \in Timer : CancelTimer(u)
    BY <1>7 DEF CancelTimer, StopTimers
  <1>8. CASE \E u \in Timer : Tick(u)
    BY <1>8 DEF Tick
  <1>9. CASE \E u \in Timer : Fire(u)
    BY <1>9 DEF Fire
  <1>10. CASE Second
    BY <1>10 DEF Second
  <1>11. CASE PerformReturns
    BY <1>11 DEF PerformReturns, StopTimers
  <1>12. CASE ToggleSleepBlock \/ Refresh \/ ServiceEnds \/ InhibitorDies \/ OrphanDies
    BY <1>12 DEF ToggleSleepBlock, Refresh, ServiceEnds, InhibitorDies, OrphanDies
  <1>13. CASE UNCHANGED vars
    BY <1>13 DEF vars
  <1> QED
    BY <1>1, <1>2, <1>3, <1>4, <1>5, <1>6, <1>7, <1>8, <1>9, <1>10, <1>11, <1>12, <1>13
       DEF Next

(* A timeout that waits is served, or its timer stopped.                     *)
Attended(t) == t \in due ~> t \notin due

LEMMA TimeoutsServed ==
    ASSUME NEW t \in Timer
    PROVE  FairSpec /\ []GuardsTell => Attended(t)
  <1> DEFINE More == left[t] > 0
  <1>1. IInv /\ t \in due /\ busy = None => Free
    BY DEF IInv, TypeOK, Owned, Free
  <1>2. GuardsTell /\ Free /\ t \in due =>
          (More => ENABLED <<Tick(t)>>_vars) /\ (~More => ENABLED <<Fire(t)>>_vars)
    BY DEF GuardsTell
  <1>3. (<<Tick(t)>>_vars => ~(t \in due)') /\ (<<Fire(t)>>_vars => ~(t \in due)')
    BY DEF Tick, Fire
  <1>4. FairSpec => Served(t)
    <2>1. FairSpec => TimersServed
      BY PTL DEF FairSpec, Fairness
    <2>2. TimersServed => Served(t)
      BY DEF TimersServed
    <2> QED
      BY <2>1, <2>2
  <1>5. Served(t) => SF_vars(Tick(t)) /\ SF_vars(Fire(t))
    BY PTL DEF Served
  <1>6. busy # None <=> ~(busy = None)
    OBVIOUS
  <1>7. t \notin due <=> ~(t \in due)
    OBVIOUS
  <1>8. FairSpec => []IInv
    BY Invariance, PTL DEF FairSpec
  <1> HIDE DEF More
  <1>9. FairSpec /\ []GuardsTell => []<>(busy = None)
    BY <1>6, PerformEnds, PTL
  <1>10. FairSpec => SF_vars(Tick(t)) /\ SF_vars(Fire(t))
    BY <1>4, <1>5, PTL
  <1>11. []IInv /\ []GuardsTell /\ []<>(busy = None) =>
           ([](t \in due) => []<>ENABLED <<Tick(t)>>_vars \/ []<>ENABLED <<Fire(t)>>_vars)
    BY <1>1, <1>2, PTL
  <1>12. SF_vars(Tick(t)) /\ SF_vars(Fire(t))
           /\ ([](t \in due) => []<>ENABLED <<Tick(t)>>_vars \/ []<>ENABLED <<Fire(t)>>_vars)
           => ([](t \in due) => <>~(t \in due))
    BY <1>3, PTL
  <1>13. FairSpec /\ []GuardsTell => (t \in due ~> ~(t \in due))
    BY <1>8, <1>9, <1>10, <1>11, <1>12, PTL
  <1> QED
    BY <1>7, <1>13, PTL DEF Attended

(* A countdown that runs has its next timeout: the clock is not kept from    *)
(* waking it, not even by a timeout of the other timer that still waits.     *)
LEMMA TimeoutComes ==
    ASSUME NEW t \in Timer
    PROVE  FairSpec /\ []GuardsTell => (t \in running ~> t \notin running \/ t \in due)
  <1>1. PICK u \in Timer : Timer = {t, u}
    BY DEF Timer
  <1> DEFINE Idle == t \in running /\ ~(t \in due)
  <1>2. IInv /\ [Next]_vars /\ Idle /\ Idle' /\ ~(u \in due) => ~(u \in due)'
    BY CountdownStep
  <1>3. Idle /\ <<Second>>_vars => ~Idle'
    BY DEF Second, timerVars, shellVars, awakeVars
  <1>4. GuardsTell /\ IInv /\ Idle /\ ~(u \in due) => ENABLED <<Second>>_vars
    <2>1. IInv /\ Idle /\ ~(u \in due) => running # {} /\ due = {}
      BY <1>1 DEF IInv, TypeOK
    <2> QED
      BY <2>1 DEF GuardsTell
  <1>5. FairSpec /\ []GuardsTell => (u \in due ~> ~(u \in due))
    <2>1. FairSpec /\ []GuardsTell => Attended(u)
      BY TimeoutsServed
    <2>2. u \notin due <=> ~(u \in due)
      OBVIOUS
    <2> QED
      BY <2>1, <2>2, PTL DEF Attended
  <1>6. FairSpec => Spec /\ WF_vars(Second)
    BY PTL DEF FairSpec, Fairness
  <1>7. (t \in running => Idle \/ t \in due) /\ (~Idle => t \notin running \/ t \in due)
    OBVIOUS
  <1> HIDE DEF Idle
  <1>8. FairSpec /\ []GuardsTell => (Idle ~> ~Idle)
    <2>1. Spec => []IInv /\ [][Next]_vars
      BY Invariance, PTL DEF Spec
    <2>2. []IInv /\ [][Next]_vars => ([]Idle /\ <>~(u \in due) => <>[]~(u \in due))
      BY <1>2, PTL
    <2>3. WF_vars(Second) /\ []IInv /\ []GuardsTell => ([]Idle /\ <>[]~(u \in due) => FALSE)
      BY <1>3, <1>4, PTL
    <2> QED
      BY <1>5, <1>6, <2>1, <2>2, <2>3, PTL
  <1> QED
    BY <1>7, <1>8, PTL

(* The step of the induction by which a countdown ends: from n + 1 seconds   *)
(* left it comes to n, from none to its end, or it is stopped before, if the *)
(* clock goes on, waiting timeouts are served and perform() comes back       *)
(* (FairSpec).  The induction over n is beyond the provers.                  *)
THEOREM CountdownAdvances ==
    ASSUME NEW t \in Timer, NEW n \in Nat
    PROVE  FairSpec /\ []GuardsTell =>
             /\ t \in running /\ left[t] = n + 1 ~> t \notin running \/ left[t] = n
             /\ t \in running /\ left[t] = 0 ~> t \notin running
  <1> DEFINE R == t \in running
             D == t \in due
             More == left[t] = n + 1
             Less == left[t] = n
             Zeroed == left[t] = 0
  <1>1. IInv /\ [Next]_vars /\ R /\ More => ~R' \/ Less' \/ (More' /\ (D => D'))
    BY CountdownStep DEF IInv, TypeOK
  <1>2. IInv /\ [Next]_vars /\ R /\ Zeroed => ~R' \/ (Zeroed' /\ (D => D'))
    BY CountdownStep DEF IInv, TypeOK
  <1>3. FairSpec /\ []GuardsTell => (R ~> ~R \/ D)
    <2>1. t \notin running <=> ~R
      OBVIOUS
    <2> QED
      BY <2>1, TimeoutComes, PTL
  <1>4. FairSpec /\ []GuardsTell => (D ~> ~D)
    <2>1. FairSpec /\ []GuardsTell => Attended(t)
      BY TimeoutsServed
    <2>2. t \notin due <=> ~D
      OBVIOUS
    <2> QED
      BY <2>1, <2>2, PTL DEF Attended
  <1>5. FairSpec => []IInv /\ [][Next]_vars
    BY Invariance, PTL DEF FairSpec, Spec
  <1>6. t \notin running <=> ~R
    OBVIOUS
  <1> HIDE DEF R, D, More, Less, Zeroed
  <1>7. FairSpec /\ []GuardsTell => (R /\ More ~> ~R \/ Less)
    BY <1>1, <1>3, <1>4, <1>5, PTL
  <1>8. FairSpec /\ []GuardsTell => (R /\ Zeroed ~> ~R)
    BY <1>2, <1>3, <1>4, <1>5, PTL
  <1> QED
    BY <1>6, <1>7, <1>8, PTL DEF R, More, Less, Zeroed

=============================================================================
