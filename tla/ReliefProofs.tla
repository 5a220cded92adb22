----------------------------- MODULE ReliefProofs -----------------------------
(***************************************************************************)
(* Theorems about System Relief, for every set of processes and every      *)
(* hold.  IInv is the inductive invariant: the invariants TLC checks and   *)
(* what they rest on.  Its three groups are preserved separately, each by  *)
(* a lemma with one case per action or per group of actions that touch the *)
(* same variables.                                                         *)
(***************************************************************************)
EXTENDS Relief, TLAPS

-----------------------------------------------------------------------------
(* The inductive invariant *)

\* The running counter is at least half of the seconds counted: a tick is worth
\* two seconds at most.
ClockBound == clock <= 2 * (over + under)

Counters == CountersFresh /\ ClockBound

\* The window and the page exist only while the program runs, and a page that
\* does not exist holds nothing and is in the middle of nothing.
Structure ==
    /\ win \/ cur \/ page => app
    /\ cur => page
    /\ ~page => listed = {} /\ suspended = {} /\ scanned = {} /\ ~keepAlive /\ ~wasActive
    /\ ~app => doomed = {}

\* A timer that App::hideEvent paused belongs to the current page of a hidden
\* window, and that page's own showEvent restarts it.
PausedIsCurrent == wasActive => cur /\ ~win

Windows == Structure /\ PausedIsCurrent /\ WatchdogAlive /\ IdleCostsNothing

\* Only processes of this user are ever stopped.
StoppedOwn == \A p \in Pid : stop[p] # "no" => kind[p] \in OwnKind

\* A replaced page never overlaps a freeze by the page that replaced it, and a
\* scan names nothing that is in m_suspended already.
NoOverlap ==
    /\ doomed # {} => suspended = {} /\ scanned = {}
    /\ scanned \cap suspended = {}

Frozen == StoppedOwn /\ NoOverlap /\ FrozenTracked /\ LostUnreachable

IInv == TypeOK /\ Counters /\ Windows /\ Frozen

-----------------------------------------------------------------------------
(* Preservation *)

\* A page that does not exist has values of the right types.
LEMMA NoPageType ==
    ASSUME NoPage
    PROVE  /\ listed' \in SUBSET Pid /\ checked' \in SUBSET listed'
           /\ suspended' \in SUBSET Pid
           /\ page' \in BOOLEAN /\ ticking' \in BOOLEAN
           /\ keepAlive' \in BOOLEAN /\ wasActive' \in BOOLEAN
           /\ over' \in 0 .. Hold - 1 /\ under' \in 0 .. Hold - 1
           /\ clock' \in 0 .. 2 * (Hold - 1)
  <1>1. listed' = {} /\ checked' = {} /\ suspended' = {}
    BY DEF NoPage
  <1>2. listed' \in SUBSET Pid /\ checked' \in SUBSET listed' /\ suspended' \in SUBSET Pid
    BY <1>1
  <1>3. /\ page' \in BOOLEAN /\ ticking' \in BOOLEAN
        /\ keepAlive' \in BOOLEAN /\ wasActive' \in BOOLEAN
    BY DEF NoPage
  <1>4. /\ over' \in 0 .. Hold - 1 /\ under' \in 0 .. Hold - 1
        /\ clock' \in 0 .. 2 * (Hold - 1)
    BY HoldAssumption DEF NoPage, ResetCounters
  <1> QED
    BY <1>2, <1>3, <1>4

\* So has a page just built.
LEMMA NewPageType ==
    ASSUME NewPage, TypeOK
    PROVE  /\ listed' \in SUBSET Pid /\ checked' \in SUBSET listed'
           /\ suspended' \in SUBSET Pid
           /\ page' \in BOOLEAN /\ ticking' \in BOOLEAN
           /\ keepAlive' \in BOOLEAN /\ wasActive' \in BOOLEAN
           /\ over' \in 0 .. Hold - 1 /\ under' \in 0 .. Hold - 1
           /\ clock' \in 0 .. 2 * (Hold - 1)
  <1>1. listed' \in SUBSET Pid /\ checked' \in SUBSET listed' /\ suspended' \in SUBSET Pid
    BY DEF NewPage, RefreshCandidates, Candidates, Ticks
  <1>2. /\ page' \in BOOLEAN /\ ticking' \in BOOLEAN
        /\ keepAlive' \in BOOLEAN /\ wasActive' \in BOOLEAN
    BY DEF NewPage, ApplyMonitorCadence, TypeOK
  <1>3. /\ over' \in 0 .. Hold - 1 /\ under' \in 0 .. Hold - 1
        /\ clock' \in 0 .. 2 * (Hold - 1)
    BY HoldAssumption DEF NewPage, ResetCounters
  <1> QED
    BY <1>1, <1>2, <1>3

\* Every step preserves the types and the ranges of the counters.
LEMMA TypeStep ==
    ASSUME IInv, [Next]_vars
    PROVE  TypeOK'
  <1> USE HoldAssumption
  <1>1. CASE Launch
    BY <1>1, NoPageType, NewPageType DEF IInv, TypeOK, Launch, Kind, Stopper,
                                         kernelVars, OwnKind
  <1>2. CASE Quit
    BY <1>2, NoPageType DEF IInv, TypeOK, Quit, Kind, Stopper, Ready,
                            Continued, OwnKind
  <1>3. CASE Die
    BY <1>3, NoPageType DEF IInv, TypeOK, Die, Kind, Stopper, OwnKind
  <1>4. CASE ChangeLanguage
    BY <1>4, NoPageType, NewPageType DEF IInv, TypeOK, ChangeLanguage, Kind,
                                         Stopper, Ready, kernelVars,
                                         windowVars, OwnKind
  <1>5. CASE OpenRelief
    BY <1>5 DEF IInv, TypeOK, OpenRelief, Kind, Stopper, Ready,
                RefreshCandidates, ApplyMonitorCadence, kernelVars, countVars,
                OwnKind, Candidates, Ticks, Eligible
  <1>6. CASE LeaveRelief
    BY <1>6 DEF IInv, TypeOK, LeaveRelief, Kind, Stopper, Ready,
                ApplyMonitorCadence, kernelVars, tableVars, countVars, OwnKind
  <1>7. CASE HideWindow
    BY <1>7 DEF IInv, TypeOK, HideWindow, Kind, Stopper, Ready, Paused,
                ApplyMonitorCadence, kernelVars, tableVars, countVars, OwnKind
  <1>8. CASE ShowWindow
    BY <1>8 DEF IInv, TypeOK, ShowWindow, Kind, Stopper, Ready,
                RefreshCandidates, ApplyMonitorCadence, tableVars, kernelVars,
                countVars, OwnKind, Candidates, Ticks, Eligible
  <1>9. CASE DeleteOldPage
    BY <1>9 DEF IInv, TypeOK, DeleteOldPage, Kind, Stopper, Continued,
                windowVars, timerVars, tableVars, countVars, OwnKind
  <1>10. CASE \E p \in Pid : ToggleRow(p)
    BY <1>10 DEF IInv, TypeOK, ToggleRow, Kind, Stopper, Ready, Visible,
                 kernelVars, windowVars, timerVars, countVars, OwnKind
  <1>11. CASE ToggleSelectAll
    BY <1>11 DEF IInv, TypeOK, ToggleSelectAll, Kind, Stopper, Ready, Visible,
                 kernelVars, windowVars, timerVars, countVars, OwnKind
  <1>12. CASE Refresh
    BY <1>12 DEF IInv, TypeOK, Refresh, Kind, Stopper, Ready, Visible,
                 RefreshCandidates, kernelVars, windowVars, timerVars,
                 countVars, OwnKind, Candidates, Ticks, Eligible
  <1>13. CASE SuspendSelected
    BY <1>13 DEF IInv, TypeOK, SuspendSelected, Kind, Stopper, Ready, Visible,
                 Stopped, RefreshCandidates, windowVars, timerVars, countVars,
                 OwnKind, Candidates, Ticks, Eligible
  <1>14. CASE ResumeAll
    BY <1>14 DEF IInv, TypeOK, ResumeAll, Kind, Stopper, Ready, Visible,
                 Continued, ResetCounters, RefreshCandidates, windowVars,
                 timerVars, OwnKind, Candidates, Ticks, Eligible
  <1>15. CASE OnAutoToggled
    BY <1>15 DEF IInv, TypeOK, OnAutoToggled, Kind, Stopper, Ready, Visible,
                 ResetCounters, ApplyMonitorCadence, kernelVars, windowVars,
                 tableVars, OwnKind
  <1>16. CASE TickMonitor
    BY <1>16 DEF IInv, Counters, TypeOK, TickMonitor, CountersFresh,
                 ClockBound, Kind, Stopper, Ready, StaysOn, Visible,
                 Candidates, Ticks, TickIdle, CountOver, ScanAtHold, CountCalm,
                 ThawAtHold, windowVars, OwnKind, Eligible, countVars, AtHold,
                 Elapsed, ResetCounters, Continued, RefreshCandidates, Period
  <1>17. CASE SuspendScanned
    BY <1>17 DEF IInv, TypeOK, SuspendScanned, Kind, Stopper, Stopped, Visible,
                 RefreshCandidates, tableVars, windowVars, timerVars,
                 countVars, OwnKind, Candidates, Ticks, Eligible
  <1>18. CASE \E p \in Pid : Spawn(p)
    BY <1>18 DEF IInv, TypeOK, Spawn, Kind, Stopper, appVars, OwnKind,
                 windowVars, timerVars, tableVars, countVars
  <1>19. CASE \E p \in Pid : End(p)
    BY <1>19 DEF IInv, TypeOK, End, Kind, Stopper, appVars, OwnKind,
                 windowVars, timerVars, tableVars, countVars
  <1>20. CASE \E p \in Pid : Turn(p)
    BY <1>20 DEF IInv, TypeOK, Turn, Kind, Stopper, OwnKind, appVars,
                 windowVars, timerVars, tableVars, countVars
  <1>21. CASE \E p \in Pid : UserStops(p)
    BY <1>21 DEF IInv, TypeOK, UserStops, Kind, Stopper, OwnKind, appVars,
                 windowVars, timerVars, tableVars, countVars
  <1>22. CASE \E p \in Pid : UserContinues(p)
    BY <1>22 DEF IInv, TypeOK, UserContinues, Kind, Stopper, appVars, OwnKind,
                 windowVars, timerVars, tableVars, countVars
  <1>23. CASE PressureChanges
    BY <1>23 DEF IInv, TypeOK, PressureChanges, Kind, Stopper, appVars,
                 OwnKind, windowVars, timerVars, tableVars, countVars
  <1>24. CASE UNCHANGED vars
    BY <1>24 DEF IInv, TypeOK, vars, Kind, Stopper, kernelVars, windowVars,
                 timerVars, tableVars, countVars, OwnKind
  <1> QED
    BY <1>1, <1>2, <1>3, <1>4, <1>5, <1>6, <1>7, <1>8, <1>9, <1>10, <1>11,
       <1>12, <1>13, <1>14, <1>15, <1>16, <1>17, <1>18, <1>19, <1>20, <1>21,
       <1>22, <1>23, <1>24
       DEF Next, Environment, Window, Buttons

\* Every step keeps the counters in agreement with the time that has passed.
LEMMA CountStep ==
    ASSUME IInv, [Next]_vars
    PROVE  Counters'
  <1> USE HoldAssumption
  <1>1. CASE Launch
    <2>1. over' = 0 /\ under' = 0 /\ clock' = 0
      BY <1>1 DEF Launch, NewPage, NoPage, ResetCounters
    <2> QED
      BY <2>1 DEF Counters, CountersFresh, ClockBound
  <1>2. CASE ChangeLanguage
    <2>1. over' = 0 /\ under' = 0 /\ clock' = 0
      BY <1>2 DEF ChangeLanguage, NewPage, NoPage, ResetCounters
    <2> QED
      BY <2>1 DEF Counters, CountersFresh, ClockBound
  <1>3. CASE Quit \/ Die
    BY <1>3 DEF IInv, TypeOK, Counters, Quit, Die, CountersFresh, ClockBound,
                Ready, NoPage, ResetCounters
  <1>4. CASE OpenRelief \/ LeaveRelief \/ HideWindow \/ ShowWindow \/ DeleteOldPage
    BY <1>4 DEF IInv, TypeOK, Counters, OpenRelief, LeaveRelief, HideWindow,
                ShowWindow, DeleteOldPage, CountersFresh, ClockBound, Ready,
                kernelVars, countVars, tableVars, windowVars, timerVars
  <1>5. CASE ToggleSelectAll \/ Refresh \/ (\E p \in Pid : ToggleRow(p))
    BY <1>5 DEF IInv, TypeOK, Counters, ToggleRow, ToggleSelectAll, Refresh,
                CountersFresh, ClockBound, Ready, Visible, kernelVars,
                windowVars, timerVars, countVars
  <1>6. CASE SuspendSelected \/ SuspendScanned
    BY <1>6 DEF IInv, TypeOK, Counters, SuspendSelected, SuspendScanned,
                CountersFresh, ClockBound, Ready, Visible, windowVars,
                timerVars, countVars, tableVars
  <1>7. CASE ResumeAll
    BY <1>7 DEF IInv, TypeOK, Counters, ResumeAll, CountersFresh, ClockBound,
                Ready, Visible, ResetCounters, windowVars, timerVars
  <1>8. CASE OnAutoToggled
    BY <1>8 DEF IInv, TypeOK, Counters, OnAutoToggled, CountersFresh,
                ClockBound, Ready, Visible, ResetCounters, kernelVars,
                windowVars, tableVars
  <1>9. CASE TickMonitor
    BY <1>9 DEF IInv, TypeOK, Counters, TickMonitor, CountersFresh, ClockBound,
                Ready, Visible, TickIdle, CountOver, ScanAtHold, CountCalm,
                ThawAtHold, windowVars, countVars, AtHold, Elapsed,
                ResetCounters, Period
  <1>10. CASE Environment
    BY <1>10 DEF IInv, TypeOK, Counters, Environment, Spawn, End, Turn,
                 UserStops, UserContinues, PressureChanges, CountersFresh,
                 ClockBound, appVars, windowVars, timerVars, tableVars,
                 countVars
  <1>11. CASE UNCHANGED vars
    BY <1>11 DEF IInv, TypeOK, Counters, vars, CountersFresh, ClockBound,
                 kernelVars, windowVars, timerVars, tableVars, countVars
  <1> QED
    BY <1>1, <1>2, <1>3, <1>4, <1>5, <1>6, <1>7, <1>8, <1>9, <1>10, <1>11
       DEF Next, Environment, Window, Buttons

\* Every step keeps the watchdog awake and an idle monitor off.
LEMMA WindowStep ==
    ASSUME IInv, [Next]_vars
    PROVE  Windows'
  <1> USE HoldAssumption
  <1>1. CASE Launch \/ ChangeLanguage
    BY <1>1 DEF IInv, TypeOK, Windows, Launch, ChangeLanguage, Structure,
                PausedIsCurrent, WatchdogAlive, IdleCostsNothing, NewPage,
                NoPage, kernelVars, Ready, windowVars, Visible,
                RefreshCandidates, ApplyMonitorCadence
  <1>2. CASE Quit \/ Die
    BY <1>2 DEF IInv, TypeOK, Windows, Quit, Die, Structure, PausedIsCurrent,
                WatchdogAlive, IdleCostsNothing, Ready, NoPage, Visible
  <1>3. CASE OpenRelief \/ LeaveRelief
    BY <1>3 DEF IInv, TypeOK, Windows, OpenRelief, LeaveRelief, Structure,
                PausedIsCurrent, WatchdogAlive, IdleCostsNothing, Ready,
                RefreshCandidates, ApplyMonitorCadence, kernelVars, countVars,
                tableVars, Visible
  <1>4. CASE HideWindow
    BY <1>4 DEF IInv, TypeOK, Windows, HideWindow, Structure, PausedIsCurrent,
                WatchdogAlive, IdleCostsNothing, Ready, Paused,
                ApplyMonitorCadence, kernelVars, tableVars, countVars, Visible
  <1>5. CASE ShowWindow
    BY <1>5 DEF IInv, TypeOK, Windows, ShowWindow, Structure, PausedIsCurrent,
                WatchdogAlive, IdleCostsNothing, Ready, RefreshCandidates,
                ApplyMonitorCadence, tableVars, kernelVars, countVars, Visible
  <1>6. CASE DeleteOldPage
    BY <1>6 DEF IInv, TypeOK, Windows, DeleteOldPage, Structure,
                PausedIsCurrent, WatchdogAlive, IdleCostsNothing, windowVars,
                timerVars, tableVars, countVars, Visible
  <1>7. CASE \E p \in Pid : ToggleRow(p)
    BY <1>7 DEF IInv, TypeOK, Windows, ToggleRow, Structure, PausedIsCurrent,
                WatchdogAlive, IdleCostsNothing, Ready, Visible, kernelVars,
                windowVars, timerVars, countVars
  <1>8. CASE ToggleSelectAll
    BY <1>8 DEF IInv, TypeOK, Windows, ToggleSelectAll, Structure,
                PausedIsCurrent, WatchdogAlive, IdleCostsNothing, Ready,
                Visible, kernelVars, windowVars, timerVars, countVars
  <1>9. CASE Refresh
    BY <1>9 DEF IInv, TypeOK, Windows, Refresh, Structure, PausedIsCurrent,
                WatchdogAlive, IdleCostsNothing, Ready, Visible,
                RefreshCandidates, kernelVars, windowVars, timerVars, countVars
  <1>10. CASE SuspendSelected
    BY <1>10 DEF IInv, TypeOK, Windows, SuspendSelected, Structure,
                 PausedIsCurrent, WatchdogAlive, IdleCostsNothing, Ready,
                 Visible, RefreshCandidates, windowVars, timerVars, countVars
  <1>11. CASE ResumeAll
    BY <1>11 DEF IInv, TypeOK, Windows, ResumeAll, Structure, PausedIsCurrent,
                 WatchdogAlive, IdleCostsNothing, Ready, Visible,
                 RefreshCandidates, windowVars, timerVars
  <1>12. CASE OnAutoToggled
    BY <1>12 DEF IInv, TypeOK, Windows, OnAutoToggled, Structure,
                 PausedIsCurrent, WatchdogAlive, IdleCostsNothing, Ready,
                 Visible, ApplyMonitorCadence, kernelVars, windowVars,
                 tableVars
  <1>13. CASE TickMonitor
    BY <1>13 DEF IInv, TypeOK, Windows, TickMonitor, Structure,
                 PausedIsCurrent, WatchdogAlive, IdleCostsNothing, Ready,
                 StaysOn, Visible, TickIdle, CountOver, ScanAtHold, CountCalm,
                 ThawAtHold, windowVars, countVars, RefreshCandidates
  <1>14. CASE SuspendScanned
    BY <1>14 DEF IInv, TypeOK, Windows, SuspendScanned, Structure,
                 PausedIsCurrent, WatchdogAlive, IdleCostsNothing, Visible,
                 RefreshCandidates, tableVars, windowVars, timerVars, countVars
  <1>15. CASE Environment
    BY <1>15 DEF IInv, TypeOK, Windows, Environment, Spawn, End, Turn,
                 UserStops, UserContinues, PressureChanges, Structure,
                 PausedIsCurrent, WatchdogAlive, IdleCostsNothing, appVars,
                 Visible, windowVars, timerVars, tableVars, countVars
  <1>16. CASE UNCHANGED vars
    BY <1>16 DEF IInv, TypeOK, Windows, vars, Structure, PausedIsCurrent,
                 WatchdogAlive, IdleCostsNothing, kernelVars, windowVars,
                 timerVars, tableVars, countVars, Visible
  <1> QED
    BY <1>1, <1>2, <1>3, <1>4, <1>5, <1>6, <1>7, <1>8, <1>9, <1>10, <1>11,
       <1>12, <1>13, <1>14, <1>15, <1>16
       DEF Next, Environment, Window, Buttons

\* Every step accounts for every stopped process.
LEMMA FrozenStep ==
    ASSUME IInv, [Next]_vars
    PROVE  Frozen'
  <1> USE HoldAssumption
  <1>1. CASE Launch
    BY <1>1 DEF IInv, TypeOK, Frozen, Launch, Kind, Stopper, StoppedOwn,
                NoOverlap, FrozenTracked, LostUnreachable, NewPage, NoPage,
                kernelVars, OwnKind, RefreshCandidates, Candidates, Eligible
  <1>2. CASE Quit
    BY <1>2 DEF IInv, TypeOK, Frozen, Quit, Kind, Stopper, StoppedOwn,
                NoOverlap, FrozenTracked, LostUnreachable, Ready, Continued,
                NoPage, OwnKind
  <1>3. CASE Die
    BY <1>3 DEF IInv, TypeOK, Frozen, Die, Kind, Stopper, StoppedOwn,
                NoOverlap, FrozenTracked, LostUnreachable, NoPage, OwnKind
  <1>4. CASE ChangeLanguage
    <2>1. suspended' = {} /\ listed' \in {{}, Candidates(stop)}
      BY <1>4 DEF ChangeLanguage, NewPage, NoPage, RefreshCandidates
    <2>2. UNCHANGED <<kind, stop, app, scanned>> /\ doomed' = suspended /\ Ready
      BY <1>4 DEF ChangeLanguage, kernelVars, windowVars
    <2> QED
      BY <2>1, <2>2 DEF IInv, Frozen, StoppedOwn, NoOverlap, FrozenTracked,
                        LostUnreachable, Candidates, Eligible, Ready
  <1>5. CASE OpenRelief \/ LeaveRelief
    BY <1>5 DEF IInv, TypeOK, Frozen, OpenRelief, LeaveRelief, Kind, Stopper,
                StoppedOwn, NoOverlap, FrozenTracked, LostUnreachable, Ready,
                RefreshCandidates, kernelVars, countVars, tableVars, OwnKind,
                Candidates, Eligible
  <1>6. CASE HideWindow
    BY <1>6 DEF IInv, TypeOK, Frozen, HideWindow, Kind, Stopper, StoppedOwn,
                NoOverlap, FrozenTracked, LostUnreachable, Ready, kernelVars,
                tableVars, countVars, OwnKind
  <1>7. CASE ShowWindow
    <2>1. listed' \in {listed, Candidates(stop)}
      BY <1>7 DEF ShowWindow, RefreshCandidates, tableVars
    <2>2. UNCHANGED <<kind, stop, app, suspended, scanned, doomed>>
      BY <1>7 DEF ShowWindow, kernelVars
    <2> QED
      BY <2>1, <2>2 DEF IInv, Frozen, StoppedOwn, NoOverlap, FrozenTracked,
                        LostUnreachable, Candidates, Eligible
  <1>8. CASE DeleteOldPage
    BY <1>8 DEF IInv, TypeOK, Frozen, DeleteOldPage, Kind, Stopper, StoppedOwn,
                NoOverlap, FrozenTracked, LostUnreachable, Continued,
                windowVars, timerVars, tableVars, countVars, OwnKind
  <1>9. CASE \E p \in Pid : ToggleRow(p)
    BY <1>9 DEF IInv, TypeOK, Frozen, ToggleRow, Kind, Stopper, StoppedOwn,
                NoOverlap, FrozenTracked, LostUnreachable, Ready, Visible,
                kernelVars, windowVars, timerVars, countVars, OwnKind
  <1>10. CASE ToggleSelectAll
    BY <1>10 DEF IInv, TypeOK, Frozen, ToggleSelectAll, Kind, Stopper,
                 StoppedOwn, NoOverlap, FrozenTracked, LostUnreachable, Ready,
                 Visible, kernelVars, windowVars, timerVars, countVars, OwnKind
  <1>11. CASE Refresh
    BY <1>11 DEF IInv, TypeOK, Frozen, Refresh, Kind, Stopper, StoppedOwn,
                 NoOverlap, FrozenTracked, LostUnreachable, Ready, Visible,
                 RefreshCandidates, kernelVars, windowVars, timerVars,
                 countVars, OwnKind, Candidates, Eligible
  <1>12. CASE SuspendSelected
    BY <1>12 DEF IInv, TypeOK, Frozen, SuspendSelected, Kind, Stopper,
                 StoppedOwn, NoOverlap, FrozenTracked, LostUnreachable, Ready,
                 Visible, Stopped, RefreshCandidates, windowVars, timerVars,
                 countVars, OwnKind, Candidates, Eligible
  <1>13. CASE ResumeAll
    BY <1>13 DEF IInv, TypeOK, Frozen, ResumeAll, Kind, Stopper, StoppedOwn,
                 NoOverlap, FrozenTracked, LostUnreachable, Ready, Visible,
                 Continued, RefreshCandidates, windowVars, timerVars, OwnKind,
                 Candidates, Eligible
  <1>14. CASE OnAutoToggled
    BY <1>14 DEF IInv, TypeOK, Frozen, OnAutoToggled, Kind, Stopper,
                 StoppedOwn, NoOverlap, FrozenTracked, LostUnreachable, Ready,
                 Visible, kernelVars, windowVars, tableVars, OwnKind
  <1>15. CASE TickMonitor
    BY <1>15 DEF IInv, TypeOK, Frozen, TickMonitor, Kind, Stopper, StoppedOwn,
                 NoOverlap, FrozenTracked, LostUnreachable, Ready, Visible,
                 Candidates, TickIdle, CountOver, ScanAtHold, CountCalm,
                 ThawAtHold, windowVars, OwnKind, Eligible, countVars,
                 Continued, RefreshCandidates
  <1>16. CASE SuspendScanned
    BY <1>16 DEF IInv, TypeOK, Frozen, SuspendScanned, Kind, Stopper,
                 StoppedOwn, NoOverlap, FrozenTracked, LostUnreachable,
                 Stopped, Visible, RefreshCandidates, tableVars, windowVars,
                 timerVars, countVars, OwnKind, Candidates, Eligible
  <1>17. CASE Environment
    BY <1>17 DEF IInv, TypeOK, Frozen, Environment, Spawn, End, Turn,
                 UserStops, UserContinues, PressureChanges, Kind, Stopper,
                 StoppedOwn, NoOverlap, FrozenTracked, LostUnreachable,
                 appVars, OwnKind, windowVars, timerVars, tableVars, countVars
  <1>18. CASE UNCHANGED vars
    BY <1>18 DEF IInv, TypeOK, Frozen, vars, Kind, Stopper, StoppedOwn,
                 NoOverlap, FrozenTracked, LostUnreachable, kernelVars,
                 windowVars, timerVars, tableVars, countVars, OwnKind
  <1> QED
    BY <1>1, <1>2, <1>3, <1>4, <1>5, <1>6, <1>7, <1>8, <1>9, <1>10, <1>11,
       <1>12, <1>13, <1>14, <1>15, <1>16, <1>17, <1>18
       DEF Next, Environment, Window, Buttons

-----------------------------------------------------------------------------
(* The invariant and what follows from it *)

\* IInv holds when nothing has been started yet.
LEMMA IInvInit == Init => IInv
  <1> SUFFICES ASSUME Init PROVE IInv
    OBVIOUS
  <1> USE HoldAssumption
  <1>1. TypeOK
    <2>1. kind \in [Pid -> Kind \cup {"none"}] /\ stop \in [Pid -> Stopper \cup {"no"}]
      BY DEF Init
    <2>2. /\ listed \in SUBSET Pid /\ checked \in SUBSET listed
          /\ suspended \in SUBSET Pid /\ scanned \in SUBSET Pid /\ doomed \in SUBSET Pid
      BY DEF Init
    <2>3. /\ over \in 0 .. Hold - 1 /\ under \in 0 .. Hold - 1
          /\ clock \in 0 .. 2 * (Hold - 1)
      BY DEF Init
    <2> QED
      BY <2>1, <2>2, <2>3 DEF Init, TypeOK
  <1>2. Counters
    BY DEF Init, Counters, CountersFresh, ClockBound
  <1>3. Windows
    BY DEF Init, Windows, Structure, PausedIsCurrent, WatchdogAlive, IdleCostsNothing
  <1>4. Frozen
    BY DEF Init, Frozen, StoppedOwn, NoOverlap, FrozenTracked, LostUnreachable
  <1> QED
    BY <1>1, <1>2, <1>3, <1>4 DEF IInv

\* Every step preserves it.
LEMMA IInvStep == IInv /\ [Next]_vars => IInv'
  <1> SUFFICES ASSUME IInv, [Next]_vars PROVE IInv'
    OBVIOUS
  <1> QED
    BY TypeStep, CountStep, WindowStep, FrozenStep DEF IInv

\* The inductive invariant, in every reachable state.
THEOREM Invariance == Spec => []IInv
  BY IInvInit, IInvStep, PTL DEF Spec

\* Every variable keeps its type: in particular neither counter ever reaches the
\* hold, whatever interrupts it (tickMonitor).
THEOREM TypeCorrect == Spec => []TypeOK
  <1>1. IInv => TypeOK
    BY DEF IInv
  <1> QED
    BY Invariance, <1>1, PTL

\* No process is stopped that the running instance does not remember, and none
\* at all once it has quit (m_suspended and ~ReliefPage).
THEOREM NothingForgotten == Spec => []FrozenTracked
  <1>1. IInv => FrozenTracked
    BY DEF IInv, Frozen
  <1> QED
    BY Invariance, <1>1, PTL

\* What a dead instance left stopped is out of every later instance's reach
\* (the state filter of candidates()).
THEOREM LostForGood == Spec => []LostUnreachable
  <1>1. IInv => LostUnreachable
    BY DEF IInv, Frozen
  <1> QED
    BY Invariance, <1>1, PTL

\* Automatic mode's monitor runs through launch, tray and language changes.
THEOREM WatchdogNeverSleeps == Spec => []WatchdogAlive
  <1>1. IInv => WatchdogAlive
    BY DEF IInv, Windows
  <1> QED
    BY Invariance, <1>1, PTL

\* A hidden page that watches for nothing has no timer running.
THEOREM IdleIsFree == Spec => []IdleCostsNothing
  <1>1. IInv => IdleCostsNothing
    BY DEF IInv, Windows
  <1> QED
    BY Invariance, <1>1, PTL

\* The counters of tickMonitor() never run on stale credit.
THEOREM NoStaleCredit == Spec => []CountersFresh
  <1>1. IInv => CountersFresh
    BY DEF IInv, Counters
  <1> QED
    BY Invariance, <1>1, PTL

-----------------------------------------------------------------------------
(* The hold *)

\* One step of ActsOnlyAfterHold.
HoldRespected ==
    /\ scanned = {} /\ scanned' # {} => pressure /\ clock + Period >= Hold
    /\ page /\ page' /\ ~Visible /\ doomed' = {} /\ suspended # {} /\ suspended' = {}
         => ~pressure /\ clock + Period >= Hold

\* A counter that completes the hold has counted no fewer seconds than ticks.
LEMMA HoldTime ==
    ASSUME IInv, AtHold(over) \/ AtHold(under)
    PROVE  clock + Period >= Hold
  <1>1. Period \in Nat /\ Period >= 1
    BY DEF Period
  <1> QED
    BY <1>1, HoldAssumption DEF IInv, TypeOK, Counters, CountersFresh, AtHold

\* Only the tick that completes the hold chooses what to freeze, and behind the
\* user's back only the tick that completes the calm thaws.
LEMMA HoldStep ==
    ASSUME IInv, [Next]_vars
    PROVE  HoldRespected
  <1>1. ASSUME scanned = {}, scanned' # {}
        PROVE  pressure /\ clock + Period >= Hold
    <2>1. TickMonitor
      BY <1>1 DEF Next, Environment, Window, Buttons, vars, Launch, Quit, Die, OpenRelief,
           LeaveRelief, HideWindow, ShowWindow, ChangeLanguage, DeleteOldPage,
           ToggleRow, ToggleSelectAll, Refresh, SuspendSelected, ResumeAll,
           OnAutoToggled, SuspendScanned, Spawn, End, Turn, UserStops,
           UserContinues, PressureChanges, appVars
    <2>2. pressure /\ AtHold(over)
      BY <1>1, <2>1 DEF TickMonitor, TickIdle, CountOver, ScanAtHold, CountCalm, ThawAtHold
    <2> QED
      BY <2>2, HoldTime
  <1>2. ASSUME page, page', ~Visible, doomed' = {}, suspended # {}, suspended' = {}
        PROVE  ~pressure /\ clock + Period >= Hold
    <2>1. TickMonitor
      BY <1>2 DEF Next, Environment, Window, Buttons, vars, IInv, Windows, Structure,
           Launch, Quit, Die, NoPage, OpenRelief,
           LeaveRelief, HideWindow, ShowWindow, ChangeLanguage, DeleteOldPage,
           ToggleRow, ToggleSelectAll, Refresh, SuspendSelected, ResumeAll,
           OnAutoToggled, SuspendScanned, Spawn, End, Turn, UserStops,
           UserContinues, PressureChanges, appVars
    <2>2. ~pressure /\ AtHold(under)
      BY <1>2, <2>1 DEF TickMonitor, TickIdle, CountOver, ScanAtHold, CountCalm, ThawAtHold
    <2> QED
      BY <2>2, HoldTime
  <1> QED
    BY <1>1, <1>2 DEF HoldRespected

\* The watchdog freezes only after Hold seconds of pressure, and thaws behind
\* the user's back only after Hold seconds of calm (tickMonitor).
THEOREM HoldHolds == Spec => ActsOnlyAfterHold
  <1>1. IInv /\ [Next]_vars => [HoldRespected]_vars
    BY HoldStep
  <1> QED
    BY Invariance, <1>1, PTL DEF Spec, ActsOnlyAfterHold, HoldRespected

-----------------------------------------------------------------------------
(* The promise *)

Held == {p \in Pid : stop[p] = "relief"}
Lost == {p \in Pid : stop[p] = "lost"}

\* Every action of the page, the window and the environment is one of the
\* promise's actions, or changes nothing the promise speaks of.
LEMMA PromiseStep ==
    ASSUME IInv, [Next]_vars
    PROVE  [Promise!Next]_(Promise!vars)
  <1> USE DEF Held, Lost
  <1>0. ASSUME UNCHANGED <<app, Held, Lost>> PROVE UNCHANGED Promise!vars
    BY <1>0 DEF Promise!vars
  <1>1. CASE Launch
    <2>1. ~app /\ app' = TRUE /\ UNCHANGED stop
      BY <1>1 DEF Launch, kernelVars
    <2> QED
      BY <2>1 DEF Promise!Next, Promise!Start
  <1>2. CASE Quit
    <2>1. app /\ app' = FALSE /\ doomed = {} /\ stop' = Continued(suspended)
      BY <1>2 DEF Quit, Ready
    <2>2. Held' = {} /\ UNCHANGED Lost
      BY <2>1 DEF IInv, Frozen, FrozenTracked, LostUnreachable, StoppedOwn, Continued
    <2> QED
      BY <2>1, <2>2 DEF Promise!Next, Promise!Exit
  <1>3. CASE Die
    <2>1. app /\ app' = FALSE /\ Held' = {} /\ Lost' = Lost \cup Held
      BY <1>3 DEF Die
    <2> QED
      BY <2>1 DEF Promise!Next, Promise!Crash
  <1>4. CASE DeleteOldPage
    <2>1. app /\ UNCHANGED app /\ doomed # {} /\ stop' = Continued(doomed)
      BY <1>4 DEF DeleteOldPage, windowVars
    <2>2. Held' = {} /\ UNCHANGED Lost
      BY <2>1 DEF IInv, Frozen, NoOverlap, FrozenTracked, LostUnreachable, StoppedOwn,
                  Continued
    <2> QED
      BY <2>1, <2>2 DEF Promise!Next, Promise!Thaw
  <1>5. ASSUME NEW S \in SUBSET Pid, app, UNCHANGED app, stop' = Stopped(S)
        PROVE  Promise!Next
    <2> DEFINE T == {p \in S : kind[p] \in OwnKind /\ stop[p] = "no"}
    <2>1. T \in SUBSET (Pid \ (Held \cup Lost)) /\ Held' = Held \cup T /\ UNCHANGED Lost
      BY <1>5 DEF Stopped
    <2> QED
      BY <1>5, <2>1 DEF Promise!Next, Promise!Freeze
  <1>6. ASSUME app, UNCHANGED app, doomed = {}, stop' = Continued(suspended)
        PROVE  Promise!Next
    <2>1. Held' = {} /\ UNCHANGED Lost
      BY <1>6 DEF IInv, Frozen, FrozenTracked, LostUnreachable, StoppedOwn, Continued
    <2> QED
      BY <1>6, <2>1 DEF Promise!Next, Promise!Thaw
  <1>7. CASE SuspendSelected
    BY <1>5, <1>7 DEF SuspendSelected, Ready, windowVars, IInv, TypeOK
  <1>8. CASE SuspendScanned
    BY <1>5, <1>8 DEF SuspendScanned, windowVars, IInv, TypeOK
  <1>9. CASE ResumeAll
    BY <1>6, <1>9 DEF ResumeAll, Ready, windowVars
  <1>10. CASE TickMonitor
    <2>1. app /\ doomed = {} /\ UNCHANGED app
      BY <1>10 DEF TickMonitor, Ready, windowVars
    <2>2. UNCHANGED stop \/ stop' = Continued(suspended)
      BY <1>10 DEF TickMonitor, TickIdle, CountOver, ScanAtHold, CountCalm, ThawAtHold
    <2> QED
      BY <1>0, <1>6, <2>1, <2>2
  <1>11. CASE \E p \in Pid : End(p) \/ UserContinues(p)
    <2>1. PICK p \in Pid : End(p) \/ UserContinues(p)
      BY <1>11
    <2>2. UNCHANGED app /\ stop' = [stop EXCEPT ![p] = "no"]
      BY <2>1 DEF End, UserContinues, appVars, windowVars
    <2>3. Held' = Held \ {p} /\ Lost' = Lost \ {p}
      BY <2>2 DEF IInv, TypeOK
    <2> QED
      BY <2>2, <2>3 DEF Promise!Next, Promise!LetGo
  <1>12. CASE \E p \in Pid : UserStops(p)
    <2>1. PICK p \in Pid : UserStops(p)
      BY <1>12
    <2>2. UNCHANGED app /\ stop[p] = "no" /\ stop' = [stop EXCEPT ![p] = "user"]
      BY <2>1 DEF UserStops, appVars, windowVars
    <2>3. UNCHANGED <<Held, Lost>>
      BY <2>2 DEF IInv, TypeOK
    <2> QED
      BY <1>0, <2>2, <2>3
  <1>13. CASE UNCHANGED <<app, stop>>
    BY <1>0, <1>13
  <1>14. CASE \/ OpenRelief \/ LeaveRelief \/ HideWindow \/ ShowWindow \/ ChangeLanguage
              \/ ToggleSelectAll \/ Refresh \/ OnAutoToggled \/ PressureChanges
              \/ \E p \in Pid : ToggleRow(p) \/ Spawn(p) \/ Turn(p)
    BY <1>13, <1>14 DEF OpenRelief, LeaveRelief, HideWindow, ShowWindow, ChangeLanguage,
                        ToggleSelectAll, Refresh, OnAutoToggled, PressureChanges, ToggleRow,
                        Spawn, Turn, kernelVars, windowVars, appVars
  <1>15. CASE UNCHANGED vars
    BY <1>13, <1>15 DEF vars, kernelVars, windowVars
  <1> QED
    BY <1>1, <1>2, <1>3, <1>4, <1>7, <1>8, <1>9, <1>10, <1>11, <1>12, <1>14, <1>15
       DEF Next, Environment, Window, Buttons

\* System Relief implements its promise: it lets go of everything it holds at
\* once and before it exits, and never touches what a crash lost.
THEOREM ReliefKeepsPromise == Spec => KeepsPromise
  <1>1. Init => Promise!Init
    BY DEF Init, Promise!Init
  <1> QED
    BY <1>1, Invariance, PromiseStep, PTL DEF Spec, KeepsPromise, Promise!Spec

-----------------------------------------------------------------------------
(* Liveness *)

\* ENABLED is beyond the provers: that these guards are all it takes stays a
\* hypothesis.  (A tick of a watchdog under pressure, or with something frozen,
\* moves a counter, and the other two handlers empty a set.)
GuardsTell ==
    /\ Ready /\ ticking /\ auto /\ (pressure \/ suspended # {}) =>
         ENABLED <<TickMonitor>>_vars
    /\ app /\ scanned # {} => ENABLED <<SuspendScanned>>_vars
    /\ app /\ doomed # {} => ENABLED <<DeleteOldPage>>_vars

Calm  == app /\ auto /\ ~pressure
Press == app /\ auto /\ pressure

NothingHeld == \A p \in Pid : stop[p] # "relief"

\* In calm, with something frozen, the calm counter does not move but by one tick
\* at a time, and no freeze begins.
LEMMA CalmStep ==
    ASSUME IInv, [Next]_vars, Calm, Calm', suspended # {}, suspended' # {}
    PROVE  /\ \/ under' = under
              \/ under + 1 < Hold /\ under' = under + 1
           /\ scanned = {} => scanned' = {}
  <1> USE DEF Calm
  <1>1. CASE Environment
    BY <1>1 DEF Environment, Spawn, End, Turn, UserStops, UserContinues, PressureChanges,
                appVars, countVars
  <1>2. CASE Launch \/ Quit \/ Die \/ ChangeLanguage \/ ResumeAll \/ OnAutoToggled
    BY <1>2 DEF Launch, Quit, Die, ChangeLanguage, NewPage, NoPage, ResumeAll, OnAutoToggled
  <1>3. CASE OpenRelief \/ LeaveRelief \/ HideWindow \/ ShowWindow \/ DeleteOldPage
    BY <1>3 DEF OpenRelief, LeaveRelief, HideWindow, ShowWindow, DeleteOldPage, countVars
  <1>4. CASE (\E p \in Pid : ToggleRow(p)) \/ ToggleSelectAll \/ Refresh \/ SuspendSelected
    BY <1>4 DEF ToggleRow, ToggleSelectAll, Refresh, SuspendSelected, countVars
  <1>5. CASE TickMonitor
    <2>1. over \in Nat /\ under \in Nat /\ Hold \in Nat /\ under < Hold
      BY HoldAssumption DEF IInv, TypeOK
    <2> QED
      BY <1>5, <2>1 DEF TickMonitor, TickIdle, CountOver, ScanAtHold, CountCalm, ThawAtHold,
                        AtHold
  <1>6. CASE SuspendScanned
    BY <1>6 DEF SuspendScanned, countVars
  <1>7. CASE UNCHANGED vars
    BY <1>7 DEF vars, countVars
  <1> QED
    BY <1>1, <1>2, <1>3, <1>4, <1>5, <1>6, <1>7 DEF Next, Window, Buttons

\* A tick in calm with something frozen counts, or thaws.
LEMMA CalmTick ==
    ASSUME IInv, Calm, suspended # {}, TickMonitor
    PROVE  suspended' = {} \/ (under + 1 < Hold /\ under' = under + 1)
  <1>1. over \in Nat /\ under \in Nat /\ Hold \in Nat /\ under < Hold
    BY HoldAssumption DEF IInv, TypeOK
  <1> QED
    BY <1>1 DEF Calm, TickMonitor, TickIdle, CountOver, ScanAtHold, CountCalm, ThawAtHold,
                AtHold

\* The step of the induction by which calm thaws: with automatic mode on and no
\* pressure, something that is frozen when the calm counter is n is thawed, or
\* the counter comes to n + 1 and is still short of the hold; and once the page
\* has thawed, nothing stays stopped.  The induction over n is beyond the provers.
THEOREM CalmAdvances ==
    ASSUME NEW n \in 0 .. Hold - 1
    PROVE  FairSpec /\ []GuardsTell /\ []Calm =>
             /\ suspended # {} /\ under = n ~>
                  suspended = {} \/ (n + 1 < Hold /\ under = n + 1)
             /\ suspended = {} ~> NothingHeld
  <1> DEFINE Some == suspended # {}
             At == under = n
             On == n + 1 < Hold /\ under = n + 1
             Scanning == scanned # {}
             Old == doomed # {}
  <1>1. IInv /\ [Next]_vars /\ Calm /\ Calm' /\ Some /\ At =>
          ~Some' \/ On' \/ (At' /\ (~Scanning => ~Scanning'))
    BY CalmStep
  <1>2. IInv /\ Calm /\ Some /\ At /\ <<TickMonitor>>_vars => ~Some' \/ On'
    BY CalmTick
  <1>3. GuardsTell /\ IInv /\ Calm /\ Some /\ ~Scanning => ENABLED <<TickMonitor>>_vars
    BY DEF GuardsTell, IInv, Windows, WatchdogAlive, Frozen, NoOverlap, Calm, Ready
  <1>4. GuardsTell /\ Calm /\ Scanning => ENABLED <<SuspendScanned>>_vars
    BY DEF GuardsTell, Calm
  <1>5. <<SuspendScanned>>_vars => ~Scanning'
    BY DEF SuspendScanned
  <1>6. GuardsTell /\ Calm /\ Old => ENABLED <<DeleteOldPage>>_vars
    BY DEF GuardsTell, Calm
  <1>7. <<DeleteOldPage>>_vars => ~Old'
    BY DEF DeleteOldPage
  <1>8. IInv /\ [Next]_vars /\ Calm /\ Calm' /\ Old => Old' \/ ~Some'
    <2>1. ASSUME IInv, [Next]_vars, Calm, Calm', Old, Some'
          PROVE  Old'
      <3>1. suspended = {} /\ scanned = {} /\ ~Ready
        BY <2>1 DEF IInv, Frozen, NoOverlap, Ready
      <3>2. ~SuspendScanned /\ ~SuspendSelected /\ ~TickMonitor
        BY <3>1 DEF SuspendScanned, SuspendSelected, TickMonitor
      <3>3. UNCHANGED suspended
        <4>1. CASE Environment \/ DeleteOldPage
          BY <4>1 DEF Environment, Spawn, End, Turn, UserStops, UserContinues,
                      PressureChanges, DeleteOldPage, appVars
        <4>2. CASE Launch \/ Die
          BY <2>1, <4>2 DEF Launch, Die, Calm
        <4>3. CASE UNCHANGED vars
          BY <4>3 DEF vars
        <4>4. ~(\/ Quit \/ OpenRelief \/ LeaveRelief \/ HideWindow \/ ShowWindow
                \/ ChangeLanguage \/ Buttons)
          BY <3>1 DEF Quit, OpenRelief, LeaveRelief, HideWindow, ShowWindow,
                      ChangeLanguage, Buttons, ToggleRow, ToggleSelectAll, Refresh,
                      SuspendSelected, ResumeAll, OnAutoToggled
        <4> QED
          BY <2>1, <3>2, <4>1, <4>2, <4>3, <4>4 DEF Next, Window
      <3> QED
        BY <2>1, <3>1, <3>3
    <2> QED
      BY <2>1
  <1>9. IInv /\ Old => ~Some
    BY DEF IInv, Frozen, NoOverlap
  <1>10. IInv /\ ~Some /\ ~Old => NothingHeld
    BY DEF IInv, Frozen, FrozenTracked, NothingHeld
  <1>11. FairSpec => /\ []IInv /\ [][Next]_vars /\ WF_vars(TickMonitor)
                     /\ WF_vars(SuspendScanned) /\ WF_vars(DeleteOldPage)
    BY Invariance, PTL DEF FairSpec, Fairness, Spec
  <1>12. suspended = {} <=> ~Some
    OBVIOUS
  <1> HIDE DEF Some, At, On, Scanning, Old
  <1>13. []IInv /\ [][Next]_vars /\ []GuardsTell /\ []Calm
           /\ WF_vars(TickMonitor) /\ WF_vars(SuspendScanned)
           => (Some /\ At ~> ~Some \/ On)
    BY <1>1, <1>2, <1>3, <1>4, <1>5, PTL
  <1>14. []IInv /\ [][Next]_vars /\ []GuardsTell /\ []Calm /\ WF_vars(DeleteOldPage)
           => (~Some ~> NothingHeld)
    <2>1. []GuardsTell /\ []Calm /\ WF_vars(DeleteOldPage) => (Old ~> ~Old)
      BY <1>6, <1>7, PTL
    <2>2. IInv /\ IInv' /\ [Next]_vars /\ Calm /\ Calm' /\ Old => Old' \/ (~Some /\ ~Old)'
      BY <1>8
    <2> QED
      BY <1>10, <2>1, <2>2, PTL
  <1> QED
    BY <1>11, <1>12, <1>13, <1>14, PTL DEF Some, At, On

Settled(p) == ~Eligible(p, stop) \/ p \in suspended
HandsOff   == ~ResumeAll /\ ~ChangeLanguage

\* Under pressure the counter moves by a tick at a time, the tick that completes
\* the hold chooses every candidate, what is chosen gets frozen, and no other
\* handler comes in between.
LEMMA PressStep ==
    ASSUME IInv, [Next]_vars, Press, Press', HandsOff, NEW p \in Pid,
           ~Settled(p), ~Settled(p)'
    PROVE  /\ p \in scanned => p \in scanned'
           /\ \/ p \in scanned'
              \/ /\ over' = over \/ (over + 1 < Hold /\ over' = over + 1)
                 /\ scanned = {} => scanned' = {}
                 /\ doomed = {} => doomed' = {}
  <1> USE DEF Press, HandsOff
  <1>1. CASE Environment
    BY <1>1 DEF Environment, Spawn, End, Turn, UserStops, UserContinues, PressureChanges,
                appVars, countVars
  <1>2. CASE Launch \/ Quit \/ Die \/ ChangeLanguage \/ ResumeAll \/ OnAutoToggled
    BY <1>2 DEF Launch, Quit, Die, OnAutoToggled
  <1>3. CASE OpenRelief \/ LeaveRelief \/ HideWindow \/ ShowWindow \/ DeleteOldPage
    BY <1>3 DEF OpenRelief, LeaveRelief, HideWindow, ShowWindow, DeleteOldPage, countVars
  <1>4. CASE (\E q \in Pid : ToggleRow(q)) \/ ToggleSelectAll \/ Refresh \/ SuspendSelected
    BY <1>4 DEF ToggleRow, ToggleSelectAll, Refresh, SuspendSelected, countVars
  <1>5. CASE TickMonitor
    <2>1. over \in Nat /\ under \in Nat /\ Hold \in Nat /\ over < Hold
      BY HoldAssumption DEF IInv, TypeOK
    <2>2. p \in Candidates(stop) \ suspended
      BY DEF Settled, Candidates
    <2> QED
      BY <1>5, <2>1, <2>2 DEF TickMonitor, TickIdle, CountOver, ScanAtHold, CountCalm,
                              ThawAtHold, AtHold, Ready
  <1>6. CASE SuspendScanned
    BY <1>6 DEF SuspendScanned, countVars, Settled
  <1>7. CASE UNCHANGED vars
    BY <1>7 DEF vars, countVars
  <1> QED
    BY <1>1, <1>2, <1>3, <1>4, <1>5, <1>6, <1>7 DEF Next, Window, Buttons

\* A tick under pressure counts, or chooses every candidate.
LEMMA PressTick ==
    ASSUME IInv, Press, TickMonitor, NEW p \in Pid, ~Settled(p)
    PROVE  p \in scanned' \/ (over + 1 < Hold /\ over' = over + 1)
  <1>1. over \in Nat /\ under \in Nat /\ Hold \in Nat /\ over < Hold
    BY HoldAssumption DEF IInv, TypeOK
  <1>2. p \in Candidates(stop) \ suspended
    BY DEF Settled, Candidates
  <1> QED
    BY <1>1, <1>2 DEF Press, TickMonitor, TickIdle, CountOver, ScanAtHold, CountCalm,
                      ThawAtHold, AtHold

\* The step of the induction by which pressure freezes: with automatic mode on,
\* pressure, and nobody resuming or switching languages, a process that could be
\* frozen when the counter is n is frozen or stops being a candidate, or the
\* counter comes to n + 1 and is still short of the hold.  The induction over n
\* is beyond the provers.
THEOREM PressureAdvances ==
    ASSUME NEW p \in Pid, NEW n \in 0 .. Hold - 1
    PROVE  FairSpec /\ []GuardsTell /\ []Press /\ [][HandsOff]_vars =>
             (over = n ~> Settled(p) \/ (n + 1 < Hold /\ over = n + 1))
  <1> DEFINE Done == Settled(p)
             Mine == p \in scanned
             At == over = n
             On == n + 1 < Hold /\ over = n + 1
             Scanning == scanned # {}
             Old == doomed # {}
  <1>1. IInv /\ [Next]_vars /\ Press /\ Press' /\ [HandsOff]_vars /\ ~Done =>
          Done' \/ ( /\ Mine => Mine'
                     /\ At => \/ Mine' \/ On'
                              \/ /\ At'
                                 /\ ~Scanning => ~Scanning'
                                 /\ ~Old => ~Old')
    <2>1. CASE HandsOff
      BY <2>1, PressStep
    <2>2. CASE UNCHANGED vars
      BY <2>2 DEF vars, countVars
    <2> QED
      BY <2>1, <2>2
  <1>2. IInv /\ Press /\ ~Done /\ At /\ <<TickMonitor>>_vars => Mine' \/ On'
    BY PressTick
  <1>3. GuardsTell /\ IInv /\ Press /\ ~Scanning /\ ~Old => ENABLED <<TickMonitor>>_vars
    BY DEF GuardsTell, IInv, Windows, WatchdogAlive, Press, Ready
  <1>4. GuardsTell /\ Press /\ Scanning => ENABLED <<SuspendScanned>>_vars
    BY DEF GuardsTell, Press
  <1>5. <<SuspendScanned>>_vars => ~Scanning' /\ (Mine => Done')
    BY DEF SuspendScanned, Settled
  <1>6. GuardsTell /\ Press /\ Old => ENABLED <<DeleteOldPage>>_vars
    BY DEF GuardsTell, Press
  <1>7. <<DeleteOldPage>>_vars => ~Old'
    BY DEF DeleteOldPage
  <1>8. Mine => Scanning
    OBVIOUS
  <1>9. FairSpec => /\ []IInv /\ [][Next]_vars /\ WF_vars(TickMonitor)
                    /\ WF_vars(SuspendScanned) /\ WF_vars(DeleteOldPage)
    BY Invariance, PTL DEF FairSpec, Fairness, Spec
  <1> HIDE DEF Done, Mine, At, On, Scanning, Old
  <1>10. []IInv /\ [][Next]_vars /\ []GuardsTell /\ []Press /\ [][HandsOff]_vars
           /\ WF_vars(SuspendScanned) => (Mine ~> Done)
    BY <1>1, <1>4, <1>5, <1>8, PTL
  <1>11. []IInv /\ [][Next]_vars /\ []GuardsTell /\ []Press /\ [][HandsOff]_vars
           /\ WF_vars(TickMonitor) /\ WF_vars(SuspendScanned) /\ WF_vars(DeleteOldPage)
           => (At ~> Mine \/ Done \/ On)
    BY <1>1, <1>2, <1>3, <1>4, <1>5, <1>6, <1>7, PTL
  <1> QED
    BY <1>9, <1>10, <1>11, PTL DEF Done, At, On
=============================================================================
