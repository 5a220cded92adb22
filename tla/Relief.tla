-------------------------------- MODULE Relief --------------------------------
(***************************************************************************)
(* The System Relief page: SIGSTOP idle user processes under pressure and  *)
(* SIGCONT them later, by hand or by the background watchdog.              *)
(*                                                                         *)
(* Actors: the GUI thread (one handler at a time), the kernel's process    *)
(* table, which moves between and during handlers, and the user, who also  *)
(* stops, continues and kills processes outside this page.                 *)
(*                                                                         *)
(* Abstractions.  CPU, RAM and disk readings are one Boolean, pressure.    *)
(* A process is its pid, the class the filters put it in, and who stopped  *)
(* it.  m_holdSecs is the constant Hold.  ionice, the I/O scheduler and    *)
(* dropCaches change none of this state and are left out.                  *)
(***************************************************************************)
EXTENDS Integers

CONSTANTS
    Pid,     \* the process ids in play; a pid is reused after its process ends
    Hold     \* m_holdSecs, the seconds of sustained pressure (or calm) before acting

ASSUME HoldAssumption == Hold \in Nat /\ Hold >= 2    \* the spin box's range is 2..120

VARIABLES
    (* the kernel *)
    kind,        \* class of the process with that pid, "none" when there is none
    stop,        \* "no", or who stopped it; /proc shows all but "no" as state T
    pressure,    \* does the next sample exceed a threshold?
    (* the main window *)
    app,         \* is gt-stacer running?
    win,         \* is the main window shown (FALSE in the tray)?
    cur,         \* is System Relief the stack's current page?
    (* the page; `auto' is also the persisted reliefAutoMode *)
    page,        \* m_pages[10] # nullptr
    auto,        \* m_autoCheck
    ticking,     \* m_monitor->isActive()
    keepAlive,   \* the timer property App::hideEvent respects
    wasActive,   \* the timer property App::hideEvent leaves for App::showEvent
    listed,      \* pids with a row in m_table
    checked,     \* pids whose row is ticked
    suspended,   \* m_suspended
    over,        \* m_overSeconds
    under,       \* m_underSeconds
    scanned,     \* pids the watchdog has chosen and not signalled yet
    doomed,      \* m_suspended of a replaced page awaiting its deferred delete
    (* observability *)
    clock        \* seconds of ticks since the counter that is running started

kernelVars == <<kind, stop, pressure>>
windowVars == <<app, win, cur>>
timerVars  == <<ticking, keepAlive, wasActive>>
tableVars  == <<listed, checked>>
countVars  == <<over, under, clock>>
vars == <<kernelVars, windowVars, page, auto, timerVars, tableVars,
          suspended, countVars, scanned, doomed>>

\* heavy: eligible and at least 150 MB; light: eligible; guarded: ours, but an
\* ancestor, a session member, a shell, a terminal, the desktop or critical;
\* foreign: another user's, so kill() fails with EPERM.
OwnKind == {"heavy", "light", "guarded"}
Kind    == OwnKind \cup {"foreign"}
\* "lost": stopped by an instance of gt-stacer that died without its destructors.
Stopper == {"relief", "user", "lost"}

TypeOK ==
    /\ kind \in [Pid -> Kind \cup {"none"}]
    /\ stop \in [Pid -> Stopper \cup {"no"}]
    /\ pressure \in BOOLEAN
    /\ app \in BOOLEAN /\ win \in BOOLEAN /\ cur \in BOOLEAN
    /\ page \in BOOLEAN /\ auto \in BOOLEAN
    /\ ticking \in BOOLEAN /\ keepAlive \in BOOLEAN /\ wasActive \in BOOLEAN
    /\ listed \in SUBSET Pid /\ checked \in SUBSET listed
    /\ suspended \in SUBSET Pid /\ scanned \in SUBSET Pid /\ doomed \in SUBSET Pid
    /\ over \in 0 .. Hold - 1 /\ under \in 0 .. Hold - 1
    /\ clock \in 0 .. 2 * (Hold - 1)

-----------------------------------------------------------------------------
(* ReliefTool *)

\* Mistake: processes in state T are candidates too.
EligibleStopped(p, st) == kind[p] \in {"heavy", "light"}

\* The filters of candidates(), over a given state of the process table.
Eligible(p, st) == kind[p] \in {"heavy", "light"} /\ st[p] = "no"
Candidates(st)  == {p \in Pid : Eligible(p, st)}

\* kill(pid, SIGSTOP): fails for a foreign process and for a pid that is gone,
\* and changes nothing for one that is stopped already.
Stopped(S) == [p \in Pid |-> IF p \in S /\ kind[p] \in OwnKind /\ stop[p] = "no"
                             THEN "relief" ELSE stop[p]]
\* Mistake: one signal that fails keeps the others from being sent.
ContinuedAllOrNone(S) == [p \in Pid |-> IF p \in S /\ \A q \in S : kind[q] \in OwnKind
                                        THEN "no" ELSE stop[p]]

\* kill(pid, SIGCONT): continues a process whoever stopped it.
Continued(S) == [p \in Pid |-> IF p \in S /\ kind[p] \in OwnKind
                               THEN "no" ELSE stop[p]]

-----------------------------------------------------------------------------
(* The page's helpers *)

Visible == app /\ win /\ cur /\ page
Ready   == app /\ scanned = {} /\ doomed = {}   \* the GUI thread is between handlers
Period  == IF Visible THEN 1 ELSE 2             \* the monitor's interval, in seconds

\* Ticks the rows keep: the user's choice for a pid that had a row, otherwise
\* the heavier processes.
Ticks(rows, on, st) == {p \in Candidates(st) : IF p \in rows THEN p \in on
                                                             ELSE kind[p] = "heavy"}
RefreshCandidates(rows, on, st) ==
    /\ listed' = Candidates(st)
    /\ checked' = Ticks(rows, on, st)

\* Mistakes: the timer is left running; the timer only follows the page's visibility.
ApplyMonitorCadenceNeverStopping(shown, watching) ==
    keepAlive' = watching /\ ticking' = (ticking \/ shown \/ watching)
ApplyMonitorCadenceShown(shown, watching) ==
    keepAlive' = watching /\ ticking' = shown

\* The timer once applyMonitorCadence() has run.
ApplyMonitorCadence(shown, watching) ==
    /\ keepAlive' = watching
    /\ ticking' = (shown \/ watching)

\* Mistake: the calm counter survives.
ResetCountersOverOnly == over' = 0 /\ UNCHANGED under /\ clock' = 0

ResetCounters == over' = 0 /\ under' = 0 /\ clock' = 0

\* The constructor of a page that is not shown yet: loadSettings() leaves
\* m_autoCheck as persisted, so a watching page starts its monitor at once.
NewPage ==
    /\ page' = TRUE
    /\ RefreshCandidates({}, {}, stop)
    /\ suspended' = {}
    /\ ResetCounters
    /\ ApplyMonitorCadence(FALSE, auto)
    /\ wasActive' = FALSE

NoPage ==
    /\ page' = FALSE
    /\ listed' = {} /\ checked' = {}
    /\ suspended' = {}
    /\ ResetCounters
    /\ ticking' = FALSE /\ keepAlive' = FALSE /\ wasActive' = FALSE

-----------------------------------------------------------------------------
(* Launch, exit, and the main window *)

Init ==
    /\ kind = [p \in Pid |-> "none"]
    /\ stop = [p \in Pid |-> "no"]
    /\ pressure = FALSE
    /\ app = FALSE /\ win = FALSE /\ cur = FALSE
    /\ page = FALSE /\ auto = FALSE
    /\ ticking = FALSE /\ keepAlive = FALSE /\ wasActive = FALSE
    /\ listed = {} /\ checked = {} /\ suspended = {}
    /\ scanned = {} /\ doomed = {}
    /\ over = 0 /\ under = 0 /\ clock = 0

\* main() and App::App(): the Dashboard is current, and a persisted automatic
\* mode builds the Relief page behind it; --hide leaves the window in the tray.
Launch ==
    /\ ~app
    /\ app' = TRUE /\ win' \in BOOLEAN /\ cur' = FALSE
    /\ IF auto THEN NewPage ELSE NoPage
    /\ UNCHANGED <<kernelVars, auto, scanned, doomed>>

\* Every orderly way out (Ctrl+Q, the tray's Quit, closing without a tray) returns
\* from exec() and destroys the window, so ~ReliefPage() resumes m_suspended.  A
\* request that closeEvent() refuses only hides the window: that is HideWindow.
Quit ==
    /\ Ready
    /\ app' = FALSE /\ win' = FALSE /\ cur' = FALSE
    /\ stop' = Continued(suspended)
    /\ NoPage
    /\ UNCHANGED <<kind, pressure, auto, scanned, doomed>>

\* The process is killed (SIGKILL, an unhandled SIGTERM, a crash) at any point:
\* no destructor runs and nothing of m_suspended is on disk.
Die ==
    /\ app
    /\ app' = FALSE /\ win' = FALSE /\ cur' = FALSE
    /\ stop' = [p \in Pid |-> IF stop[p] = "relief" THEN "lost" ELSE stop[p]]
    /\ NoPage
    /\ scanned' = {} /\ doomed' = {}
    /\ UNCHANGED <<kind, pressure, auto>>

\* App::navigateTo(10): build the page on the first visit, then its showEvent.
OpenRelief ==
    /\ Ready /\ win /\ ~cur
    /\ cur' = TRUE /\ page' = TRUE
    /\ RefreshCandidates(listed, checked, stop)
    /\ ApplyMonitorCadence(TRUE, auto)
    /\ UNCHANGED <<kernelVars, app, win, auto, wasActive, suspended, countVars,
                   scanned, doomed>>

\* Another page becomes current: the page's hideEvent.
LeaveRelief ==
    /\ Ready /\ win /\ cur
    /\ cur' = FALSE
    /\ ApplyMonitorCadence(FALSE, auto)
    /\ UNCHANGED <<kernelVars, app, win, page, auto, wasActive, tableVars,
                   suspended, countVars, scanned, doomed>>

\* Mistake: keepAlive is not looked at.
PausedAny == ticking

\* What App::hideEvent pauses.
Paused == ticking /\ ~keepAlive

\* To the tray: App::hideEvent pauses the timers that are not keepAlive, and
\* only then does the current page get its own hideEvent.
HideWindow ==
    /\ Ready /\ win
    /\ win' = FALSE
    /\ wasActive' = (Paused \/ wasActive)
    /\ IF cur THEN ApplyMonitorCadence(FALSE, auto)
              ELSE ticking' = (ticking /\ ~Paused) /\ UNCHANGED keepAlive
    /\ UNCHANGED <<kernelVars, app, cur, page, auto, tableVars, suspended,
                   countVars, scanned, doomed>>

\* From the tray: the current page's showEvent, then App::showEvent restarts
\* what it had paused.
ShowWindow ==
    /\ Ready /\ ~win
    /\ win' = TRUE
    /\ wasActive' = FALSE
    /\ IF cur THEN /\ RefreshCandidates(listed, checked, stop)
                   /\ ApplyMonitorCadence(TRUE, auto)
              ELSE /\ ticking' = (ticking \/ wasActive)
                   /\ UNCHANGED <<tableVars, keepAlive>>
    /\ UNCHANGED <<kernelVars, app, cur, page, auto, suspended, countVars,
                   scanned, doomed>>

\* Mistake: the replaced page is deleted without its destructor's resume.
ChangeLanguageForgetting ==
    /\ Ready /\ win /\ ~cur /\ page
    /\ doomed' = {}
    /\ IF auto THEN NewPage ELSE NoPage
    /\ UNCHANGED <<kernelVars, windowVars, auto, scanned>>

\* A runtime language switch, made on Settings or in a dialog over another
\* page: the page is replaced, and the old one is deleted once control is back
\* in the event loop.  The new one exists only if automatic mode is on.
ChangeLanguage ==
    /\ Ready /\ win /\ ~cur /\ page
    /\ doomed' = suspended
    /\ IF auto THEN NewPage ELSE NoPage
    /\ UNCHANGED <<kernelVars, windowVars, auto, scanned>>

\* The deferred ~ReliefPage() of the replaced page.
DeleteOldPage ==
    /\ app /\ doomed # {}
    /\ stop' = Continued(doomed)
    /\ doomed' = {}
    /\ UNCHANGED <<kind, pressure, windowVars, page, auto, timerVars, tableVars,
                   suspended, countVars, scanned>>

-----------------------------------------------------------------------------
(* The page's buttons: they can be pressed while it is visible *)

ToggleRow(p) ==
    /\ Ready /\ Visible /\ p \in listed
    /\ checked' = IF p \in checked THEN checked \ {p} ELSE checked \cup {p}
    /\ UNCHANGED <<kernelVars, windowVars, page, auto, timerVars, listed,
                   suspended, countVars, scanned, doomed>>

\* m_allSelected alternates; either of its values may be the next one.
ToggleSelectAll ==
    /\ Ready /\ Visible
    /\ checked' \in {{}, listed}
    /\ UNCHANGED <<kernelVars, windowVars, page, auto, timerVars, listed,
                   suspended, countVars, scanned, doomed>>

Refresh ==
    /\ Ready /\ Visible
    /\ RefreshCandidates(listed, checked, stop)
    /\ UNCHANGED <<kernelVars, windowVars, page, auto, timerVars, suspended,
                   countVars, scanned, doomed>>

\* The ticked rows are signalled as they stand, without a new scan, and every
\* one of them enters m_suspended whether or not its signal was delivered.
SuspendSelected ==
    /\ Ready /\ Visible /\ checked # {}
    /\ stop' = Stopped(checked)
    /\ suspended' = suspended \cup checked
    /\ RefreshCandidates(listed, checked, stop')
    /\ UNCHANGED <<kind, pressure, windowVars, page, auto, timerVars, countVars,
                   scanned, doomed>>

ResumeAll ==
    /\ Ready /\ Visible /\ suspended # {}
    /\ stop' = Continued(suspended)
    /\ suspended' = {}
    /\ ResetCounters
    /\ RefreshCandidates(listed, checked, stop')
    /\ UNCHANGED <<kind, pressure, windowVars, page, auto, timerVars, scanned, doomed>>

\* m_autoCheck, persisted as it changes.  Switching it off thaws nothing.
OnAutoToggled ==
    /\ Ready /\ Visible
    /\ auto' = ~auto
    /\ ResetCounters
    /\ ApplyMonitorCadence(TRUE, auto')
    /\ UNCHANGED <<kernelVars, windowVars, page, wasActive, tableVars, suspended,
                   scanned, doomed>>

-----------------------------------------------------------------------------
(* tickMonitor(): the visible page may reach its auto-refresh first *)

\* Mistake: the counter is tested before it is incremented.
AtHoldLate(n) == n >= Hold

\* ++counter >= m_holdSecs
AtHold(n) == n + 1 >= Hold

\* The time that will have passed once this tick is counted.
Elapsed(n) == IF n = 0 THEN Period ELSE clock + Period

\* Not watching: labels and the auto-refresh only.
TickIdle(rows, on) ==
    /\ ~auto
    /\ listed' = rows /\ checked' = on
    /\ UNCHANGED <<stop, suspended, countVars, scanned>>

\* Over a threshold: count the tick.
CountOver(rows, on) ==
    /\ auto /\ pressure /\ ~AtHold(over)
    /\ over' = over + 1 /\ under' = 0 /\ clock' = Elapsed(over)
    /\ listed' = rows /\ checked' = on
    /\ UNCHANGED <<stop, suspended, scanned>>

\* The tick that completes the hold: scan for what to freeze.
ScanAtHold(rows, on) ==
    /\ auto /\ pressure /\ AtHold(over)
    /\ ResetCounters
    /\ scanned' = Candidates(stop) \ suspended
    /\ listed' = rows /\ checked' = on
    /\ UNCHANGED <<stop, suspended>>

\* Mistake: pressure that flickers is added up.
CountCalmKeepingOver(rows, on) ==
    /\ auto /\ ~pressure /\ ~(suspended # {} /\ AtHold(under))
    /\ over' = over
    /\ under' = IF suspended # {} THEN under + 1 ELSE under
    /\ clock' = IF suspended # {} THEN Elapsed(under) ELSE 0
    /\ listed' = rows /\ checked' = on
    /\ UNCHANGED <<stop, suspended, scanned>>

\* Below every threshold: count the tick if something is frozen.
CountCalm(rows, on) ==
    /\ auto /\ ~pressure /\ ~(suspended # {} /\ AtHold(under))
    /\ over' = 0
    /\ under' = IF suspended # {} THEN under + 1 ELSE under
    /\ clock' = IF suspended # {} THEN Elapsed(under) ELSE 0
    /\ listed' = rows /\ checked' = on
    /\ UNCHANGED <<stop, suspended, scanned>>

\* The tick that completes the calm: resumeAll().
ThawAtHold(rows, on) ==
    /\ auto /\ ~pressure /\ suspended # {} /\ AtHold(under)
    /\ stop' = Continued(suspended)
    /\ suspended' = {}
    /\ ResetCounters
    /\ RefreshCandidates(rows, on, stop')
    /\ UNCHANGED scanned

\* Mistake: the self-heal forgets automatic mode.
StaysOnWhenVisible == Visible

\* The self-heal: a tick that finds the page hidden and nothing to watch for
\* stops the timer.
StaysOn == Visible \/ auto

TickMonitor ==
    /\ Ready /\ ticking
    /\ ticking' = StaysOn
    /\ \E relist \in {FALSE, Visible} :
         LET rows == IF relist THEN Candidates(stop) ELSE listed
             on   == IF relist THEN Ticks(listed, checked, stop) ELSE checked
         IN  \/ TickIdle(rows, on)
             \/ CountOver(rows, on) \/ ScanAtHold(rows, on)
             \/ CountCalm(rows, on) \/ ThawAtHold(rows, on)
    /\ UNCHANGED <<kind, pressure, windowVars, page, auto, keepAlive, wasActive, doomed>>

\* The rest of the same handler: the chosen pids are signalled some milliseconds
\* after they were read from /proc.
SuspendScanned ==
    /\ app /\ scanned # {}
    /\ stop' = Stopped(scanned)
    /\ suspended' = suspended \cup scanned
    /\ scanned' = {}
    /\ IF Visible THEN RefreshCandidates(listed, checked, stop')
                  ELSE UNCHANGED tableVars
    /\ UNCHANGED <<kind, pressure, windowVars, page, auto, timerVars, countVars, doomed>>

-----------------------------------------------------------------------------
(* The rest of the system, at any time *)

appVars == <<windowVars, page, auto, timerVars, tableVars, suspended, countVars,
             scanned, doomed>>

\* A process starts; its pid may be one that was in use before.
Spawn(p) ==
    /\ kind[p] = "none"
    /\ \E k \in Kind : kind' = [kind EXCEPT ![p] = k]
    /\ UNCHANGED <<stop, pressure, appVars>>

\* A process ends: a stopped one too, by SIGKILL.
End(p) ==
    /\ kind[p] # "none"
    /\ kind' = [kind EXCEPT ![p] = "none"]
    /\ stop' = [stop EXCEPT ![p] = "no"]
    /\ UNCHANGED <<pressure, appVars>>

\* A running process changes class: it grows, shrinks or execs another program.
Turn(p) ==
    /\ kind[p] \in OwnKind /\ stop[p] = "no"
    /\ \E k \in OwnKind \ {kind[p]} : kind' = [kind EXCEPT ![p] = k]
    /\ UNCHANGED <<stop, pressure, appVars>>

\* The user stops or continues a process elsewhere: a shell's job control, or
\* Suspend and Resume of the Processes page.
UserStops(p) ==
    /\ kind[p] \in OwnKind /\ stop[p] = "no"
    /\ stop' = [stop EXCEPT ![p] = "user"]
    /\ UNCHANGED <<kind, pressure, appVars>>

UserContinues(p) ==
    /\ stop[p] # "no"
    /\ stop' = [stop EXCEPT ![p] = "no"]
    /\ UNCHANGED <<kind, pressure, appVars>>

PressureChanges ==
    /\ pressure' = ~pressure
    /\ UNCHANGED <<kind, stop, appVars>>

-----------------------------------------------------------------------------
Environment ==
    \/ \E p \in Pid : Spawn(p) \/ End(p) \/ Turn(p) \/ UserStops(p) \/ UserContinues(p)
    \/ PressureChanges

Window == Launch \/ Quit \/ Die \/ OpenRelief \/ LeaveRelief \/ HideWindow
          \/ ShowWindow \/ ChangeLanguage \/ DeleteOldPage

Buttons == (\E p \in Pid : ToggleRow(p)) \/ ToggleSelectAll \/ Refresh
           \/ SuspendSelected \/ ResumeAll \/ OnAutoToggled

Next == Environment \/ Window \/ Buttons \/ TickMonitor \/ SuspendScanned

Spec == Init /\ [][Next]_vars

\* Qt delivers a running timer's timeout and a posted deferred delete, and a
\* handler that has begun runs to its end.  Nothing is assumed of the user, of
\* other processes, or of the window system.
Fairness == WF_vars(TickMonitor) /\ WF_vars(SuspendScanned) /\ WF_vars(DeleteOldPage)

FairSpec == Spec /\ Fairness

-----------------------------------------------------------------------------
(* Safety *)

\* Everything the running instance has stopped is in m_suspended of the page or
\* of the replaced page about to be deleted, whatever became of the process, its
\* pid, the window, the language or automatic mode in between; and after an
\* orderly exit nothing it stopped is left (~ReliefPage, relief_page.cpp:201).
FrozenTracked ==
    \A p \in Pid : stop[p] = "relief" => app /\ p \in suspended \cup doomed

\* A process left stopped by an instance that died is out of this page's reach:
\* candidates() skips state T, so no row, no freeze and no thaw ever names it.
LostUnreachable ==
    \A p \in Pid : stop[p] = "lost" => p \notin listed \cup suspended \cup scanned \cup doomed

\* The watchdog never sleeps: with automatic mode on, the page exists and its
\* monitor runs and is marked to survive the tray, through launch, navigation,
\* tray and language changes (App::App, hideEvent, rebuildProgrammaticPages).
WatchdogAlive == app /\ auto => page /\ ticking /\ keepAlive

\* A monitor nobody needs is off: "it costs nothing when idle and hidden".
IdleCostsNothing == ticking => Visible \/ auto

\* At most one counter runs; neither runs when automatic mode is off; the calm
\* counter does not run with nothing frozen, so a later freeze is not thawed on
\* credit; and no counter runs ahead of the time its ticks took.
CountersFresh ==
    /\ over = 0 \/ under = 0
    /\ ~auto \/ suspended = {} => under = 0
    /\ ~auto => over = 0
    /\ over + under <= clock

\* The watchdog acts only on Hold seconds of samples that agree: it freezes
\* under pressure, and thaws behind the user's back only in calm.
ActsOnlyAfterHold ==
    [][ /\ scanned = {} /\ scanned' # {} => pressure /\ clock + Period >= Hold
        /\ page /\ page' /\ ~Visible /\ doomed' = {} /\ suspended # {} /\ suspended' = {}
             => ~pressure /\ clock + Period >= Hold
      ]_vars

\* As much of this as others may rely on: the page keeps ReliefPromise.
Promise == INSTANCE ReliefPromise
             WITH alive <- app,
                  held  <- {p \in Pid : stop[p] = "relief"},
                  lost  <- {p \in Pid : stop[p] = "lost"}

\* What runs holds processes, lets go of all of them at once, and exits with
\* none held; only a death loses some, and those are never touched again
\* (resumeAll, ~ReliefPage; nothing of m_suspended is persisted).
KeepsPromise == Promise!Spec

(* Liveness *)

\* With automatic mode on and the pressure gone for good, whatever was frozen is
\* thawed: by hand, automatically, in the tray or across a language switch.
CalmThaws ==
    <>[](app /\ auto /\ ~pressure)
        => []<>(\A p \in Pid : stop[p] # "relief")

\* With automatic mode on and the pressure there for good, and unless the user
\* keeps resuming or switching languages, no candidate outside m_suspended
\* lasts: each is frozen, ends or stops being one.
PressureFreezes ==
    <>[](app /\ auto /\ pressure) /\ <>[][~ResumeAll /\ ~ChangeLanguage]_vars
        => \A p \in Pid : []<>(~Eligible(p, stop) \/ p \in suspended)

-----------------------------------------------------------------------------
(* What the repository says of the page, and the code does not do *)

\* "the Relief page resumes everything it froze on exit so nothing is left
\* stopped" (relief_tool.h:27-28).
NothingLeftStopped ==
    ~app => \A p \in Pid : stop[p] \notin {"relief", "lost"}
=============================================================================
