-------------------------------- MODULE Power --------------------------------
(***************************************************************************)
(* The two power timers, on the Power page and on the Settings page, and   *)
(* the Power page's "keep awake", as the shell's window, tray, navigation, *)
(* language switch and exit bear on them.                                  *)
(*                                                                         *)
(* Actors: the user, the Qt timers, the clock, the desktop's inhibition    *)
(* services, the systemd-inhibit child, and a kill.  A Qt timer that comes *)
(* due again while its timeout waits for the GUI thread times out once.    *)
(*                                                                         *)
(* Abstractions.  Both timers come due at the clock's seconds.  The D-Bus  *)
(* services number their inhibitors from one and drop those of a client    *)
(* that is gone.  A confirmation box is the user's choice to go on; which  *)
(* of the four actions is scheduled does not matter until it is over.  The *)
(* seconds are the monotonic clock's, which stands still in suspend.       *)
(***************************************************************************)
EXTENDS Integers

CONSTANTS
    Minute,      \* the ticks of a minute, 60 in the code
    MaxMinutes,  \* the spin boxes' maximum, 1440 in the code
    MaxLate      \* bounds the seconds one countdown may lose

ASSUME PowerAssumption ==
    /\ Minute \in Nat \ {0} /\ MaxMinutes \in Nat \ {0} /\ MaxLate \in Nat

Timer == {"power", "settings"}    \* a timer is named after its page
Page  == Timer \cup {"other"}
None  == "none"

VARIABLES
    (* the shell *)
    app,         \* "off", or where its window is: "visible" or in the "tray"
    minimise,    \* minimizeToTray, with a tray to go to
    current,     \* m_currentPage
    page,        \* m_pages[12]: does the Power page exist?
    (* the timers *)
    running,     \* those that are active
    due,         \* those whose timeout waits for the GUI thread
    left,        \* m_ptRemaining, m_powerRemaining
    busy,        \* whose PowerTool::perform() blocks the GUI thread, if any
    paused,      \* those with "wasActive" set
    (* keep awake: m_inhibitor and what it stands for *)
    cookie,      \* m_dbusHeld
    proc,        \* m_proc: None, "running" or "dead"
    grant,       \* does a D-Bus service inhibit sleep for this program?
    badge,       \* m_keepAwake, the tray's badge
    orphan,      \* does a systemd-inhibit that outlived the program hold on?
    (* observability *)
    asked,       \* seconds the user asked for
    elapsed,     \* seconds since
    late         \* those of them that went by with a timeout still waiting

shellVars == <<app, minimise, current, page>>
timerVars == <<running, due, left, busy, paused, asked, elapsed, late>>
awakeVars == <<cookie, proc, grant, badge, orphan>>
vars == <<shellVars, timerVars, awakeVars>>

TypeOK ==
    /\ app \in {"off", "visible", "tray"} /\ minimise \in BOOLEAN
    /\ current \in Page /\ page \in BOOLEAN
    /\ running \subseteq Timer /\ due \subseteq running /\ paused \subseteq Timer
    /\ busy \in Timer \cup {None}
    /\ left \in [Timer -> Nat] /\ asked \in [Timer -> Nat]
    /\ elapsed \in [Timer -> Nat] /\ late \in [Timer -> Nat]
    /\ cookie \in BOOLEAN /\ proc \in {None, "running", "dead"}
    /\ grant \in BOOLEAN /\ badge \in BOOLEAN /\ orphan \in BOOLEAN

Zero == [t \in Timer |-> 0]

Init ==
    /\ app = "off" /\ minimise \in BOOLEAN /\ current = "other" /\ page = FALSE
    /\ running = {} /\ due = {} /\ left = Zero /\ busy = None /\ paused = {}
    /\ cookie = FALSE /\ proc = None /\ grant = FALSE
    /\ badge = FALSE /\ orphan = FALSE
    /\ asked = Zero /\ elapsed = Zero /\ late = Zero

-----------------------------------------------------------------------------
(* What the handlers share.                                                *)

Free     == app # "off" /\ busy = None      \* the GUI thread takes events
Shown(p) == app = "visible" /\ current = p  \* a page the user can press on

BlockedByUs == cookie \/ proc = "running"
Holding     == grant \/ proc = "running"

\* Mistake: the badge is only ever lit.
ShowBadgeLitOnly == badge' = (badge \/ BlockedByUs)

\* updateSleepUi(): the badge follows blockedByUs().
ShowBadge == badge' = BlockedByUs

\* Mistake: the child is not killed.
UnblockForgettingChild ==
    /\ cookie' = FALSE
    /\ grant' = (grant /\ ~cookie)
    /\ UNCHANGED proc

\* Mistake: the cookie is cleared and not given back.
UnblockForgettingCookie ==
    /\ cookie' = FALSE /\ proc' = None
    /\ UNCHANGED grant

\* SleepInhibitor::unblock().
Unblock ==
    /\ cookie' = FALSE
    /\ grant' = (grant /\ ~cookie)
    /\ proc' = None

\* cancelPowerTimer(), and the end of a countdown whatever ends it.
StopTimers(T) ==
    /\ running' = running \ T /\ due' = due \ T /\ paused' = paused \ T
    /\ left'    = [t \in Timer |-> IF t \in T THEN 0 ELSE left[t]]
    /\ asked'   = [t \in Timer |-> IF t \in T THEN 0 ELSE asked[t]]
    /\ elapsed' = [t \in Timer |-> IF t \in T THEN 0 ELSE elapsed[t]]
    /\ late'    = [t \in Timer |-> IF t \in T THEN 0 ELSE late[t]]

\* ~PowerPage(): the timer goes with the page, the inhibitor is released.
DeletePage ==
    /\ page' = FALSE
    /\ IF page THEN Unblock /\ badge' = FALSE
               ELSE UNCHANGED <<cookie, grant, proc, badge>>

-----------------------------------------------------------------------------
(* The shell.                                                              *)

\* A page that comes in view refreshes itself (its constructor does too).
Showing(p) ==
    IF p = "power" THEN ShowBadge ELSE UNCHANGED badge

\* The program starts, in view or with --hide, on the dashboard.
Launch ==
    /\ app = "off"
    /\ app' \in {"visible", "tray"}
    /\ UNCHANGED <<minimise, current, page, timerVars, awakeVars>>

\* materializePage() and the stacked widget's switch.
NavigateTo(p) ==
    /\ Free /\ app = "visible"
    /\ current' = p /\ page' = (page \/ p = "power")
    /\ Showing(p)
    /\ UNCHANGED <<app, minimise, timerVars, cookie, proc, grant, orphan>>

\* Mistake: the timers lack it.
KeepAliveForgotten == {}

KeepAlive == Timer    \* the timers with that property

\* The window goes to the tray; hideEvent() stops the timers not kept alive.
Hide ==
    /\ app' = "tray"
    /\ paused' = paused \cup (running \ KeepAlive)
    /\ running' = running \cap KeepAlive /\ due' = due \cap KeepAlive
    /\ UNCHANGED <<minimise, current, page, left, busy, asked, elapsed, late, awakeVars>>

HideWindow == Free /\ app = "visible" /\ Hide

ShowWindow ==
    /\ Free /\ app = "tray"
    /\ app' = "visible"
    /\ running' = running \cup paused /\ paused' = {}
    /\ Showing(current)
    /\ UNCHANGED <<minimise, current, page, due, left, busy, asked, elapsed, late,
                   cookie, proc, grant, orphan>>

\* applySettings(), and the language pickers of the dialogs the Settings page
\* opens: a new language replaces the pages built in code.
ApplySettings ==
    /\ Free /\ Shown("settings")
    /\ minimise' \in BOOLEAN
    /\ \/ UNCHANGED <<page, timerVars, awakeVars>>
       \/ DeletePage /\ StopTimers({"power"}) /\ UNCHANGED <<busy, orphan>>
    /\ UNCHANGED <<app, current>>

\* The program's memory is gone, and its timers with it.
Gone ==
    /\ app' = "off" /\ current' = "other" /\ page' = FALSE
    /\ StopTimers(Timer) /\ busy' = None
    /\ UNCHANGED minimise

\* qApp->quit(): the window is asked first, and closeEvent() may hide it and
\* refuse.  The program that ends in order destroys its pages.
Quit ==
    /\ Free
    /\ IF app = "visible" /\ minimise
       THEN Hide
       ELSE /\ Gone
            /\ IF page THEN Unblock ELSE UNCHANGED <<cookie, grant, proc>>
            /\ badge' = FALSE
            /\ UNCHANGED orphan

\* A kill: no destructor runs.  The services miss their client, the child not.
Crash ==
    /\ app # "off"
    /\ Gone
    /\ cookie' = FALSE /\ grant' = FALSE /\ proc' = None /\ badge' = FALSE
    /\ orphan' = (orphan \/ proc = "running")

-----------------------------------------------------------------------------
(* The timers.                                                             *)

\* Mistake: the first paint does not count.
StartTimerUncounted(t, mins) ==
    /\ Free /\ Shown(t) /\ t \notin running
    /\ running' = running \cup {t}
    /\ left'    = [left EXCEPT ![t] = mins * Minute]
    /\ asked'   = [asked EXCEPT ![t] = mins * Minute]
    /\ UNCHANGED <<shellVars, due, busy, paused, elapsed, late, awakeVars>>

\* startPowerTimer(), confirmed: the count starts, and at once ticks once.
StartTimer(t, mins) ==
    /\ Free /\ Shown(t) /\ t \notin running
    /\ running' = running \cup {t}
    /\ left'    = [left EXCEPT ![t] = mins * Minute - 1]
    /\ asked'   = [asked EXCEPT ![t] = mins * Minute]
    /\ UNCHANGED <<shellVars, due, busy, paused, elapsed, late, awakeVars>>

CancelTimer(t) ==
    /\ Free /\ Shown(t) /\ t \in running
    /\ StopTimers({t})
    /\ UNCHANGED <<shellVars, busy, awakeVars>>

\* A second goes by, whatever the GUI thread is doing.
Second ==
    /\ running \cup paused # {}
    /\ \A t \in due : late[t] < MaxLate
    /\ due' = running
    /\ elapsed' = [t \in Timer |-> IF t \in running \cup paused THEN elapsed[t] + 1 ELSE elapsed[t]]
    /\ late' = [t \in Timer |-> IF t \in due THEN late[t] + 1 ELSE late[t]]
    /\ UNCHANGED <<shellVars, running, left, busy, paused, asked, awakeVars>>

\* Mistake: it does not look at the count.
TickBlindly(t) ==
    /\ Free /\ t \in due
    /\ due' = due \ {t}
    /\ left' = [left EXCEPT ![t] = @ - 1]
    /\ UNCHANGED <<shellVars, running, busy, paused, asked, elapsed, late, awakeVars>>

\* tickPowerTimer() with time left.
Tick(t) ==
    /\ Free /\ t \in due /\ left[t] > 0
    /\ due' = due \ {t}
    /\ left' = [left EXCEPT ![t] = @ - 1]
    /\ UNCHANGED <<shellVars, running, busy, paused, asked, elapsed, late, awakeVars>>

\* Mistake: zero is not yet the end.
FireBelowZero(t) ==
    /\ Free /\ t \in due /\ left[t] < 0
    /\ busy' = t
    /\ running' = running \ {t} /\ due' = due \ {t}
    /\ UNCHANGED <<shellVars, left, paused, asked, elapsed, late, awakeVars>>

\* tickPowerTimer() with none: the timer stops, perform() starts systemctl.
Fire(t) ==
    /\ Free /\ t \in due /\ left[t] <= 0
    /\ busy' = t
    /\ running' = running \ {t} /\ due' = due \ {t}
    /\ UNCHANGED <<shellVars, left, paused, asked, elapsed, late, awakeVars>>

\* perform() is over, refused, timed out or resumed from; cancelPowerTimer().
PerformReturns ==
    /\ busy # None
    /\ StopTimers({busy}) /\ busy' = None
    /\ UNCHANGED <<shellVars, awakeVars>>

\* perform() does not return: the machine goes down.
PowerOff ==
    /\ busy # None
    /\ Gone
    /\ cookie' = FALSE /\ grant' = FALSE /\ proc' = None
    /\ badge' = FALSE /\ orphan' = FALSE

-----------------------------------------------------------------------------
(* Keep awake.                                                             *)

\* block(): a D-Bus service inhibits, or else systemd-inhibit does or fails.
Block ==
    \/ cookie' = TRUE /\ grant' = TRUE /\ UNCHANGED proc
    \/ proc' \in {"running", None} /\ UNCHANGED <<cookie, grant>>

ToggleSleepBlock ==
    /\ Free /\ Shown("power")
    /\ IF BlockedByUs THEN Unblock ELSE Block
    /\ badge' = (cookie' \/ proc' = "running")
    /\ UNCHANGED <<shellVars, timerVars, orphan>>

\* refreshState(), every five seconds the page is in view.
Refresh ==
    /\ Free /\ Shown("power")
    /\ ShowBadge
    /\ UNCHANGED <<shellVars, timerVars, cookie, proc, grant, orphan>>

\* The desktop's service ends, and nobody tells the program.
ServiceEnds ==
    /\ grant /\ grant' = FALSE
    /\ UNCHANGED <<shellVars, timerVars, cookie, proc, badge, orphan>>

InhibitorDies ==
    /\ proc = "running" /\ proc' = "dead"
    /\ UNCHANGED <<shellVars, timerVars, cookie, grant, badge, orphan>>

\* The user kills what a crash left.
OrphanDies ==
    /\ orphan /\ orphan' = FALSE
    /\ UNCHANGED <<shellVars, timerVars, cookie, proc, grant, badge>>

-----------------------------------------------------------------------------
Next ==
    \/ Launch \/ HideWindow \/ ShowWindow \/ ApplySettings \/ Quit \/ Crash
    \/ \E p \in Page : NavigateTo(p)
    \/ \E t \in Timer : \/ \E mins \in 1 .. MaxMinutes : StartTimer(t, mins)
                        \/ CancelTimer(t) \/ Tick(t) \/ Fire(t)
    \/ Second \/ PerformReturns \/ PowerOff
    \/ ToggleSleepBlock \/ Refresh
    \/ ServiceEnds \/ InhibitorDies \/ OrphanDies

Spec == Init /\ [][Next]_vars

(* The clock goes on, systemctl is given fifteen seconds, and the event    *)
(* loop serves a timeout that waits whenever it is free again and again:   *)
(* Qt keeps it while a handler blocks.  Nothing is owed by the user or the *)
(* desktop.                                                                *)
Served(t) == SF_vars(Tick(t)) /\ SF_vars(Fire(t))
TimersServed == \A t \in Timer : Served(t)

Fairness ==
    /\ WF_vars(Second) /\ WF_vars(PerformReturns)
    /\ TimersServed
    /\ SF_vars(Refresh)

FairSpec == Spec /\ Fairness

-----------------------------------------------------------------------------
(* What must hold.                                                         *)

(* A scheduled action starts the minutes asked for after it was scheduled, *)
(* to the second, but for the seconds that went by while the GUI thread    *)
(* was kept from a waiting timeout: never early, and not later than that.  *)
FiresOnTime ==
    [][\A t \in Timer : busy # t /\ busy' = t => elapsed[t] = asked[t] + late[t]]_vars

(* A countdown ends by firing, by the Cancel button in view, with the      *)
(* program, or with its page when the language changes: not by minimising, *)
(* by navigating, or by the other timer's end (keepAlive, cancelPowerTimer). *)
EndsForAReason ==
    [][\A t \in running : t \notin running' =>
          \/ busy' = t \/ app' = "off"
          \/ Shown(t) /\ UNCHANGED page
          \/ t = "power" /\ ~page']_vars

(* Whatever holds the machine awake for the running program is known to a  *)
(* page whose button releases it, and shown in the tray; the badge is on   *)
(* without it only while the page has not yet found the child dead.        *)
HoldIsShown ==
    /\ app # "off" /\ Holding => page /\ BlockedByUs
    /\ BlockedByUs => badge
    /\ badge /\ ~BlockedByUs => proc = "dead"

(* A program that ends in order, by Quit, holds nothing more and leaves    *)
(* no child that does (~PowerPage, ~SleepInhibitor).                       *)
QuitReleases ==
    [][Quit /\ app' = "off" => ~Holding' /\ ~badge' /\ orphan' = orphan]_vars

(* A countdown comes to an end: its ticks are served in the tray as well,  *)
(* and a refused perform() of the other timer does not stop it.            *)
CountdownEnds == \A t \in Timer : t \in running ~> t \notin running

(* The page in view finds out that its inhibitor died.                     *)
BadgeCatchesUp ==
    badge /\ ~BlockedByUs /\ Shown("power") ~> badge = BlockedByUs \/ ~Shown("power")

(* "a live countdown that keeps running while minimized ... is now on the  *)
(* Power page, mirroring the one in Settings" (CHANGELOG.md): either stays *)
(* scheduled until it fires, is cancelled in its page, or the program ends. *)
StaysScheduled ==
    [][\A t \in running : t \notin running' =>
          busy' = t \/ app' = "off" \/ (Shown(t) /\ UNCHANGED page)]_vars
=============================================================================
