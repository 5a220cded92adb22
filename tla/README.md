# GT-STACER in TLA+

GT-STACER is a Qt 6 system manager for Linux desktops: it shows what the
machine does, freezes idle processes under load, cleans caches, installs,
removes and upgrades packages, takes snapshots, and updates itself. This
directory models the parts of it that keep state over time and act on the
system, checks them with TLC on small instances, and proves the most important
properties with TLAPS for every instance.

Paths below are relative to `gt-stacer/` (the GUI) and `gt-stacer-core/` (the
tools and the readers of `/proc`) of the repository.

1. [The system](#1-the-system) 2. [Modules](#2-modules) 3. [Runs](#3-runs) 4.
[Bounds](#4-bounds) 5. [Fairness](#5-fairness) 6. [Proofs](#6-proofs) 7.
[Disagreements between the code and what is said of
it](#7-disagreements-between-the-code-and-what-is-said-of-it) 8. [Not
modelled](#8-not-modelled) 9. [Plan](#9-plan)

## 1. The system

All of the program's logic runs on the GUI thread, one handler at a time.
Concurrency enters in five ways, and every model is about one or more of them:

- the **kernel and other programs** change processes, files and packages
  between and during handlers;
- **nested event loops** (`exec()` of a dialog, `QProgressDialog::setValue`,
  `waitForFinished`) deliver other events in the middle of a handler;
- **timers** keep running in pages that are hidden, in the tray, or about to be
  replaced;
- **asynchronous jobs** (`QtConcurrent`, `QProcess`, `QNetworkReply`) deliver
  results after the state they were started in has changed;
- a **runtime language switch** deletes and rebuilds pages, and the deletion is
  deferred: the new page exists before the old one's destructor has run.

Nothing but `QSettings` is persisted, so a crash loses all else.

| Component | State it keeps | Operations | Meets | What is hard | What makes it correct |
|---|---|---|---|---|---|
| **System Relief** (`Pages/Relief`, `Tools/relief_tool`) | what it froze, two hold counters, a table with ticks, a monitor timer with two marks | suspend the ticked rows, resume all, toggle automatic mode, refresh, one watchdog tick, show, hide, construct, destroy | the kernel (signals), the shell (timers, pages), the user's own job control | crash, pid reuse, stale rows, language switch, tray, hold counting | nothing it froze is forgotten; the watchdog runs exactly while needed; it acts only on a full hold; all that is frozen is thawed in the end |
| **Command log window** (`Dialogs/command_log_dialog`) | a batch, its index, one child process, three flags | open, start the next step, a step ends, Stop, close, Escape, delete | the package page, `pkexec`, Qt's deferred delete | Stop against the command's own end, root commands that cannot be signalled, deletion over a running command | the page is told once, truly, and only when all is quiet; nothing starts after a failure or Stop; Stop ends |
| **Self-updater** (`Managers/self_updater`, `Pages/Settings`) | phase, release, asset, flags; four files on disk | start, two downloads, cancel, verify, install by renames or by the package manager | the network, the file system, the progress dialog | failures and crashes between any two steps, what earlier attempts left, Cancel in nested loops, a package manager that outlives its attempt | only a verified release is put in place; something usable always remains; every attempt is answered |
| **Update checker** (`Managers/update_checker`) | the last answer: version and assets | check, compare versions | the network, Settings | two checks in flight; odd version strings | a newer version and only a newer one is offered |
| **Shell** (`app`, `main`, `Managers/app_manager`) | current page, built pages, tray, paused timers, theme | launch, navigate, hide and show, switch language, quit | every page | order of hide and show events, lazily built and replaced pages | timers run exactly as pages need; no page's duty is dropped by a switch |
| **Power** (`Pages/Power`, `Pages/Settings`, `Managers/sleep_inhibitor`) | two independent timers, inhibitor cookie or process, tray badge | start, cancel, tick, perform; block, unblock, refresh | D-Bus, `systemd-inhibit`, the shell | a page replaced while its timer counts, an inhibitor that dies, cookie 0 | a scheduled action happens on time unless cancelled; what is blocked is released |
| **Package tables** (`Pages/PackageManager`) | five tables, three buttons, a question, loads in worker threads, operations in log windows | load, search, check, ask, confirm, run, be told | worker threads, the command log window, the package managers | two loads of one table in flight, tables reloaded between a question and its answer, combo boxes that have moved on, windows dismissed over their batch, list commands that fail | nothing that was found installed is missing once all has answered; buttons tell the truth; what runs is what was confirmed |
| **System Cleaner** (`Pages/SystemCleaner`) | cards with ticks and sizes, scan flag, two buttons, status line | tick, scan, ask, make a restore point, clean, answer | worker threads, the snapshot engine | the overlay keeps the mouse away but not the keyboard: ticks and a second job while one runs; a restore point that fails, files that cannot be removed | only what was confirmed is cleaned, never before its restore point; the status line says no more than the worker knows |
| **Snapshots and backup** (`Pages/Backup`, `Tools/snapshot_tool`, `Tools/backup_tool`) | the engine, its snapshot list, one `rsync` child | choose an engine, list, create, delete, restore, back up, cancel | worker threads, `rsync`, the cleaner | a child that fails to start, ends inside Cancel's wait, or outlives its page | a page is busy exactly while it has a child; what started ends; Cancel is safe |
| **Recovery** (`Pages/Recovery`) | one `photorec` child behind `pkexec`, the destination | start, cancel | `findmnt`, `lsblk`, `pkexec` | as for backup; device names in many forms; root's child cannot be signalled | as for backup; never onto the disk being carved |
| **Alerts** (`Managers/alert_manager`) | last firing time per key | enable, tick, fire | readers of `/proc`, notifications | the cooldown against escalation | every condition is reported, at most once per cooldown |
| **Processes page** (`Pages/Processes`) | a table | suspend, resume, kill, renice | the kernel | stale rows | appears as an environment action of System Relief |
| **Connections, services, startup, firewall, APT sources, helpers** | a table each | one command per button, reload | `pkexec`, files | little | a row names what the command acts on |
| **Dashboard, resources, sensors** | samples | read and draw | `/proc`, `/sys` | none to speak of | – |
| **Utilities** (`Utils/`), **settings, language, theme**, **dialogs, widgets** | `QSettings` | synchronous wrappers, presentation | – | – | – |
| **Uninstaller page** | – | not built into the window any more | – | – | – |

`PROJECT.json` lists each with its sources under `components`, and every place
where this code is hard to test under `hazards`, with the properties that watch
it or the reason why none does.

## 2. Modules

| Module | What it is |
|---|---|
| `Relief` | the System Relief page, its tool, the window events that reach it, and the kernel's process table |
| `ReliefPromise` | what others may rely on of System Relief: an abstract specification `Relief` implements |
| `ReliefProofs` | theorems about `Relief` |
| `CommandLog` | the log window of a batch of package commands |
| `BatchPromise` | what the page that opened a log window may rely on: an abstract specification `CommandLog` implements |
| `CommandLogProofs` | theorems about `CommandLog` |
| `SelfUpdate` | the in-app updater over disk, network, Cancel and crashes |
| `UpdatePromise` | what the user of the updater may rely on: an abstract specification `SelfUpdate` implements |
| `SelfUpdateProofs` | theorems about `SelfUpdate` |
| `Power` | the two power timers, keep awake, and the shell's events that bear on them |
| `PowerProofs` | theorems about `Power` |
| `PackageTables` | the tables of the package page, their loads and the operations started from them |
| `PackageTablesProofs` | theorems about `PackageTables` |
| `Cleaner` | the System Cleaner page, its worker threads and its restore points |
| `CleanerProofs` | theorems about `Cleaner` |
| `DiskJobs` | the two pages with one long child: home backup (`rsync`) and recovery (`photorec`) |
| `DiskJobsProofs` | theorems about `DiskJobs` |
| `MCRelief`, `MCCommandLog`, `MCSelfUpdate`, `MCPower`, `MCPackageTables`, `MCCleaner`, `MCDiskJobs` | instances for TLC |

The modules meet at these places: an operation of `PackageTables` in a "log"
window is a batch of `CommandLog`, seen from outside, and lives through the
phases of `BatchPromise`: `"running"`, `Shown` once it has told, `"lost"` when the
window was dismissed over it (which `command_log_closed` shows to be possible),
and from there told still or ended without a word. `Tell`, `CloseWindow`,
`Escape` and `LostEnds` are its `Tell`, `Close`, `Dismiss` and `EndUntold`;
the engine of `Cleaner` is the one the Backup page chooses; `RebuildPages` of
`DiskJobs` is the language change of `Relief` and `Power`.

In each model a definition whose comment begins with *Mistake* is not part of
the specification: it is a plausible bug in the definition after it, kept to
show that some property notices.

### 2.1 Relief

*State.* `kind` and `stop` are the kernel's: for each pid, the class that the
filters of `ReliefTool::candidates()` would put its process in, and whether it
is stopped and by whom. The page's fields carry the code's meaning: `suspended`
is `m_suspended`, `over` and `under` are `m_overSeconds` and `m_underSeconds`,
`listed` and `checked` are the rows of `m_table` and their ticks, `ticking`,
`keepAlive` and `wasActive` are the monitor timer and the two dynamic
properties by which `App::hideEvent` and `App::showEvent` pause and restart it.
`page` says whether `m_pages[10]` exists, `cur` and `win` whether it is current
and the window shown. `scanned` is the local variable of `tickMonitor()`
between the scan of `/proc` and the signals: the only handler split in two,
because the kernel moves in between. `doomed` is `m_suspended` of a page that a
language switch has replaced and whose destructor has not run. `clock` is an
observer: the seconds the ticks counted so far have taken.

*Actions.* `Launch`, `Quit` and `Die` are the ways the program starts and ends;
`OpenRelief`, `LeaveRelief`, `HideWindow`, `ShowWindow` and `ChangeLanguage` are
`App`'s handlers with the show and hide events they cause, in Qt's order (a
window's own `hideEvent` before its children's, its own `showEvent` after);
`DeleteOldPage` is the deferred `~ReliefPage()`. `ToggleRow`, `ToggleSelectAll`,
`Refresh`, `SuspendSelected`, `ResumeAll` and `OnAutoToggled` are the page's
buttons; `TickMonitor` and `SuspendScanned` are `tickMonitor()`. The rest of the
system may at any time start, end, change, stop and continue a process, and
change the pressure. A pid is reused: `Spawn` after `End` gives it to a process
of any class.

*Data left out.* CPU, RAM and I/O readings are one Boolean; the labels, the
dropping of caches, ionice and the I/O scheduler change none of this state.
Minimising without a tray leaves `isVisible()` true and is no step of the model.
A hold that the user changes while it is being counted is not modelled.

*Abstract specification.* `ReliefPromise` knows only whether the program runs,
what it holds stopped, and what a crash left stopped. `KeepsPromise` is the
refinement, with `held` and `lost` read off the process table; it says that the
page never thaws only some of what it froze, exits with nothing held, and never
touches what an earlier crash left.

### 2.2 CommandLog

*State.* `steps`, `idx`, `running`, `cancelled`, `allOk` are the dialog's
fields; `proc` is the state of its `QProcess`, `root` and `killed` what the
kernel knows of the command. `dlg` tells an open window from one that is hidden
and awaits its deletion. `outcome` and `told` observe how each step ended and
what the page was told by `completed()`.

*Actions.* `Open` is `runCommands()`, `addStep()` and `start()`. `StartNext`,
`FinishAll` and `Finished` are the operators of the same name in the code and
its `finished` slot; the skipping of empty steps, recursive in the code, is one
`Min`. `Stop` is `stopRequested()`: it signals, and its two-second wait either
delivers the end of the command, whatever that end is, or gives way to `kill()`,
which fails with `EPERM` on a root command. `Close` and `Escape` are the two
ways to dismiss the window, only one of which goes through `closeEvent()`.
`DeleteRunning` is the destructor with a command still running: `~QProcess`
emits `finished` into a slot whose widgets are being destroyed, which is
undefined, so the slot may run to its end or not at all.

*Abstract specification.* `BatchPromise` knows what the page knows: whether there
is a window and what it is about, whether a command of the batch is alive, whether
all is well, and what it was told. Steps, the index, the process and its signals
are gone. `KeepsPromise` is the refinement (`Window`, `Work`, `Well`): the window
tells once, in quiet, "finished" only of a batch that went well and was not
stopped; nothing is started after a failure or Stop; and only a batch whose window
was dismissed ends without a word, or leaves a root command behind.

### 2.3 SelfUpdate

*State.* `target`, `backup`, `pkg` and `sums` are the four files, by what they
hold: a release, nothing, or a damaged download. They survive crashes and later
attempts, which is where most of the difficulty lies. `unattended` is on disk too,
so to speak: the packages that root's package managers are about to install though
nobody waits for them any more. `phase` is the handler due
next, so that a crash may fall between any two steps that touch the disk and
Cancel between any two handlers. `late` and `stuck` are observers: Cancel came
when nothing reads it any more, and the rename that should restore the old image
failed.

*Actions.* `Start` is `downloadAndInstall()` and `start()`, including that
`installMethod()` is asked anew each time and may change its answer;
`PackageArrives`, `SumsArrive`, `DownloadFails` and `Cancel` are the two
downloads; `Verify` is `afterSumsDownloaded()`; `RemoveBackup`, `MoveAside`,
`Place`, `Restore` and `CleanUp` are the file operations of `installFile()` for
an AppImage, `InstallPackage` its other branch. `UserRestores` and
`UserReinstalls` are what a person does with a program that is gone.

`InstallPackage` ends in one of four ways, since `execProgram()`
(`command_util.cpp:80-90`) knows no more than an exit status and a deadline: the
package is installed and the user is told so; it is installed and `dpkg` or `rpm`
fails all the same (a maintainer script, a trigger), told as a failure; ten minutes
pass, `kill()` does not reach root's process, "failed" is told, and the manager goes
on, in `unattended`; or nothing is done. A program that dies while the manager is at
work (`AtWork`) leaves it behind in the same way. `ManagerEnds` is its end, whenever
that is, with the package in place or not.

After a failed restore the old image is in `$APPIMAGE.old` only, and the next
attempt of the same instance begins by removing that file. The model has this
behaviour; `Survives` and `ChangesOnlyToVerified` except it through `stuck`.

*Abstract specification.* `UpdatePromise` has one image, one attempt and one
answer; the four files and the eight phases are gone. `KeepsPromise` is the
refinement, with `Usable` as the image: it changes once per attempt, to the
release asked for, in one step although the code takes two renames; "updated" is
said only when it has; "failed" only of an attempt that changed nothing, if it was
an AppImage's; and an image is lost only by an attempt that follows a failed
restore. Of a package the code promises less, and so does `UpdatePromise`: "failed"
may be told of an attempt whose package was installed (`FailInstalled`) or may still
be (`Abandon`, `ManagerEnds`). What then comes is a release that was verified, and
no other.

### 2.4 Power

*State.* `app`, `minimise`, `current` and `page` are the shell: whether the
program runs and where its window is, `minimizeToTray` with a tray to go to,
`m_currentPage`, and whether `m_pages[12]` exists. For each of the two timers,
named after their pages, `running` says that it is active, `due` that its
timeout waits for the GUI thread, and `left` is `m_ptRemaining` or
`m_powerRemaining`; `paused` is the property `wasActive`. `busy` is the timer
whose `PowerTool::perform()` keeps the GUI thread, for up to fifteen seconds.
`cookie` is `m_dbusHeld`, `proc` is `m_proc` and whether its process lives,
`grant` what a D-Bus service has granted, `badge` is `m_keepAwake`. `asked`,
`elapsed` and `late` observe a countdown: the seconds wanted, gone by, and gone
by while an earlier timeout was still waiting (Qt then delivers one for both).

*Actions.* `StartTimer`, `CancelTimer`, `Tick`, `Fire` and `PerformReturns` are
the same code twice, in `power_page.cpp` and `settings_page.cpp`; `Second` is the
clock. `NavigateTo`, `HideWindow`, `ShowWindow`, `ApplySettings` and `Quit` are
the shell's. `qApp->quit()` first closes the window, and `closeEvent()` may hide
it instead, so that neither the tray's Quit nor Ctrl+Q (`app.cpp:77` "quit
unconditionally") ends the program while its window is in view and
`minimizeToTray` is set. `ApplySettings` deletes the Power page when the
language changes: it never is the current page then, since every way to change
the language begins on the Settings page or before the first event.
`ToggleSleepBlock` and `Refresh` are the page's; `ServiceEnds`, `InhibitorDies`,
`OrphanDies`, `Crash` and `PowerOff` are the environment's.

*Data left out.* Which of the four actions a timer is for, the box that asks
before a start, whether `isAvailable()` refuses it, power profiles and charge
limits, and the text of the sleep label, which shows other programs' inhibitors
too.

### 2.5 PackageTables

*State.* `rows` are the three models by what they list; `srchButton`, `upCheck`,
`upAll` whether these buttons are enabled; `box` the modal question on the screen,
with the batch it is about. `loads` are the worker threads with their
`QFutureWatcher`: a load is *queued* until the manager has been asked and *read*
until its slot has appended the answer. `jobs` are the operations: a log window,
or the worker of `runOff()`. The log window is modal
(`command_log_dialog.cpp:18`), while its batch runs and, `Shown`, until it is
closed: the page can be pressed on (`Reachable`) only when no window is up, which
a dismissed one no longer is. `installed` is the system's. `unseen` is an
observer: an operation was lost (its window dismissed over it) and the Installed
table has not been asked for since. `leftOut` is another: what was installed and
the list commands did not tell of, since that table was last emptied.

*Actions.* `LoadInstalled` and `LoadUpgrades` are used by the buttons (`Reload`,
`CheckUpgrades`), by the constructor, and by the `after` of every operation
(`Tell`); `RunSearch` is reached by Return in the search field whether or not the
button is enabled. `Read` and `Answer` are the two halves of a load. A list command
is read through `CommandUtil::execLines()` (`command_util.cpp:37-43`), which waits
ten seconds and looks at nothing but the output: a command that fails or is slow
gives fewer rows, or none, so that `Read` finds *any* part of what is installed. A
line that is cut in the middle counts as missing. `AskRemove`,
`AskInstall` and `AskUpgradeAll` collect the targets *before* the question, and
while the question is up loads answer and operations end behind it; `Yes` starts
the batch, split between the log window and the worker thread if it holds manual
applications; `UpgradeSelected` starts one unasked. `StepDone`, `StepFails`,
`CloseWindow`, `Escape` and `LostEnds` are what becomes of an operation; a lost one
may still be told of, when the slot of `finished()` runs during the deletion of
its window.

*Data left out.* Which rows are ticked (any are), the text of the search, sizes
and versions, sorting and filtering; the query for the package that owns a manual
application (`packageOwned()`), and with it the second look that `removeManual()`
takes: a manual application is its own manager's here. The Store and AppImages
tabs repeat the pattern of the Installed one. The combo boxes show any manager
whenever they are read.

### 2.6 Cleaner

*State.* `ticked` and `sized` are the cards that are checked and that show a
size, `scanCompleted` is `m_scanCompleted`, `status` what the status line says of
the last job, `box` the question on the screen (a copy of what was ticked, and
whether it offers a restore point), `jobs` the worker threads with their copy of
the categories. `active` is `s_active`, which the Backup page sets, and
`pointTaken` whether a ZFS snapshot of the cleaner's constant comment exists.

*Actions.* `Tick` is both a card and Select All; it is possible while a job runs,
because the overlay takes the mouse but not the keyboard, and it enables Clean by
`refreshSelectionUi()`. `Scan`, `Scanned`, `ScanAnswers` are `scan()`, its worker
and its slot; `AskClean`, `Cancel`, `CleanNow`, `MakePoint`, `CleanCategory`,
`CleanAnswers` are `clean()`, its worker and its slot. `MakePoint` may always fail
(a denied password), and must where the engine is ZFS and the name is taken; one
that was given up may have taken its ZFS snapshot all the same. `CleanCategory` ends
in one of three ways. `cleanCategory()` passes over what `removeFile()` returns
(`system_cleaner_page.cpp:334-339`), so that a category of the user's own files is
cleaned, or is said to be and has files left (`left` in the job); it never fails. A
category of root's is cleaned, or fails, as its command says.

*Data left out.* The sizes, the drill-down dialogs, and which files of a category
are left. Root's command is taken at its word. A system without any
snapshot engine offers no restore point and is not an instance.

### 2.7 DiskJobs

*State.* For each of the two pages, `busy` is what `setBackupRunning()` or
`setRunning()` has set, `child` is `m_proc` and the state of its command,
`killed` whether it has been sent SIGKILL; `carving` holds the source and
destination of the recovery; `crashed` says in what the program crashed.
A device name is a record of the disk and the partition it stands for and the
form it is written in; `BaseDisk` is the cutting of digits by what it does to
each form.

*Actions.* `StartBackup` and `StartRecovery` start the child; `Launch` is its
successful or failed start (on a failure only `errorOccurred()` is emitted, which
neither page connects), `ChildEnds` its end. Cancel is `terminate()` and
`waitForFinished(2000)`: `CancelEnded` when the command ends within the wait,
`CancelTimedOut` when it does not (SIGKILL then reaches it, unless it is root's),
`CancelFailed` when it turns out not to have started. `RebuildPages` is the
language change; a child that outlives the destructor's second is waited for
again by `~QProcess`, when the widgets its slot uses are gone, which is undefined:
the program may crash or not.

*Data left out.* Progress, exit codes, file types, and the sorting of what was
recovered.

## 3. Runs

| Run | Configuration | Distinct states | Shows |
|---|---|---|---|
| `relief` | `MCRelief.cfg` | 304 436 | bookkeeping, timers, counters, that `Relief` implements `ReliefPromise`, that lasting calm thaws and lasting pressure freezes |
| `relief_left_stopped` | `MCReliefNothingLeftStopped.cfg` | violated | section 7 |
| `command_log` | `MCCommandLog.cfg` | 4 179 | the page is told once, truly and in quiet; nothing starts late; `CommandLog` implements `BatchPromise`; Stop ends |
| `command_log_closed` | `MCCommandLogNeverClosed.cfg` | violated | section 7 |
| `self_update` | `MCSelfUpdate.cfg` | 18 996 | only verified releases, always something usable, `SelfUpdate` implements `UpdatePromise`, also with a package manager that outlives its attempt, every attempt answered |
| `power` | `MCPower.cfg` | 37 092 | countdowns fire to the second and end for a reason; nothing is held that is not shown; quitting releases |
| `power_stays` | `MCPowerStays.cfg` | violated | section 7 |
| `package_tables` | `MCPackageTables.cfg` | 4 447 851 | nothing that the list commands told of is missing in the end, buttons tell the truth, what runs is what was confirmed |
| `cleaner` | `MCCleaner.cfg` | 6 253 873 | what was confirmed is cleaned, behind its restore point, and told as far as the worker knows |
| `disk_jobs` | `MCDiskJobs.cfg` | 3 011 | busy exactly while there is a child; recovery goes elsewhere; what started ends |
| `recovery_source` | `MCDiskJobsSource.cfg` | violated | section 7 |
| `backup_cancel` | `MCDiskJobsCancel.cfg` | violated | section 7 |

The properties, by the question they answer:

**Relief.** *Is anything forgotten?* `FrozenTracked` (what the running instance
stopped is in `m_suspended` of the page or of its replaced predecessor, and an
orderly exit leaves nothing), `LostUnreachable` (what a crash left stopped never
appears in a table or a set of a later instance, which is why it stays stopped),
`KeepsPromise`. *Does the watchdog run exactly when needed?* `WatchdogAlive`,
`IdleCostsNothing`. *Does it act only when it should?* `CountersFresh`,
`ActsOnlyAfterHold`. *Does it act in the end?* `CalmThaws`, `PressureFreezes`.

**CommandLog.** `ToldTruly`, `NothingStartsLate`, `NoRootAfterStop` (Stop before
the password keeps the step from running as root), `KeepsPromise` (among the rest:
when the page reloads its tables, no command of the batch is still changing the
system, which `QuietWhenTold` states by itself), and the liveness property
`StopEnds`.

**SelfUpdate.** `ChangesOnlyToVerified` (what the user can run changes only to the
verified package of the requested release, even with damaged files of earlier
attempts lying about; a package manager that was left behind may still make that
change, with the release it was given), `Survives`, `CancelInTime`, `KeepsPromise`
(among the rest: "updated" is said only with the release in place, which
`SaidTruly` states by itself), and the liveness property `AlwaysAnswered`.

**Power.** `FiresOnTime` (a scheduled action starts the minutes asked for after it
was scheduled, plus the seconds the GUI thread was blocked: the first tick, which
only paints but counts, and the test for zero before the decrement make up for
each other), `EndsForAReason` (neither minimising nor navigating nor the other
timer ends a countdown), `HoldIsShown` (whatever keeps the machine awake for the
program is known to a page whose button releases it, and shown in the tray),
`QuitReleases`, and the liveness properties `CountdownEnds` and `BadgeCatchesUp`.

**PackageTables.** `NothingMissing` (once every load has answered and every
operation has been told, the Installed table lists whatever is installed and the
list commands told of, however loads and operations overlapped: nothing is lost
between a command and the table. It may list more, since two answers append both),
`ButtonsTrue` ("Upgrade all" is offered only over a table that lists an upgrade,
and a greyed button has an answer to wait for), `RunsWhatWasAsked` (what starts is
what the question named, though tables and combo boxes have changed since, and
each command is put to the manager that knows its package).

**Cleaner.** `CleansAsConfirmed` (two parts: `OnlyWhatWasListed`, whatever is
ticked or scanned meanwhile, and `NothingBeforeItsNet`, the restore point that was
asked for is made before anything is gone) and `TellsOfCommands` ("nothing was
cleaned" is said only if no category was touched, "complete" only if every command
of root's that was confirmed went well; of the user's own files "complete" says no
more than that they were gone through, see section 7).

**DiskJobs.** `StartIsFree` (Start is enabled exactly when the page has no child,
so that `m_proc` is never overwritten over a running command),
`UnderstoodIsElsewhere` (recovered files go to another disk, for the forms of
names `baseDisk()` understands) and the liveness property `StartedEnds`.

## 4. Bounds

| Constant | Value | Why it is enough |
|---|---|---|
| `Pid` | two model values | the page treats pids independently, except that its operations act on sets: two give a set of which some are delivered and others not, one reused while the other is not. |
| `Hold` | 3 (2 in the violation run) | the least for which a counter can be at zero, in between, and at the hold; the code allows 2..120 and `ReliefProofs` covers all |
| `MaxSteps` | 3 | a step before, at and after a failure or Stop; empty steps in any place |
| `MaxRelease` | 2 | a file left by an attempt for one release met by an attempt for another |
| `Minute`, `MaxMinutes` | 3, 1 | three ticks: one by which it starts, one in between, and zero. What a longer countdown adds is `PowerProofs`' |
| `MaxLate` | 1 | one second lost by each countdown, at any place in it; bounds `Second` |
| `Pkg`, `Mgr`, `Manual` | a package of one manager and a manual application, two managers | a batch may go to the log window, the worker thread, or both; a combo box may show a manager that does not know the package |
| `Load`, `Job` (packages) | 2, 2 | two loads of one table answer in either order, and one of another table between them; a batch needs two jobs at most, and two batches overlap. Both symmetric |
| `Category` | one of the user's, two of root's | done, failed and left at the same moment; a question with and without root's |
| `Engine` | one that cannot restore, ZFS | the engine changes between question, restore point and answer |
| `Job` (cleaner) | 2 | a scan over a cleaning, two cleanings; symmetric |
| `Disk`, `Nvme`, `MaxPart` | a SATA and an NVMe disk, 2 | every form of name on the same and on another disk, and two partitions of one |

The violation runs use one process, or one release, or two steps: the shortest
counterexamples need no more. No run has a state constraint: the
counters are bounded by the code, and `late` by `MaxLate` in the guard of
`Second`.

## 5. Fairness

- `Relief`: weak fairness of `TickMonitor`, `SuspendScanned` and
  `DeleteOldPage`. Qt delivers the timeouts of a running timer and a posted
  deferred delete, and a handler runs to its end. Nothing is assumed of the user,
  of other processes, or of the pressure: `CalmThaws` and `PressureFreezes`
  state what pressure they need as hypotheses. `PressureFreezes` also excludes
  resuming and language switches for ever, either of which starts a new hold.
- `CommandLog`: a start succeeds or fails, a process that got SIGKILL dies, a
  posted delete is delivered. A command is not assumed to end.
- `SelfUpdate`: handlers that are due run, and a download ends in one way or
  another. Which way, and what any file operation returns, is free.

- `Power`: the clock goes on, and `perform()` returns (`execProgram()` waits
  fifteen seconds at most). `Tick`, `Fire` and `Refresh` are strongly fair: the
  other timer may block the GUI thread again and again, but Qt keeps the timeout
  that waits and delivers it when the event loop is free.

- `DiskJobs`: a command that has started ends (there is so much to copy or to
  carve and no more). Its start is not fair: Qt reports it, but a command that
  fails to start never frees its page, and nothing is claimed of it.
- `PackageTables`, `Cleaner`: none; their properties are safety properties.

No action of the user is fair in any module.

## 6. Proofs

`ReliefProofs` proves, for every set of processes and every hold of at least two
(`HoldAssumption`, the range of the spin box is 2..120), every safety property
that run `relief` checks.

The invariants are not inductive one by one. `IInv` joins them with what they
rest on, in four groups:

- `TypeOK`;
- `Counters`: `CountersFresh`, and `ClockBound` (a tick lasts two seconds at
  most), without which the type of `clock` would not be preserved;
- `Windows`: `WatchdogAlive` and `IdleCostsNothing` rest on `Structure` (window
  and page exist only while the program runs; a page that does not exist holds
  nothing) and on `PausedIsCurrent`: a timer that `App::hideEvent` has paused
  belongs to the current page, whose own `showEvent` restarts it. Without this,
  `App::showEvent` could restart a timer that nobody needs;
- `Frozen`: `FrozenTracked` and `LostUnreachable` rest on `StoppedOwn` (only this
  user's processes are ever stopped, so that SIGCONT to one of them is always
  delivered) and on `NoOverlap` (the replaced page is deleted before the new one
  can freeze anything).

Each group is preserved by a lemma of its own, with a step per action or per
group of actions that touch the same variables; `Invariance` joins them.
`HoldHolds` follows from the invariant action by action, and `ReliefKeepsPromise`
maps every step to a step of `ReliefPromise` or to a stutter.

`CommandLogProofs` proves, for batches of any length (`MaxStepsAssumption`), every
safety property that run `command_log` checks, and `StopEnds`. `IInv` ties
together the process, the flags, the outcomes and what the page was told: a live
command belongs to a running batch whose window is there (`CommandInBatch`), the
page has heard nothing of a batch that runs (`SilentWhileRunning`), steps before
the one at hand went well and later ones have not begun (`InOrder`), and a command
that outlives Stop is root's or has its SIGKILL (`StopHolds`). Without the last,
the authorisation of a step could follow Stop; without `InOrder`, a success could
be announced over a failure. `NextStep` is a minimum over the rest of the batch:
`HasLeast` gives it from the well-foundedness of the naturals, `NextStepSkips`
says what it skips, and `StartsStep` and `FinishedStep` carry `IInv` through
`startNext()` and through the slot of `finished()`, for the four actions that call
it. `WindowKeepsPromise` is the refinement. It needs one invariant more,
`Watched`: while its window is there, a batch that runs has a process, be it one
that failed to start, and a batch that does not run has told; while it runs
nothing has failed but that start. `FinishedPromise`, `StopPromise` and
`DeletePromise` map the three handlers that may tell the page, `PromiseStep` all
the others.

`SelfUpdateProofs` proves, for any number of releases (`ReleaseAssumption`), every
safety property that run `self_update` checks. `IInv` says what each phase may
rely on: the downloaded file is the release from the verification on, until it is
the program (`Verified`); the program's path is empty between the two renames and,
while the program runs, at no other time but after a failed restore
(`EmptyBetweenRenames`); a Cancel during the downloads ends the attempt
(`CancelSeen`). `UsableStep` then shows that only the rename into place and the
package manager change what the user can run. `UpdaterKeepsPromise` is the
refinement. It rests on `OnlyAppImages` in `IInv`: only the attempt of an AppImage
is ever in the phases of the renames, and only its restore can fail; and an AppImage
has no package manager left behind, so that of an AppImage "failed" keeps its full
meaning. What a manager is left with was verified: it enters `unattended` as the
downloaded file, of which `Verified` says that it is the release.

`PowerProofs` proves, for a minute of any length, any number of minutes and any
number of lost seconds (`PowerAssumption`), every safety property that run `power`
checks. `IInv` joins the types (no countdown goes below zero) with `Counts`, the
account of a countdown (what is left and what has gone by make up what was asked
for, each lost second and the timeout that waits counted once), `Rest` (a timer
that neither counts nor fires is reset, and none is paused: both have
`keepAlive`), and `Owned` (only an existing page has an inhibitor, and the Power
page exists when it is current). `FiresOnTime` is `Counts` at zero; `HoldIsShown`
is inductive only together with `Owned`, because a deleted page takes its badge
along.

`PackageTablesProofs` proves, for any packages and managers (`ManagersAssumption`)
and any number of loads and operations at once, every property that run
`package_tables` checks. `NothingMissing` speaks of the moment when all is quiet;
the invariant has to account for every package at every other moment: `Covered`
says that each installed package is in the table, or a load of the table has yet
to ask or brings it along (`Coming`), or an operation that reloads the table will
be told (`Reloader`), or the observer knows that one was lost (`LostUnseen`); all
this of the packages no list command has left out, which `leftOut` keeps, and the
account begins anew when the table is emptied. Each
kind of step keeps the account by a lemma of its own: a new load empties the table
but is itself queued, an answer turns `Coming` into rows, an operation that installs
is a `Reloader` until `Tell` queues its load. `RunsWhatWasAsked` rests on `BoxOwn`
and `JobsOwn` (what is asked and what runs was made of rows, each command with its
row's manager) and on `StartsAll`: the two halves of a batch are started in jobs
that had none and make up the whole.

`CleanerProofs` proves, for any categories and engines (`CategoriesAssumption`) and
any number of jobs, every property that run `cleaner` checks. `Account` says of each
cleaning that what was listed is still to be done, done, left or failed, and only
the user's own files are left (`Sound`), that a
failed restore point leaves none of it to do and nothing gone, and that nothing is
gone before the restore point asked for. The first part makes "complete" true of
root's categories (`StatusTells`), the second "nothing was cleaned".

`DiskJobsProofs` proves, for any disks with any number of partitions
(`DisksAssumption`), every safety property that run `disk_jobs` checks.
`SameDiskRefused` is the lemma about `baseDisk()`: two names it understands, of the
same disk, are always refused. `recovery_source` shows that the restriction to
understood names is needed.

### 6.1 Liveness

TLAPS proves a *leads to* from weak or strong fairness by temporal logic, once
three facts are there about single steps: what waits keeps waiting until it is
served, the step that serves it ends the wait, and that step is enabled while
something waits. The first two are theorems about actions. The third is about
`ENABLED`, which none of the provers evaluates, and is the one hypothesis of these
theorems: `GuardsTell` says, for the fair actions and for those only, that the
guard written in it is enough. Its comment says why: what else the action states
assigns each variable a value, and some variable another one. Taken as an
invariant, `GuardsTell` holds of every reachable state of the instances of section
4, so that it excludes none of their behaviours.

Proved from it:

- `StopComesToAnEnd` (`StopEnds`): after Stop, a command that the program may
  signal has its SIGKILL (`StoppedIsDying`, by `Watched` and `StopHolds`), nothing
  prolongs its dying, and its end is the end of the batch.
- `EveryAttemptAnswered` (`AlwaysAnswered`): the phases are in an order that every
  step of an attempt follows (`OnwardOnly`), every handler leaves its phase
  (`HandlersMoveOn`), and the last ones answer. It goes phase by phase from the
  last to the first, with no induction, since there are eight.
- `BadgeIsCorrected` (`BadgeCatchesUp`): by strong fairness of `Refresh`, since
  the GUI thread is free again and again (`PerformEnds`).
- `WhatStartedEnds` (`StartedEnds`): a command stays one that runs whatever is
  done to it (`DueStays`), and its end frees its page.

Three properties need an induction over a parameter (the hold, or the seconds of a
countdown), which the provers cannot do within a temporal formula. For each the
step of that induction is proved, for every value of the parameter:
`CountdownAdvances` (from *n* + 1 seconds left a countdown comes to *n*, and from
none to its end, or it is stopped before), `CalmAdvances` and `PressureAdvances`
(the hold counted to *n* comes to *n* + 1, or the thaw or the freeze is there, and
the count never reaches the hold without it).

### 6.2 Only model-checked

`CountdownEnds`, `CalmThaws` and `PressureFreezes` as a whole: the induction that
joins their steps. The truth of `GuardsTell`. And the correspondence of
`PackageTables` with `BatchPromise`, which is between two models of the same
window and is stated here in prose only.

## 7. Disagreements between the code and what is said of it

Each of these is the counterexample of a run marked *violation*.

- **A process that dies leaves what it froze stopped.** `Tools/relief_tool.h:27-28`
  says that the page "resumes everything it froze on exit so nothing is left
  stopped". Only the destructor does; `main.cpp` handles no signal, nothing of
  `m_suspended` is persisted, and `candidates()` skips stopped processes, so a
  later instance cannot help either (`relief_left_stopped`).
- **Escape closes the log window over a running batch.**
  `command_log_dialog.cpp:171` says "Don't let the window close mid-operation;
  require Stop first." `closeEvent()` does that for the title bar; Escape reaches
  `QDialog::reject()`, which does not come through `closeEvent()`
  (`command_log_closed`).
- **A language switch drops the Power page's countdown.** `CHANGELOG.md:158-160`
  says that the timer, "with a live countdown that keeps running while minimized",
  is "now on the Power page, mirroring the one in Settings", and
  `power_page.h:62-63` calls it "identical". `App::rebuildProgrammaticPages()`
  deletes the Power page, and with it the running timer and the keep-awake it
  holds, without a word; the Settings page is retranslated in place and its
  countdown goes on (`power_stays`).
- **Recovery may write onto the disk it carves.** `recovery_page.cpp:182` says
  "Safety: never write the recovered files onto the device being carved."
  `baseDisk()` cuts digits and a "p" off two names and compares what is left. A
  btrfs subvolume (`/dev/sda2[/home]`) or a mapped volume (`/dev/mapper/luks-home`),
  as `findmnt` names them, are left as they are, and the whole disk
  `/dev/nvme0n1` becomes `/dev/nvme0n` while its partitions become
  `/dev/nvme0n1`: all of them pass the check (`recovery_source`).
- **Cancelling a backup may crash the program.** `backup_page.h:22` promises "live
  progress and a Cancel button". `waitForFinished(2000)` runs the slot of
  `finished()`, which sets `m_proc` to `nullptr`, and the next line calls
  `m_proc->state()`; `recovery_page.cpp:246-253` has the same lines
  (`backup_cancel`).

Seven more were met on the way and have no run of their own:

- `suspendSelected()` signals the rows as they were listed, without asking
  `candidates()` again, so that the manual path may stop a process that has become
  a shell or a terminal since; `CHANGELOG.md:338-342` says that "both the manual and
  automatic paths are covered".
- `relief_page.h:80` calls `m_overSeconds` "consecutive seconds over threshold"; a
  hidden page ticks every two seconds, so that the hold lasts twice as long.
- `self_updater.cpp:110-111` calls the replacement of an AppImage "an atomic
  same-directory rename"; it is two renames, and a crash between them leaves the
  program's path without a file (`Survives` is what holds instead).
- `self_updater.cpp:225-228` tells that an update failed when `pkexec` exits with an
  error or is not done in ten minutes. The package may be installed by then, or be
  installed later, by a `dpkg` that `execProgram()` (`command_util.cpp:80-90`) cannot
  kill. `UpdatePromise` allows it for packages.
- `system_cleaner_page.cpp:334-339` passes over every result of `removeFile()`, so that
  "complete" is said with files left (`TellsOfCommands` excepts the user's files).
- `command_util.cpp:37-43` gives a list command ten seconds and does not ask how it
  ended: the Installed table may be short, or empty, with nothing that says so
  (`NothingMissing` excepts `leftOut`).
- `system_cleaner_page.cpp:237` says that Clean "is only sensible after a scan has
  labeled the cards with sizes"; a scan of one card and a tick on another enable it
  for a card without a size. Line 491 announces a rescan that does not follow.

## 8. Not modelled

- Dashboard, resources, sensors, GPU: pure reads, drawn periodically.
- Services, startup, firewall, APT sources, connections, helpers: each button
  runs one command or rewrites one file and reloads; no state between the steps.
- Alerts: the time of the last notification per key, compared with a cooldown.
- The update checker: one request and one comparison of version strings.
- The list of snapshots, restore and schedules: each one command of the engine
  that is active when it is run. A list may arrive after the engine was changed,
  but the ids of different engines have different shapes, so that the other
  engine's command fails.
- The Store and AppImages tables: as the Installed one.
- Two updates in progress at once (Settings can open a second check while the
  first one's box is up).
- Power profiles, governors and charge limits: one command each, read back from
  the system.
- Utilities, settings, theme, dialogs, widgets, translations (the `.ts` files hold
  texts only): synchronous wrappers and presentation.
- The uninstaller page: not reachable in the program.
- The contents of the log, of tables and of messages, unless a property is about
  them.

## 9. Order of work

The modules were written in the order of what matters most: `Relief` with its
promise, `CommandLog`, `SelfUpdate`, `Power`, `PackageTables`, `Cleaner`,
`DiskJobs`, each followed by its proofs. What is left for later, in this order:

1. the update checker with two answers in flight and two updaters on one file;
2. `Cleaner` with sizes, for the stale estimate of its question;
3. alerts: the cooldown against a value that becomes critical;
4. stronger forms of what is proved: that rows of the Installed table beyond what
   is installed are those of an answer asked for before a removal;
5. the batches of `PackageTables` as an instance of `BatchPromise`.
