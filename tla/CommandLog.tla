------------------------------ MODULE CommandLog ------------------------------
(***************************************************************************)
(* The log window of a batch of package commands: it runs the steps one    *)
(* after another, stops at the first failure, offers Stop, and tells the   *)
(* page once how the batch ended.                                          *)
(*                                                                         *)
(* Actors: the GUI thread, the user, the command (which may turn into a    *)
(* root process the program may no longer signal) and Qt's deferred delete *)
(* of the window.                                                          *)
(*                                                                         *)
(* Abstractions.  A step is what its argv makes of it: nothing to run, a   *)
(* command of the user's, or one behind pkexec.  Its output is left out.   *)
(***************************************************************************)
EXTENDS Integers, Sequences, FiniteSetsExt

CONSTANT MaxSteps    \* the longest batch considered

ASSUME MaxStepsAssumption == MaxSteps \in Nat \ {0}

StepKind == {"skip", "user", "root"}

VARIABLES
    steps,       \* m_steps, by what each step runs
    idx,         \* m_idx, counted from 1
    running,     \* m_running
    cancelled,   \* m_cancelled
    allOk,       \* m_allOk
    proc,        \* m_proc's state; "dead" is NotRunning after a failed start
    root,        \* has the running command been authorised and become root's?
    killed,      \* has SIGKILL been delivered to it?
    dlg,         \* the window: "none", "open", or hidden and "doomed" to deletion
    stray,       \* does a root command run on whose window is gone?
    (* observability *)
    outcome,     \* of each step
    told         \* the emissions of completed(), oldest first

batchVars == <<steps, idx, running, cancelled, allOk>>
procVars  == <<proc, root, killed>>
vars == <<batchVars, procVars, dlg, stray, outcome, told>>

Batch == UNION {[1..n -> StepKind] : n \in 1..MaxSteps}

TypeOK ==
    /\ steps \in Batch \cup {<<>>}
    /\ idx \in 1 .. Len(steps) + 1
    /\ running \in BOOLEAN /\ cancelled \in BOOLEAN /\ allOk \in BOOLEAN
    /\ proc \in {"none", "starting", "running", "dead"}
    /\ root \in BOOLEAN /\ killed \in BOOLEAN
    /\ dlg \in {"none", "open", "doomed"} /\ stray \in BOOLEAN
    /\ outcome \in [1 .. Len(steps) -> {"skipped", "waiting", "running", "ok", "failed"}]
    /\ told \in Seq(BOOLEAN)

-----------------------------------------------------------------------------
(* The batch *)

\* Mistake: a skipped step is stepped over twice.
NextStepTwice(s, i) ==
    Min({j \in i .. Len(s) : s[j] # "skip"} \cup
        {IF \E j \in i .. Len(s) : s[j] = "skip" THEN Len(s) + 2 ELSE Len(s) + 1})

\* The step startNext() ends up running, from step i on; Len(s) + 1 is the end.
NextStep(s, i) == Min({j \in i .. Len(s) : s[j] # "skip"} \cup {Len(s) + 1})

\* finishAll(), with what the page has been told before: Stop is off for good
\* and Close is on.
FinishAll(heard, ok) == running' = FALSE /\ told' = Append(heard, ok)

NoProcess == proc' = "none" /\ root' = FALSE /\ killed' = FALSE

\* startNext() of a batch s nobody cancelled, at step i; `done' is its outcome
\* and `heard' what was told so far.
StartNext(s, i, fine, done, heard) ==
    /\ idx' = NextStep(s, i)
    /\ root' = FALSE /\ killed' = FALSE
    /\ IF idx' > Len(s)
       THEN FinishAll(heard, fine) /\ proc' = "none" /\ outcome' = done
       ELSE /\ running' = TRUE /\ told' = heard
            /\ proc' = "starting"
            /\ outcome' = [done EXCEPT ![idx'] = "running"]

Ended(ok) == [outcome EXCEPT ![idx] = IF ok THEN "ok" ELSE "failed"]

\* Mistake: the batch goes on after a failed step.
FinishedCarryingOn(ok, stopped) ==
    /\ allOk' = (allOk /\ ok)
    /\ IF stopped
       THEN FinishAll(told, FALSE) /\ NoProcess /\ UNCHANGED idx /\ outcome' = Ended(ok)
       ELSE StartNext(steps, idx + 1, allOk', Ended(ok), told)

\* Mistake: a batch that was stopped is judged by its commands alone.
FinishedJudgedByCommands(ok, stopped) ==
    /\ allOk' = (allOk /\ ok)
    /\ IF stopped \/ ~ok
       THEN FinishAll(told, allOk') /\ NoProcess /\ UNCHANGED idx /\ outcome' = Ended(ok)
       ELSE StartNext(steps, idx + 1, allOk', Ended(ok), told)

\* The slot of QProcess::finished, with the value m_cancelled has when it runs.
Finished(ok, stopped) ==
    /\ allOk' = (allOk /\ ok)
    /\ IF stopped \/ ~ok
       THEN FinishAll(told, FALSE) /\ NoProcess /\ UNCHANGED idx /\ outcome' = Ended(ok)
       ELSE StartNext(steps, idx + 1, allOk', Ended(ok), told)

-----------------------------------------------------------------------------
Init ==
    /\ steps = <<>> /\ idx = 1
    /\ running = FALSE /\ cancelled = FALSE /\ allOk = TRUE
    /\ proc = "none" /\ root = FALSE /\ killed = FALSE
    /\ dlg = "none" /\ stray = FALSE
    /\ outcome = <<>> /\ told = <<>>

\* runCommands(): a new window for a batch of at least one step.  The window is
\* modal and the page's buttons are behind it, so there is one at a time.
Open ==
    /\ dlg = "none"
    /\ dlg' = "open"
    /\ steps' \in Batch
    /\ cancelled' = FALSE /\ allOk' = TRUE
    /\ StartNext(steps', 1, TRUE,
                 [i \in 1 .. Len(steps') |-> IF steps'[i] = "skip" THEN "skipped"
                                                                 ELSE "waiting"],
                 <<>>)
    /\ UNCHANGED stray

-----------------------------------------------------------------------------
(* The command *)

Started ==
    /\ proc = "starting"
    /\ proc' = "running"
    /\ UNCHANGED <<batchVars, root, killed, dlg, stray, outcome, told>>

\* errorOccurred(FailedToStart): a line in the log, and no finished() follows.
FailsToStart ==
    /\ dlg # "none" /\ proc = "starting"
    /\ proc' = "dead"
    /\ outcome' = [outcome EXCEPT ![idx] = "failed"]
    /\ UNCHANGED <<batchVars, root, killed, dlg, stray, told>>

\* pkexec gets the password and becomes the root command.
Authorised ==
    /\ proc = "running" /\ steps[idx] = "root" /\ ~root /\ ~killed
    /\ root' = TRUE
    /\ UNCHANGED <<batchVars, proc, killed, dlg, stray, outcome, told>>

\* The command ends by itself and the event loop delivers finished(); a pkexec
\* that was never authorised cannot have succeeded.
CommandEnds(ok) ==
    /\ dlg # "none" /\ proc = "running" /\ ~killed
    /\ ok => steps[idx] = "user" \/ root
    /\ Finished(ok, cancelled)
    /\ UNCHANGED <<steps, cancelled, dlg, stray>>

\* The command dies of SIGKILL.
KilledEnds ==
    /\ dlg # "none" /\ proc = "running" /\ killed
    /\ Finished(FALSE, cancelled)
    /\ UNCHANGED <<steps, cancelled, dlg, stray>>

-----------------------------------------------------------------------------
(* The window's buttons *)

\* done(): the window hides and its deletion is posted; a command goes on.
Dismiss ==
    /\ dlg = "open"
    /\ dlg' = "doomed"
    /\ UNCHANGED <<batchVars, procVars, stray, outcome, told>>

\* Mistake: the command is asked to end and never made to.
KillPolitely ==
    /\ proc' = "running" /\ killed' = FALSE
    /\ UNCHANGED <<idx, running, allOk, root, outcome, told>>

\* kill() after two seconds: SIGKILL, or EPERM when the command is root's.
Kill ==
    /\ proc' = "running" /\ killed' = ~root
    /\ UNCHANGED <<idx, running, allOk, root, outcome, told>>

\* Mistake: the batch is finished without waiting for its command.
StopCommandAtOnce ==
    /\ FinishAll(told, FALSE)
    /\ killed' = ~root
    /\ UNCHANGED <<idx, allOk, proc, root, outcome>>

\* terminate() and waitForFinished(2000), which delivers finished() itself.  The
\* command may have succeeded just before, and a start may turn out to fail.
StopCommand ==
    \/ \E ok \in BOOLEAN :
         /\ ok => steps[idx] = "user" \/ root
         /\ Finished(ok, TRUE)
    \/ Kill
    \/ /\ proc = "starting"
       /\ proc' = "dead"
       /\ outcome' = [outcome EXCEPT ![idx] = "failed"]
       /\ UNCHANGED <<idx, running, allOk, root, killed, told>>

\* stopRequested() while the batch runs: by the Stop button or the title bar.
Stop ==
    /\ dlg = "open" /\ running /\ ~cancelled
    /\ cancelled' = TRUE
    /\ IF proc \in {"starting", "running"}
       THEN StopCommand
       ELSE FinishAll(told, FALSE) /\ UNCHANGED <<idx, allOk, procVars, outcome>>
    /\ UNCHANGED <<steps, dlg, stray>>

\* A second Stop, or the title bar or the Close button once that is allowed.
Close == (cancelled \/ ~running) /\ Dismiss

\* Escape: QDialog::reject() hides the window whatever is running, since it does
\* not come through closeEvent().
Escape == Dismiss

-----------------------------------------------------------------------------
(* The deferred delete *)

\* No command runs: the window is gone.
DeleteIdle ==
    /\ dlg = "doomed" /\ proc \in {"none", "dead"}
    /\ dlg' = "none"
    /\ NoProcess
    /\ UNCHANGED <<batchVars, stray, outcome, told>>

\* The slot of finished() as ~QProcess() calls it: a command it starts next is
\* destroyed with the window at once.
LastSlot(ok) ==
    LET j    == NextStep(steps, idx + 1)
        goes == ok /\ ~cancelled
        more == goes /\ j <= Len(steps)
    IN  /\ FinishAll(told, goes /\ ~more)
        /\ allOk' = (ok /\ ~more)
        /\ idx' = IF goes THEN j ELSE idx
        /\ outcome' = IF more THEN [Ended(ok) EXCEPT ![j] = "failed"] ELSE Ended(ok)

\* ~QProcess() kills the command and waits for it up to 30 s.  finished() enters
\* its slot when the log widget is deleted already, which is undefined: the
\* slot runs to its end, or the program crashes.
DeleteRunning(ok) ==
    /\ dlg = "doomed" /\ proc \in {"starting", "running"}
    /\ ok => steps[idx] = "user" \/ root
    /\ dlg' = "none"
    /\ NoProcess
    /\ \/ LastSlot(ok)
       \/ outcome' = Ended(ok) /\ UNCHANGED <<idx, running, allOk, told>>
    /\ UNCHANGED <<steps, cancelled, stray>>

\* A root command outlives the 30 s: the window is gone and it runs on unwatched.
DeleteAbandoning ==
    /\ dlg = "doomed" /\ proc = "running" /\ root
    /\ dlg' = "none" /\ stray' = TRUE
    /\ NoProcess
    /\ UNCHANGED <<batchVars, outcome, told>>

\* An abandoned command ends.
StrayEnds ==
    /\ stray
    /\ stray' = FALSE
    /\ UNCHANGED <<batchVars, procVars, dlg, outcome, told>>

-----------------------------------------------------------------------------
Next ==
    \/ Open \/ Started \/ FailsToStart \/ Authorised
    \/ \E ok \in BOOLEAN : CommandEnds(ok)
    \/ KilledEnds
    \/ Stop \/ Close \/ Escape
    \/ DeleteIdle \/ (\E ok \in BOOLEAN : DeleteRunning(ok)) \/ DeleteAbandoning
    \/ StrayEnds

Spec == Init /\ [][Next]_vars

\* A start succeeds or fails, a killed process dies, and a posted delete is
\* delivered.  No command is assumed to end by itself, and no user to act.
Fairness ==
    /\ WF_vars(Started \/ FailsToStart)
    /\ WF_vars(KilledEnds)
    /\ WF_vars(DeleteIdle \/ (\E ok \in BOOLEAN : DeleteRunning(ok)) \/ DeleteAbandoning)

FairSpec == Spec /\ Fairness

-----------------------------------------------------------------------------
(* Safety *)

\* The page hears of a batch at most once, and "finished" only if every step
\* with something to run did, succeeded, and nobody pressed Stop: also when the
\* last command succeeds while Stop is waiting for it, and when the window is
\* dismissed over a running command (finishAll, command_log_dialog.cpp:154).
ToldTruly ==
    /\ Len(told) <= 1
    /\ told = <<TRUE>> =>
         ~cancelled /\ \A i \in DOMAIN outcome : outcome[i] \in {"ok", "skipped"}

\* When the page hears of the batch and reloads its tables, no command of the
\* batch is still changing the system.
QuietWhenTold == told # <<>> => proc \in {"none", "dead"}

\* A command starts only if every one before it succeeded and Stop has not been
\* pressed: a broken step does not cascade (command_log_dialog.cpp:126).
NothingStartsLate ==
    [][\A i \in DOMAIN outcome' :
          outcome'[i] = "running" /\ (steps # steps' \/ outcome[i] # "running") =>
            /\ ~cancelled'
            /\ \A j \in 1 .. i - 1 : outcome'[j] \in {"ok", "skipped"}]_vars

\* Stop "cancels before authorization": once it has returned with the password
\* not yet given, the step never becomes root's (command_log_dialog.h:21-24).
NoRootAfterStop == [][~root /\ root' => ~cancelled]_vars

\* As much of this as the page may rely on: the window keeps BatchPromise.  A
\* window that has told and is not deleted yet is none to the page.
Window == IF dlg = "open" THEN IF told = <<>> THEN "running" ELSE "shown"
          ELSE IF dlg = "doomed" /\ told = <<>> THEN "lost" ELSE "none"
Work   == proc \in {"starting", "running"}
Well   == ~cancelled /\ \A i \in DOMAIN outcome : outcome[i] # "failed"

Promise == INSTANCE BatchPromise
             WITH window <- Window, work <- Work, well <- Well, heard <- told

\* The page hears of a batch once, when nothing of it runs any more, "finished"
\* only of one that went well and was not stopped; nothing is started after a
\* failure or Stop; and a batch it never hears of is one whose window was
\* dismissed over it (completed(), package_manager_page.cpp:214).
KeepsPromise == Promise!Spec

(* Liveness *)

\* Stop is never left waiting for a command it may signal: the batch ends or
\* the window goes, unless the command is root's or never started.
StopEnds ==
    dlg = "open" /\ cancelled ~> ~running \/ dlg = "none" \/ root \/ proc = "dead"

-----------------------------------------------------------------------------
(* What the repository says of the window, and the code does not do *)

\* "Don't let the window close mid-operation; require Stop first."
\* (command_log_dialog.cpp:171).
NeverClosedMidOperation == dlg = "doomed" => ~running \/ cancelled
=============================================================================
