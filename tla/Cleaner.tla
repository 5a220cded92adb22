------------------------------- MODULE Cleaner -------------------------------
(***************************************************************************)
(* The System Cleaner page: cards are ticked and scanned, the sizes found  *)
(* are shown, what is ticked is cleaned after a question, if asked for     *)
(* behind a restore point.  Scans and cleanings run in worker threads; the *)
(* overlay over the page keeps the mouse away from it but not the keyboard,*)
(* and every tick works out anew whether Clean is enabled.                 *)
(*                                                                         *)
(* Abstractions.  Of a size only its presence on the card is kept.  The    *)
(* drill-down dialogs and their button are left out.  Categories of one    *)
(* job are cleaned in any order.  What root's commands did is what they say*)
(* they did.                                                               *)
(***************************************************************************)
EXTENDS Naturals, FiniteSets

CONSTANTS
    Category,
    RootCategory,   \* those the page says need root
    UserFiles,      \* those of CleanStrategy::UserFiles
    Engine,         \* availableBackends(), and its first()
    FirstEngine,
    Restorable,     \* Timeshift and ZFS
    Zfs,
    None,           \* no engine chosen yet
    Job             \* as many as there may be worker threads at once

ASSUME CategoriesAssumption ==
    /\ RootCategory \subseteq Category
    /\ UserFiles \subseteq Category \ RootCategory
    /\ FirstEngine \in Engine

NoBox == [asked |-> {}, offer |-> FALSE]
NoJob == [kind |-> "none"]
Jobs == {NoJob}
    \cup [kind : {"scan"}, asked : SUBSET Category, ended : BOOLEAN]
    \cup [kind : {"clean"}, asked : SUBSET Category, net : BOOLEAN,
          point : {"unmade", "made", "failed"},
          todo : SUBSET Category, done : SUBSET Category, left : SUBSET Category,
          failed : SUBSET Category]

VARIABLES
    ticked,         \* the cards that are checked
    sized,          \* the cards that show the size a scan found
    scanCompleted,
    scanButton, cleanButton,        \* enabled?
    status,         \* what the status line says of the last job
    box,            \* the question on the screen
    jobs,
    active,         \* s_active of SnapshotTool
    pointTaken      \* is there a ZFS snapshot of the cleaner's comment?

cardVars   == <<ticked, sized>>
buttonVars == <<scanCompleted, scanButton, cleanButton, status>>
vars == <<cardVars, buttonVars, box, jobs, active, pointTaken>>

\* Mistake: the chosen engine is not checked against those there are.
BackendAsChosen(a) == a

\* SnapshotTool::backend().
Backend(a) == IF a \in Engine THEN a ELSE FirstEngine

TypeOK ==
    /\ ticked \subseteq Category /\ sized \subseteq Category
    /\ scanCompleted \in BOOLEAN /\ scanButton \in BOOLEAN /\ cleanButton \in BOOLEAN
    /\ status \in {"", "found", "nothing cleaned", "complete", "failures"}
    /\ box \in [asked : SUBSET Category, offer : BOOLEAN]
    /\ jobs \in [Job -> Jobs]
    /\ active \in Engine \cup {None} /\ Backend(active) \in Engine
    /\ pointTaken \in BOOLEAN

Busy == {j \in Job : jobs[j] # NoJob}

\* refreshSelectionUi(), with the flag and the ticks it finds.
RefreshSelectionUi(completed, chosen) == cleanButton' = (completed /\ chosen # {})

-----------------------------------------------------------------------------
(* The user *)

\* A card, or Select All: onCardToggled(), toggleSelectAll().
Tick ==
    /\ box = NoBox
    /\ \E chosen \in SUBSET Category \ {ticked} :
         /\ ticked' = chosen
         /\ RefreshSelectionUi(scanCompleted, chosen)
    /\ UNCHANGED <<sized, scanCompleted, scanButton, status, box, jobs, active, pointTaken>>

Scan(j) ==
    /\ box = NoBox /\ scanButton /\ ticked # {}
    /\ jobs[j] = NoJob
    /\ jobs' = [jobs EXCEPT ![j] = [kind |-> "scan", asked |-> ticked, ended |-> FALSE]]
    /\ sized' = {}
    /\ scanButton' = FALSE /\ cleanButton' = FALSE
    /\ status' = ""
    /\ UNCHANGED <<ticked, scanCompleted, box, active, pointTaken>>

\* Clean: the question lists what is ticked, and offers a restore point before
\* root's categories where the engine can roll back.
AskClean ==
    /\ box = NoBox /\ cleanButton
    /\ box' = [asked |-> ticked,
               offer |-> ticked \cap RootCategory # {} /\ Backend(active) \in Restorable]
    /\ UNCHANGED <<cardVars, buttonVars, jobs, active, pointTaken>>

Cancel ==
    /\ box # NoBox
    /\ box' = NoBox
    /\ UNCHANGED <<cardVars, buttonVars, jobs, active, pointTaken>>

CleanNow(j) ==
    /\ box # NoBox
    /\ jobs[j] = NoJob
    /\ \E net \in IF box.offer THEN BOOLEAN ELSE {FALSE} :
         jobs' = [jobs EXCEPT ![j] =
             [kind |-> "clean", asked |-> box.asked, net |-> net, point |-> "unmade",
              todo |-> box.asked, done |-> {}, left |-> {}, failed |-> {}]]
    /\ box' = NoBox
    /\ scanButton' = FALSE /\ cleanButton' = FALSE
    /\ status' = ""
    /\ UNCHANGED <<cardVars, scanCompleted, active, pointTaken>>

\* The Backup page sets the engine when it is built and when the user chooses
\* another; and it deletes snapshots.
ChooseEngine(e) ==
    /\ box = NoBox
    /\ active' = e
    /\ UNCHANGED <<cardVars, buttonVars, box, jobs, pointTaken>>

DeletePoint ==
    /\ box = NoBox /\ pointTaken
    /\ pointTaken' = FALSE
    /\ UNCHANGED <<cardVars, buttonVars, box, jobs, active>>

-----------------------------------------------------------------------------
(* The worker threads *)

Scanned(j) ==
    /\ jobs[j].kind = "scan" /\ ~jobs[j].ended
    /\ jobs' = [jobs EXCEPT ![j].ended = TRUE]
    /\ UNCHANGED <<cardVars, buttonVars, box, active, pointTaken>>

\* Can SnapshotTool::create() succeed?  The comment is a constant and names the
\* ZFS snapshot, so that a second one is refused while the first is there.
CanCreate == ~(Backend(active) = Zfs /\ pointTaken)

\* Mistake: a restore point that failed does not end the job.
TodoWithoutNet(j) == jobs[j].todo

\* "abort -- never clean without the safety net"
TodoAfterFailure(j) == {}

MakePoint(j) ==
    /\ jobs[j].kind = "clean" /\ jobs[j].net /\ jobs[j].point = "unmade"
    /\ \/ /\ CanCreate
          /\ jobs' = [jobs EXCEPT ![j].point = "made"]
          /\ pointTaken' = (pointTaken \/ Backend(active) = Zfs)
       \/ \* refused by the engine, or by the user when asked for a password, or
          \* given up, and root's engine may make it yet
          /\ jobs' = [jobs EXCEPT ![j].point = "failed", ![j].todo = TodoAfterFailure(j)]
          /\ pointTaken' \in {pointTaken, pointTaken \/ Backend(active) = Zfs}
    /\ UNCHANGED <<cardVars, buttonVars, box, active>>

\* Mistake: the worker goes by the cards and not by its copy.
LeftByTicks(j) == ticked \ (jobs[j].done \cup jobs[j].left \cup jobs[j].failed)

\* The categories the worker has still to go through: `toClean' by value.
Left(j) == jobs[j].todo

\* cleanCategory().  Of the user's own files it always says yes, also when some
\* are left because they could not be removed; of root's, what the command says.
CleanCategory(j) ==
    /\ jobs[j].kind = "clean" /\ (jobs[j].net => jobs[j].point # "unmade")
    /\ \E c \in Left(j) :
         \/ jobs' = [jobs EXCEPT ![j].todo = @ \ {c}, ![j].done = @ \cup {c}]
         \/ /\ c \in UserFiles
            /\ jobs' = [jobs EXCEPT ![j].todo = @ \ {c}, ![j].left = @ \cup {c}]
         \/ /\ c \notin UserFiles
            /\ jobs' = [jobs EXCEPT ![j].todo = @ \ {c}, ![j].failed = @ \cup {c}]
    /\ UNCHANGED <<cardVars, buttonVars, box, active, pointTaken>>

ScanAnswers(j) ==
    /\ jobs[j].kind = "scan" /\ jobs[j].ended
    /\ sized' = sized \cup jobs[j].asked
    /\ scanCompleted' = TRUE
    /\ status' = "found"
    /\ scanButton' = TRUE
    /\ RefreshSelectionUi(TRUE, ticked)
    /\ jobs' = [jobs EXCEPT ![j] = NoJob]
    /\ UNCHANGED <<ticked, box, active, pointTaken>>

\* Mistake: any failure of the first result is taken for the restore point's.
AbortedByFirst(j) == jobs[j].point = "failed" \/ jobs[j].failed # {}

\* makeSnapshot, and its result is not ok.
Aborted(j) == jobs[j].net /\ jobs[j].point = "failed"

CleanAnswers(j) ==
    /\ jobs[j].kind = "clean" /\ jobs[j].todo = {}
    /\ jobs[j].net => jobs[j].point # "unmade"
    /\ scanButton' = TRUE
    /\ IF Aborted(j)
       THEN /\ status' = "nothing cleaned"
            /\ RefreshSelectionUi(scanCompleted, ticked)
            /\ UNCHANGED <<sized, scanCompleted>>
       ELSE /\ status' = IF jobs[j].failed = {} THEN "complete" ELSE "failures"
            /\ sized' = {} /\ scanCompleted' = FALSE
            /\ RefreshSelectionUi(FALSE, ticked)
    /\ jobs' = [jobs EXCEPT ![j] = NoJob]
    /\ UNCHANGED <<ticked, box, active, pointTaken>>

-----------------------------------------------------------------------------
Init ==
    /\ ticked = {} /\ sized = {}
    /\ scanCompleted = FALSE /\ scanButton = TRUE /\ cleanButton = FALSE
    /\ status = ""
    /\ box = NoBox
    /\ jobs = [j \in Job |-> NoJob]
    /\ active = None
    /\ pointTaken = FALSE

Next ==
    \/ Tick \/ AskClean \/ Cancel \/ DeletePoint
    \/ \E e \in Engine : ChooseEngine(e)
    \/ \E j \in Job :
         \/ Scan(j) \/ Scanned(j) \/ ScanAnswers(j)
         \/ CleanNow(j) \/ MakePoint(j) \/ CleanCategory(j) \/ CleanAnswers(j)

Spec == Init /\ [][Next]_vars

-----------------------------------------------------------------------------
(* Properties *)

\* What a cleaning has gone through, whatever became of it.
Gone(j) == jobs[j].done \cup jobs[j].left \cup jobs[j].failed

\* A cleaning touches only what the question it was confirmed in listed,
\* whatever is ticked while it runs...
OnlyWhatWasListed ==
    \A j \in Job : jobs[j].kind = "clean" => Gone(j) \subseteq jobs[j].asked

\* ...and, where a restore point was asked for, nothing before that is made.
NothingBeforeItsNet ==
    \A j \in Job : jobs[j].kind = "clean" /\ jobs[j].net /\ Gone(j) # {} => jobs[j].point = "made"

\* A cleaning does what was confirmed: what was listed, behind its restore point.
CleansAsConfirmed == OnlyWhatWasListed /\ NothingBeforeItsNet

\* The status line tells what was cleaned, as far as the worker knows: "nothing was
\* cleaned" only if no category was gone through, and "complete" only if all that
\* was confirmed was cleaned, but for the user's own files: of those it is said
\* though some are left, since nobody looks at what removeFile() returns
\* (system_cleaner_page.cpp:334-339).
TellsOfCommands ==
    [][\A j \in Job : jobs[j].kind = "clean" /\ jobs'[j] = NoJob =>
         /\ status' = "nothing cleaned" => Gone(j) = {}
         /\ status' = "complete" => jobs[j].asked \ jobs[j].done \subseteq UserFiles]_vars
=============================================================================
