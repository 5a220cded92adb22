---------------------------- MODULE PackageTables ----------------------------
(***************************************************************************)
(* The tables of the package page and the operations started from them.    *)
(* A load clears its table at once, asks the package managers in a worker  *)
(* thread and appends the answer when that thread is done; nothing ties an *)
(* answer to the table, the query or the manager of the moment it arrives. *)
(* Removals, installations and upgrades run in a log window, or (for       *)
(* software no manager knows) in a worker thread.  The window is modal     *)
(* while it is up; once it is dismissed over a running batch, the page can *)
(* be used and the batch ends behind it.                                   *)
(*                                                                         *)
(* Abstractions.  A row is its package; the ticked or selected rows are    *)
(* any of the table's, and a combo box shows any manager when it is read.  *)
(* A line of output that is cut short counts as not there.                 *)
(* A batch is the set of its packages: CommandLog says how its steps run.  *)
(* Only this page changes what is installed.                               *)
(***************************************************************************)
EXTENDS Naturals, FiniteSets

CONSTANTS
    Mgr,       \* the package managers, Manual apart
    Manual,    \* PkgMgr::Manual, whose software has no remove command
    Pkg, All,  \* packages, and "all of them" in a command
    MgrOf,     \* the manager that knows a package
    Load,      \* as many as there may be loads in flight
    Job        \* as many as there may be operations at once

ASSUME ManagersAssumption ==
    /\ Manual \notin Mgr /\ All \notin Pkg
    /\ MgrOf \in [Pkg -> Mgr \cup {Manual}]

Table == {"inst", "srch", "up"}

Offered(m) == {p \in Pkg : MgrOf[p] = m}

Idle == [phase |-> "idle"]
Loads == {Idle}
    \cup [phase : {"queued"}, table : Table, mgr : Mgr \cup {Manual}]
    \cup [phase : {"read"}, table : Table, found : SUBSET Pkg]

Op == {"remove", "install", "upgrade", "upgradeAll"}

\* A command is put to a manager, about a package or about all of its own.
Command == (Pkg \cup {All}) \X (Mgr \cup {Manual})

Batch == [op : Op, what : SUBSET Command]

NoBox == [op |-> "none"]
NoJob == [phase |-> "none"]
Shown == [phase |-> "shown"]    \* the window of a batch that is over
\* A job in a "log" window or of a worker thread ("off"); "lost" once its
\* window was dismissed over it: it may or may not be told of when it ends.
Jobs == {NoJob, Shown}
    \cup [phase : {"running", "lost"}, kind : {"log", "off"}, op : Op, todo : SUBSET Command]

VARIABLES
    installed,
    rows,        \* m_instModel, m_srchModel, m_upModel
    srchButton, upCheck, upAll,     \* enabled?
    box,         \* the question on the screen
    loads, jobs,
    (* observability, both since the Installed table was last asked for *)
    unseen,      \* has a job been lost?
    leftOut      \* what was installed and no list command told of

tableVars == <<rows, srchButton, upCheck, upAll>>
ghostVars == <<unseen, leftOut>>
vars == <<installed, tableVars, box, loads, jobs, ghostVars>>

TypeOK ==
    /\ installed \subseteq Pkg
    /\ rows \in [Table -> SUBSET Pkg]
    /\ srchButton \in BOOLEAN /\ upCheck \in BOOLEAN /\ upAll \in BOOLEAN
    /\ box \in Batch \cup {NoBox}
    /\ loads \in [Load -> Loads]
    /\ jobs \in [Job -> Jobs]
    /\ unseen \in BOOLEAN /\ leftOut \subseteq Pkg

InFlight(t) == {l \in Load : loads[l].phase # "idle" /\ loads[l].table = t}
Told   == {j \in Job : jobs[j].phase = "running"}
Lost   == {j \in Job : jobs[j].phase = "lost"}
Live   == Told \cup Lost

\* Can the page be pressed on?  Not behind a question, or a log window.
Reachable ==
    /\ box = NoBox
    /\ \A j \in Job : jobs[j] # Shown /\ (j \in Told => jobs[j].kind = "off")

-----------------------------------------------------------------------------
(* Loads *)

Queue(l, t, m) ==
    /\ loads[l] = Idle
    /\ loads' = [loads EXCEPT ![l] = [phase |-> "queued", table |-> t, mgr |-> m]]
    /\ rows' = [rows EXCEPT ![t] = {}]

\* loadInstalled(), allPackages() being asked of every manager.
LoadInstalled(l) ==
    /\ Queue(l, "inst", Manual)
    /\ unseen' = (Lost' # {}) /\ leftOut' = {}
    /\ UNCHANGED <<srchButton, upCheck, upAll>>

\* Mistake: "Upgrade all" is left as it was while the table is emptied.
LoadUpgradesLeavingAll(l) ==
    /\ \E mgr \in Mgr : Queue(l, "up", mgr)
    /\ upCheck' = FALSE
    /\ UNCHANGED <<upAll, srchButton, ghostVars>>

\* loadUpgrades(), with the manager the combo box has by then.
LoadUpgrades(l) ==
    /\ \E mgr \in Mgr : Queue(l, "up", mgr)
    /\ upCheck' = FALSE /\ upAll' = FALSE
    /\ UNCHANGED <<srchButton, ghostVars>>

Reload(l) ==
    /\ Reachable
    /\ UNCHANGED <<installed, box, jobs>>
    /\ LoadInstalled(l)

\* Return in the search field gets here whether or not the button is enabled.
RunSearch(l) ==
    /\ Reachable
    /\ \E mgr \in Mgr : Queue(l, "srch", mgr)
    /\ srchButton' = FALSE
    /\ UNCHANGED <<installed, upCheck, upAll, box, jobs, ghostVars>>

CheckUpgrades(l) ==
    /\ Reachable /\ upCheck
    /\ LoadUpgrades(l)
    /\ UNCHANGED <<installed, box, jobs>>

\* The worker thread: what it finds is as of now, whatever is asked later.  Each
\* manager's list command is read for ten seconds and nobody looks at how it
\* ended, so that one that fails, or is slow, leaves out rows.
Read(l) ==
    /\ loads[l].phase = "queued"
    /\ \E found \in SUBSET Pkg :
         /\ \/ /\ loads[l].table = "inst"
               /\ found \subseteq installed
               /\ leftOut' = leftOut \cup (installed \ found)
            \/ /\ loads[l].table = "srch"
               /\ found \subseteq Offered(loads[l].mgr)
               /\ UNCHANGED leftOut
            \/ /\ loads[l].table = "up"
               /\ found \subseteq Offered(loads[l].mgr) \cap installed
               /\ UNCHANGED leftOut
         /\ loads' = [loads EXCEPT
              ![l] = [phase |-> "read", table |-> loads[l].table, found |-> found]]
    /\ UNCHANGED <<installed, tableVars, box, jobs, unseen>>

\* Mistake: an answer replaces what the table holds.
AppendedReplacing(held, found) == found

\* Mistake: an empty answer leaves the buttons as they are.
AnswersOnlyIfFound(l) == loads[l].found # {}

\* The slots of QFutureWatcher::finished append to what the table holds.
Appended(held, found) == held \cup found

\* Does the answer give the buttons of its tab back?
Answers(l) == TRUE

Answer(l) ==
    /\ loads[l].phase = "read"
    /\ LET t == loads[l].table
           found == loads[l].found
       IN /\ rows' = [rows EXCEPT ![t] = Appended(@, found)]
          /\ srchButton' = (srchButton \/ (t = "srch" /\ Answers(l)))
          /\ upCheck' = (upCheck \/ (t = "up" /\ Answers(l)))
          /\ upAll' = IF t = "up" THEN found # {} ELSE upAll
    /\ loads' = [loads EXCEPT ![l] = Idle]
    /\ UNCHANGED <<installed, box, jobs, ghostVars>>

-----------------------------------------------------------------------------
(* The user *)

\* Mistake: the command is put to the manager the combo box shows.
CommandOfCombo(p, shown) == <<p, shown>>

\* Mistake: the name is read from a column that does not hold it.
CommandOfNothing(p, shown) == <<"", MgrOf[p]>>

\* The package and the manager a row was given by the load that made it.
CommandOf(p, shown) == <<p, MgrOf[p]>>

\* collectTargets(): what is ticked, or else selected, before anything is asked.
Targets(t, op) ==
    {[op |-> op, what |-> {CommandOf(p, shown) : p \in chosen}] :
        chosen \in SUBSET rows[t] \ {{}}, shown \in Mgr}

AskRemove ==
    /\ Reachable
    /\ box' \in Targets("inst", "remove")
    /\ UNCHANGED <<installed, tableVars, loads, jobs, ghostVars>>

AskInstall ==
    /\ Reachable
    /\ box' \in Targets("srch", "install")
    /\ UNCHANGED <<installed, tableVars, loads, jobs, ghostVars>>

AskUpgradeAll ==
    /\ Reachable /\ upAll
    /\ \E mgr \in Mgr : box' = [op |-> "upgradeAll", what |-> {<<All, mgr>>}]
    /\ UNCHANGED <<installed, tableVars, loads, jobs, ghostVars>>

Running(kind, op, what) == [phase |-> "running", kind |-> kind, op |-> op, todo |-> what]

\* Removing software without a command is left to runOff(), in the worker; the
\* rest of the batch, and any other batch, to runCommands().
StartBatch(batch) ==
    LET off  == IF batch.op = "remove" THEN {c \in batch.what : c[2] = Manual} ELSE {}
        log  == batch.what \ off
    IN \E j, k \in Job :
         /\ j # k
         /\ off # {} => jobs[j] = NoJob
         /\ log # {} => jobs[k] = NoJob
         /\ jobs' = [i \in Job |->
                CASE i = j /\ off # {} -> Running("off", batch.op, off)
                  [] i = k /\ log # {} -> Running("log", batch.op, log)
                  [] OTHER -> jobs[i]]

\* Mistake: the targets are collected again once the question is answered.
ConfirmedAgain ==
    IF box.op = "remove" /\ rows["inst"] # {}
    THEN [box EXCEPT !.what = {<<p, MgrOf[p]>> : p \in rows["inst"]}] ELSE box

\* The batch as it was when the question was put.
Confirmed == box

Yes ==
    /\ box # NoBox
    /\ StartBatch(Confirmed)
    /\ box' = NoBox
    /\ UNCHANGED <<installed, tableVars, loads, ghostVars>>

No ==
    /\ box # NoBox
    /\ box' = NoBox
    /\ UNCHANGED <<installed, tableVars, loads, jobs, ghostVars>>

\* The one operation that asks nothing.
UpgradeSelected ==
    /\ Reachable
    /\ \E batch \in Targets("up", "upgrade") : StartBatch(batch)
    /\ UNCHANGED <<installed, tableVars, box, loads, ghostVars>>

-----------------------------------------------------------------------------
(* Operations *)

Effect(op, p) ==
    CASE op = "remove"  -> installed \ {p}
      [] op = "install" -> installed \cup {p}
      [] OTHER -> installed

StepDone(j) ==
    /\ j \in Live
    /\ \E c \in jobs[j].todo :
         /\ installed' = Effect(jobs[j].op, c[1])
         /\ jobs' = [jobs EXCEPT ![j].todo = @ \ {c}]
    /\ UNCHANGED <<tableVars, box, loads, ghostVars>>

\* A failed command ends its batch, and so do Stop and the window's deletion;
\* remove() of one manual application may fail and the next one is tried.
StepFails(j) ==
    /\ j \in Live
    /\ \E c \in jobs[j].todo :
         jobs' = [jobs EXCEPT ![j].todo = IF jobs[j].kind = "log" THEN {} ELSE @ \ {c}]
    /\ UNCHANGED <<installed, tableVars, box, loads, ghostVars>>

\* Which table `after' loads: the Installed one, or the upgrades.
ReloadsInstalled(op) == op \in {"remove", "install"}

\* completed() of the window, or finished() of the worker thread.  The window
\* stays up; of one that was dismissed the slot may still run.
Tell(j) ==
    /\ j \in Live /\ jobs[j].todo = {}
    /\ jobs' = [jobs EXCEPT
         ![j] = IF jobs[j].phase = "running" /\ jobs[j].kind = "log" THEN Shown ELSE NoJob]
    /\ \E l \in Load :
         IF ReloadsInstalled(jobs[j].op) THEN LoadInstalled(l) ELSE LoadUpgrades(l)
    /\ UNCHANGED <<installed, box>>

CloseWindow(j) ==
    /\ jobs[j] = Shown
    /\ jobs' = [jobs EXCEPT ![j] = NoJob]
    /\ UNCHANGED <<installed, tableVars, box, loads, ghostVars>>

\* Escape, or Stop twice: see CommandLog's NeverClosedMidOperation.  Commands
\* run on until the window's deletion ends them, and root's beyond that.
Escape(j) ==
    /\ jobs[j].phase = "running" /\ jobs[j].kind = "log"
    /\ jobs' = [jobs EXCEPT ![j].phase = "lost"]
    /\ unseen' = TRUE
    /\ UNCHANGED <<installed, tableVars, box, loads, leftOut>>

\* Nobody is told: the window is gone, and the slot with it.
LostEnds(j) ==
    /\ jobs[j].phase = "lost" /\ jobs[j].todo = {}
    /\ jobs' = [jobs EXCEPT ![j] = NoJob]
    /\ UNCHANGED <<installed, tableVars, box, loads, ghostVars>>

-----------------------------------------------------------------------------
\* The constructor loads the Installed table; the loads of the two other tabs
\* start on request.
Init ==
    /\ installed \in SUBSET Pkg
    /\ rows = [t \in Table |-> {}]
    /\ srchButton = TRUE /\ upCheck = TRUE /\ upAll = FALSE
    /\ box = NoBox
    /\ \E l \in Load : loads = [k \in Load |->
           IF k = l THEN [phase |-> "queued", table |-> "inst", mgr |-> Manual] ELSE Idle]
    /\ jobs = [j \in Job |-> NoJob]
    /\ unseen = FALSE /\ leftOut = {}

Next ==
    \/ \E l \in Load : Reload(l) \/ RunSearch(l) \/ CheckUpgrades(l) \/ Read(l) \/ Answer(l)
    \/ AskRemove \/ AskInstall \/ AskUpgradeAll \/ Yes \/ No \/ UpgradeSelected
    \/ \E j \in Job : StepDone(j) \/ StepFails(j) \/ Tell(j)
                   \/ CloseWindow(j) \/ Escape(j) \/ LostEnds(j)

Spec == Init /\ [][Next]_vars

-----------------------------------------------------------------------------
(* Properties *)

\* Once every load has answered and every operation has been told, the Installed
\* table misses only what the list commands themselves left out, however loads
\* and operations overlapped: a load clears the table before it asks and appends
\* after, and `after' of each operation starts one.  (What is there may be more:
\* an answer asked for before a removal is appended after it.)
NothingMissing ==
    InFlight("inst") = {} /\ Told = {} /\ ~unseen
        => installed \ leftOut \subseteq rows["inst"]

\* Commands that start are those that were confirmed, all of them, and each is
\* put to the manager that knows its package, although tables and combo boxes
\* may have changed since the question was put; and nothing starts unasked but
\* "Upgrade selected", of rows the table lists.
RunsWhatWasAsked ==
    [][LET started == {j \in Job : jobs[j] = NoJob /\ jobs'[j] # NoJob}
           run == UNION {jobs'[j].todo : j \in started}
       IN started # {} =>
            /\ IF box = NoBox
               THEN \A j \in started : jobs'[j].op = "upgrade" /\ \A c \in run : c[1] \in rows["up"]
               ELSE run = box.what /\ \A j \in started : jobs'[j].op = box.op
            /\ \A c \in run : c[1] # All => c[2] = MgrOf[c[1]]]_vars

\* The buttons of the tables say the truth in whatever order loads answer:
\* "Upgrade all" is offered only over a table that lists an upgrade, and one
\* that is greyed out for a search or a check has an answer to wait for.
ButtonsTrue ==
    /\ upAll => rows["up"] # {}
    /\ ~srchButton => InFlight("srch") # {}
    /\ ~upCheck => InFlight("up") # {}
=============================================================================
