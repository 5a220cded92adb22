------------------------- MODULE PackageTablesProofs -------------------------
(***************************************************************************)
(* Proofs about PackageTables, for any packages, managers, and numbers of  *)
(* loads and operations at once.                                           *)
(***************************************************************************)
EXTENDS PackageTables, TLAPS

QueuedLoads == [phase : {"queued"}, table : Table, mgr : Mgr \cup {Manual}]
ReadLoads   == [phase : {"read"}, table : Table, found : SUBSET Pkg]
RealJobs    == [phase : {"running", "lost"}, kind : {"log", "off"}, op : Op,
                todo : SUBSET Command]

\* A command is put to the manager that knows its package, and is about one
\* unless everything is upgraded.
Own(op, what) ==
    \A c \in what : (op # "upgradeAll" => c[1] \in Pkg) /\ (c[1] # All => c[2] = MgrOf[c[1]])

\* What is asked, and what runs, was made of rows.
BoxOwn  == box # NoBox => Own(box.op, box.what)
JobsOwn == \A j \in Live : Own(jobs[j].op, jobs[j].todo)

\* The ways in which a package gets into the Installed table yet: an operation
\* that will be told and then loads it, a load that has not asked, or an answer
\* that has it.  Nothing else misses but what the answers left out.
LostUnseen == Lost # {} => unseen
Reloader   == \E j \in Told : ReloadsInstalled(jobs[j].op)
Coming(p)  == \E l \in InFlight("inst") : loads[l].phase = "queued" \/ p \in loads[l].found
Covered    == \A p \in installed \ leftOut :
                  unseen \/ Reloader \/ Coming(p) \/ p \in rows["inst"]

JobsInv  == jobs \in [Job -> Jobs] /\ JobsOwn
BoxInv   == box \in Batch \cup {NoBox} /\ BoxOwn
LoadsInv == loads \in [Load -> Loads] /\ rows \in [Table -> SUBSET Pkg]
SeenInv  == LostUnseen /\ Covered

IInv == TypeOK /\ BoxOwn /\ JobsOwn /\ ButtonsTrue /\ SeenInv

-----------------------------------------------------------------------------
(* Loads and jobs *)

LEMMA LoadsAre == Loads = {Idle} \cup QueuedLoads \cup ReadLoads
BY DEF Loads, QueuedLoads, ReadLoads

LEMMA JobsAre == Jobs = {NoJob, Shown} \cup RealJobs
BY DEF Jobs, RealJobs

LEMMA RealJob ==
    ASSUME NEW r \in Jobs
    PROVE  r \in RealJobs <=> r.phase \in {"running", "lost"}
BY JobsAre DEF NoJob, Shown, RealJobs

LEMMA LiveJobs == jobs \in [Job -> Jobs] => Live = {j \in Job : jobs[j] \in RealJobs}
BY RealJob DEF Live, Told, Lost

LEMMA NotReal == NoJob \notin RealJobs /\ Shown \notin RealJobs /\ NoJob # Shown
BY DEF RealJobs, NoJob, Shown

LEMMA QueuedLoad == ASSUME NEW r \in Loads, r.phase = "queued" PROVE r \in QueuedLoads
BY LoadsAre DEF Idle, ReadLoads, QueuedLoads

LEMMA ReadLoad == ASSUME NEW r \in Loads, r.phase = "read" PROVE r \in ReadLoads
BY LoadsAre DEF Idle, ReadLoads, QueuedLoads

\* Fewer commands of the same kind are as true.
LEMMA FewerOwn ==
    ASSUME NEW op, NEW more, NEW less \in SUBSET more, Own(op, more)
    PROVE  Own(op, less)
BY DEF Own

-----------------------------------------------------------------------------
(* What is asked *)

\* The rows that are ticked give commands to their own managers.
LEMMA TargetsOwn ==
    ASSUME LoadsInv, NEW t \in Table, NEW op \in Op, NEW b \in Targets(t, op)
    PROVE  /\ b \in Batch /\ b.op = op /\ Own(op, b.what)
           /\ \A c \in b.what : c[1] \in rows[t]
<1>1. PICK chosen \in SUBSET rows[t], shown \in Mgr :
          b = [op |-> op, what |-> {CommandOf(p, shown) : p \in chosen}]
  BY DEF Targets
<1>2. chosen \subseteq Pkg
  BY DEF LoadsInv
<1>3. b.what = {<<p, MgrOf[p]>> : p \in chosen} /\ b.op = op
  BY <1>1 DEF CommandOf
<1>4. \A c \in b.what : c \in Command /\ c[1] \in chosen /\ c[2] = MgrOf[c[1]]
  BY <1>2, <1>3, ManagersAssumption DEF Command
<1>5. b \in Batch
  BY <1>1, <1>3, <1>4 DEF Batch
<1> QED
  BY <1>2, <1>3, <1>4, <1>5 DEF Own

LEMMA NextBoxInv == LoadsInv /\ BoxInv /\ [Next]_vars => BoxInv'
<1> SUFFICES ASSUME LoadsInv, BoxInv, [Next]_vars PROVE BoxInv'
  OBVIOUS
<1>1. CASE box' = box
  BY <1>1 DEF BoxInv, BoxOwn
<1>2. CASE box' = NoBox
  BY <1>2 DEF BoxInv, BoxOwn
<1>3. CASE AskRemove
  <2>1. box' \in Batch /\ Own(box'.op, box'.what)
    BY <1>3, TargetsOwn DEF AskRemove, Table, Op
  <2> QED
    BY <2>1 DEF BoxInv, BoxOwn
<1>4. CASE AskInstall
  <2>1. box' \in Batch /\ Own(box'.op, box'.what)
    BY <1>4, TargetsOwn DEF AskInstall, Table, Op
  <2> QED
    BY <2>1 DEF BoxInv, BoxOwn
<1>5. CASE AskUpgradeAll
  <2>1. PICK mgr \in Mgr : box' = [op |-> "upgradeAll", what |-> {<<All, mgr>>}]
    BY <1>5 DEF AskUpgradeAll
  <2>2. <<All, mgr>> \in Command
    BY DEF Command
  <2>3. box' \in Batch /\ Own(box'.op, box'.what)
    BY <2>1, <2>2 DEF Batch, Op, Own
  <2> QED
    BY <2>3 DEF BoxInv, BoxOwn
<1> QED
  BY <1>1, <1>2, <1>3, <1>4, <1>5
  DEF Next, vars, Reload, RunSearch, CheckUpgrades, Read, Answer, Yes, No, UpgradeSelected,
      StepDone, StepFails, Tell, CloseWindow, Escape, LostEnds

-----------------------------------------------------------------------------
(* What is started *)

\* A batch of true commands starts, as it was confirmed or unasked.
Starts ==
    \E b \in Batch :
        /\ Own(b.op, b.what) /\ StartBatch(b)
        /\ IF box = NoBox THEN b.op = "upgrade" /\ \A c \in b.what : c[1] \in rows["up"]
                          ELSE b = box

LEMMA StartsWhenAsked == LoadsInv /\ BoxInv /\ (Yes \/ UpgradeSelected) => Starts
<1> SUFFICES ASSUME LoadsInv, BoxInv, Yes \/ UpgradeSelected PROVE Starts
  OBVIOUS
<1>1. CASE Yes
  <2>1. box \in Batch /\ Own(box.op, box.what) /\ StartBatch(box) /\ box # NoBox
    BY <1>1 DEF Yes, Confirmed, BoxInv, BoxOwn
  <2> QED
    BY <2>1 DEF Starts
<1>2. CASE UpgradeSelected
  <2>1. PICK b \in Targets("up", "upgrade") : StartBatch(b)
    BY <1>2 DEF UpgradeSelected
  <2>2. b \in Batch /\ b.op = "upgrade" /\ Own("upgrade", b.what) /\ \A c \in b.what : c[1] \in rows["up"]
    BY TargetsOwn DEF Table, Op
  <2>3. box = NoBox
    BY <1>2 DEF UpgradeSelected, Reachable
  <2> QED
    BY <2>1, <2>2, <2>3 DEF Starts
<1> QED
  BY <1>1, <1>2

\* What starts, in which jobs: those that had none, one of each kind at most,
\* and between them all of the batch.
Started == {j \in Job : jobs[j] = NoJob /\ jobs'[j] # NoJob}

LEMMA StartsAll ==
    JobsInv /\ Starts =>
        /\ jobs' \in [Job -> Jobs]
        /\ \A i \in Job : jobs'[i] # jobs[i] => jobs[i] = NoJob /\ jobs'[i].phase = "running"
        /\ \A i \in Job : jobs'[i] # jobs[i] => Own(jobs'[i].op, jobs'[i].todo)
        /\ LET run == UNION {jobs'[j].todo : j \in Started}
           IN Started # {} =>
                /\ IF box = NoBox
                   THEN \A j \in Started : jobs'[j].op = "upgrade" /\ \A c \in run : c[1] \in rows["up"]
                   ELSE run = box.what /\ \A j \in Started : jobs'[j].op = box.op
                /\ \A c \in run : c[1] # All => c[2] = MgrOf[c[1]]
<1> SUFFICES ASSUME JobsInv, Starts
             PROVE  /\ jobs' \in [Job -> Jobs]
                    /\ \A i \in Job : jobs'[i] # jobs[i] => jobs[i] = NoJob /\ jobs'[i].phase = "running"
                    /\ \A i \in Job : jobs'[i] # jobs[i] => Own(jobs'[i].op, jobs'[i].todo)
                    /\ LET run == UNION {jobs'[j].todo : j \in Started}
                       IN Started # {} =>
                            /\ IF box = NoBox
                               THEN \A j \in Started : jobs'[j].op = "upgrade" /\ \A c \in run : c[1] \in rows["up"]
                               ELSE run = box.what /\ \A j \in Started : jobs'[j].op = box.op
                            /\ \A c \in run : c[1] # All => c[2] = MgrOf[c[1]]
  OBVIOUS
<1>1. PICK b \in Batch :
          /\ Own(b.op, b.what) /\ StartBatch(b)
          /\ IF box = NoBox THEN b.op = "upgrade" /\ \A c \in b.what : c[1] \in rows["up"]
                            ELSE b = box
  BY DEF Starts
<1> DEFINE off == IF b.op = "remove" THEN {c \in b.what : c[2] = Manual} ELSE {}
           log == b.what \ off
<1>2. PICK j \in Job, k \in Job :
         /\ j # k
         /\ off # {} => jobs[j] = NoJob
         /\ log # {} => jobs[k] = NoJob
         /\ jobs' = [i \in Job |->
                CASE i = j /\ off # {} -> Running("off", b.op, off)
                  [] i = k /\ log # {} -> Running("log", b.op, log)
                  [] OTHER -> jobs[i]]
  BY <1>1 DEF StartBatch
<1>3. off \subseteq b.what /\ log \subseteq b.what /\ off \cup log = b.what
  OBVIOUS
<1>4. b.op \in Op /\ b.what \in SUBSET Command
  BY DEF Batch
<1>5. Own(b.op, off) /\ Own(b.op, log)
  BY <1>1, <1>3, FewerOwn
<1> HIDE DEF off, log
<1>6. Running("off", b.op, off) \in RealJobs /\ Running("log", b.op, log) \in RealJobs
  BY <1>3, <1>4 DEF Running, RealJobs
<1>7. Running("off", b.op, off) # NoJob /\ Running("log", b.op, log) # NoJob
  BY <1>6, NotReal
<1>8. \A i \in Job : jobs'[i] = IF i = j /\ off # {} THEN Running("off", b.op, off)
                                ELSE IF i = k /\ log # {} THEN Running("log", b.op, log)
                                ELSE jobs[i]
  BY <1>2
<1>9. \A i \in Job : jobs'[i] \in Jobs
  BY <1>6, <1>8, JobsAre DEF JobsInv
<1>10. jobs' \in [Job -> Jobs]
  BY <1>2, <1>9
<1>11. \A i \in Job : jobs'[i] # jobs[i] =>
           /\ jobs[i] = NoJob /\ jobs'[i].phase = "running"
           /\ Own(jobs'[i].op, jobs'[i].todo)
  BY <1>2, <1>5, <1>8 DEF Running
<1>12. Started = {i \in Job : (i = j /\ off # {}) \/ (i = k /\ log # {})}
  BY <1>2, <1>7, <1>8 DEF Started
<1>13. \A i \in Started : jobs'[i].op = b.op /\ jobs'[i].todo \subseteq b.what
  BY <1>3, <1>8, <1>12 DEF Running
<1>14. off # {} => j \in Started /\ jobs'[j].todo = off
  BY <1>8, <1>12 DEF Running
<1>15. log # {} => k \in Started /\ jobs'[k].todo = log
  BY <1>2, <1>8, <1>12 DEF Running
<1> DEFINE run == UNION {jobs'[i].todo : i \in Started}
<1>16. run = b.what
  <2>1. run \subseteq b.what
    BY <1>13
  <2>2. off \subseteq run /\ log \subseteq run
    BY <1>14, <1>15
  <2> QED
    BY <2>1, <2>2, <1>3
<1> HIDE DEF run
<1>17. \A c \in run : c[1] # All => c[2] = MgrOf[c[1]]
  BY <1>1, <1>16 DEF Own
<1>18. IF box = NoBox
       THEN \A i \in Started : jobs'[i].op = "upgrade" /\ \A c \in run : c[1] \in rows["up"]
       ELSE run = box.what /\ \A i \in Started : jobs'[i].op = box.op
  BY <1>1, <1>13, <1>16
<1> QED
  BY <1>10, <1>11, <1>17, <1>18 DEF run

LEMMA NextJobsInv == LoadsInv /\ BoxInv /\ JobsInv /\ [Next]_vars => JobsInv'
<1> SUFFICES ASSUME LoadsInv, BoxInv, JobsInv, [Next]_vars PROVE JobsInv'
  OBVIOUS
<1>0. jobs \in [Job -> Jobs] /\ \A j \in Job : jobs[j] \in RealJobs => Own(jobs[j].op, jobs[j].todo)
  BY LiveJobs DEF JobsInv, JobsOwn
<1>1. SUFFICES /\ jobs' \in [Job -> Jobs]
               /\ \A j \in Job : jobs'[j] \in RealJobs => Own(jobs'[j].op, jobs'[j].todo)
  <2>1. jobs' \in [Job -> Jobs] => Live' = {j \in Job : jobs'[j] \in RealJobs}
    BY RealJob DEF Live, Told, Lost
  <2> QED
    BY <2>1 DEF JobsInv, JobsOwn
<1> DEFINE Goal == /\ jobs' \in [Job -> Jobs]
                   /\ \A j \in Job : jobs'[j] \in RealJobs => Own(jobs'[j].op, jobs'[j].todo)
<1>2. CASE jobs' = jobs
  BY <1>0, <1>2
<1>3. CASE Yes \/ UpgradeSelected
  <2>1. Starts
    BY <1>3, StartsWhenAsked
  <2>2. /\ jobs' \in [Job -> Jobs]
        /\ \A i \in Job : jobs'[i] # jobs[i] => Own(jobs'[i].op, jobs'[i].todo)
    BY <2>1, StartsAll
  <2> QED
    BY <1>0, <2>2
<1>4. ASSUME NEW j \in Job, \E gone \in {NoJob, Shown} : jobs' = [jobs EXCEPT ![j] = gone]
      PROVE  Goal
  BY <1>0, <1>4, JobsAre, NotReal
<1>5. ASSUME NEW j \in Live, NEW rest, rest \subseteq jobs[j].todo,
             \/ jobs' = [jobs EXCEPT ![j].todo = rest]
             \/ rest = jobs[j].todo /\ jobs' = [jobs EXCEPT ![j].phase = "lost"]
      PROVE  Goal
  <2>1. j \in Job /\ jobs[j] \in RealJobs /\ Own(jobs[j].op, jobs[j].todo)
    BY <1>0, <1>5, LiveJobs
  <2>2. jobs'[j] \in RealJobs /\ jobs'[j].op = jobs[j].op /\ jobs'[j].todo = rest
    BY <1>0, <1>5, <2>1 DEF RealJobs
  <2>3. Own(jobs'[j].op, jobs'[j].todo)
    BY <1>5, <2>1, <2>2, FewerOwn
  <2>4. jobs' \in [Job -> Jobs] /\ \A i \in Job \ {j} : jobs'[i] = jobs[i]
    BY <1>0, <1>5, <2>1, <2>2, JobsAre
  <2> QED
    BY <1>0, <2>3, <2>4
<1>6. ASSUME NEW j \in Job, StepDone(j) \/ StepFails(j) PROVE Goal
  <2>1. PICK rest : rest \subseteq jobs[j].todo /\ jobs' = [jobs EXCEPT ![j].todo = rest]
    <3>1. CASE StepDone(j)
      <4>1. PICK c \in jobs[j].todo : jobs' = [jobs EXCEPT ![j].todo = jobs[j].todo \ {c}]
        BY <1>0, <3>1 DEF StepDone
      <4> QED
        BY <4>1
    <3>2. CASE StepFails(j)
      <4>1. PICK c \in jobs[j].todo :
                jobs' = [jobs EXCEPT ![j].todo = IF jobs[j].kind = "log" THEN {} ELSE jobs[j].todo \ {c}]
        BY <1>0, <3>2 DEF StepFails
      <4> QED
        BY <4>1
    <3> QED
      BY <1>6, <3>1, <3>2
  <2>2. j \in Live
    BY <1>6 DEF StepDone, StepFails
  <2> QED
    BY <1>5, <2>1, <2>2
<1>7. ASSUME NEW j \in Job, Escape(j) PROVE Goal
  <2>1. jobs' = [jobs EXCEPT ![j].phase = "lost"] /\ j \in Live
    BY <1>7 DEF Escape, Live, Told
  <2> QED
    BY <1>5, <2>1
<1>8. ASSUME NEW j \in Job, Tell(j) \/ CloseWindow(j) \/ LostEnds(j) PROVE Goal
  <2>1. \E gone \in {NoJob, Shown} : jobs' = [jobs EXCEPT ![j] = gone]
    BY <1>8 DEF Tell, CloseWindow, LostEnds
  <2> QED
    BY <1>4, <2>1
<1> QED
  BY <1>2, <1>3, <1>6, <1>7, <1>8
  DEF Next, vars, Reload, RunSearch, CheckUpgrades, Read, Answer, AskRemove, AskInstall,
      AskUpgradeAll, No

-----------------------------------------------------------------------------
(* Loads and buttons *)

\* What a load that is queued makes of the loads and the tables.
LEMMA QueueStep ==
    ASSUME LoadsInv, NEW l \in Load, NEW t \in Table, NEW m \in Mgr \cup {Manual},
           loads[l] = Idle,
           loads' = [loads EXCEPT ![l] = [phase |-> "queued", table |-> t, mgr |-> m]],
           rows' = [rows EXCEPT ![t] = {}]
    PROVE  LoadsInv'
<1> DEFINE r == [phase |-> "queued", table |-> t, mgr |-> m]
<1>1. r \in Loads
  BY LoadsAre DEF QueuedLoads
<1>2. loads' = [loads EXCEPT ![l] = r]
  OBVIOUS
<1> HIDE DEF r
<1> QED
  BY <1>1, <1>2 DEF LoadsInv

\* Every load that is queued: one of these four.
Queues ==
    \E l \in Load, t \in Table, m \in Mgr \cup {Manual} :
        /\ loads[l] = Idle
        /\ loads' = [loads EXCEPT ![l] = [phase |-> "queued", table |-> t, mgr |-> m]]
        /\ rows' = [rows EXCEPT ![t] = {}]
        /\ t = "inst" => UNCHANGED <<srchButton, upCheck, upAll>>
        /\ t = "srch" => UNCHANGED <<upCheck, upAll>> /\ srchButton' = FALSE
        /\ t = "up" => UNCHANGED srchButton /\ upCheck' = FALSE /\ upAll' = FALSE
        /\ t = "inst" => unseen' = (Lost' # {}) /\ leftOut' = {}
        /\ t # "inst" => UNCHANGED <<unseen, leftOut>>

LEMMA QueuesWhen ==
    ASSUME NEW l \in Load
    PROVE  Reload(l) \/ RunSearch(l) \/ CheckUpgrades(l) \/ LoadInstalled(l) \/ LoadUpgrades(l)
           => Queues
<1>1. ASSUME LoadInstalled(l) PROVE Queues
  BY <1>1 DEF Queues, LoadInstalled, Queue, Table, ghostVars
<1>2. ASSUME LoadUpgrades(l) PROVE Queues
  BY <1>2 DEF Queues, LoadUpgrades, Queue, Table, ghostVars
<1>3. ASSUME RunSearch(l) PROVE Queues
  BY <1>3 DEF Queues, RunSearch, Queue, Table, ghostVars
<1> QED
  BY <1>1, <1>2, <1>3 DEF Reload, CheckUpgrades

LEMMA TellQueues ==
    ASSUME NEW j \in Job
    PROVE  Tell(j) => Queues
BY QueuesWhen DEF Tell

\* Whatever happens, the tables, their loads and their buttons change in one of
\* three ways.
LEMMA LoadSteps ==
    [Next]_vars => \/ Queues
                   \/ \E l \in Load : Read(l) \/ Answer(l)
                   \/ UNCHANGED <<loads, rows, srchButton, upCheck, upAll>>
BY QueuesWhen, TellQueues
DEF Next, vars, tableVars, AskRemove, AskInstall, AskUpgradeAll, Yes, No, UpgradeSelected,
    StepDone, StepFails, CloseWindow, Escape, LostEnds

LEMMA NextLoadsInv == LoadsInv /\ installed \subseteq Pkg /\ [Next]_vars => LoadsInv'
<1> SUFFICES ASSUME LoadsInv, installed \subseteq Pkg, [Next]_vars PROVE LoadsInv'
  OBVIOUS
<1>1. CASE Queues
  BY <1>1, QueueStep DEF Queues
<1>2. ASSUME NEW l \in Load, Read(l) PROVE LoadsInv'
  <2>1. loads[l] \in QueuedLoads
    BY <1>2, QueuedLoad DEF Read, LoadsInv
  <2>2. PICK found \in SUBSET Pkg : loads' = [loads EXCEPT
            ![l] = [phase |-> "read", table |-> loads[l].table, found |-> found]]
    BY <1>2 DEF Read
  <2> DEFINE r == [phase |-> "read", table |-> loads[l].table, found |-> found]
  <2>3. r \in Loads
    BY <2>1, LoadsAre DEF QueuedLoads, ReadLoads
  <2>4. loads' = [loads EXCEPT ![l] = r] /\ rows' = rows
    BY <1>2, <2>2 DEF Read, tableVars
  <2> HIDE DEF r
  <2> QED
    BY <2>3, <2>4 DEF LoadsInv
<1>3. ASSUME NEW l \in Load, Answer(l) PROVE LoadsInv'
  <2>1. loads[l] \in ReadLoads
    BY <1>3, ReadLoad DEF Answer, LoadsInv
  <2>2. loads[l].table \in Table /\ loads[l].found \in SUBSET Pkg
    BY <2>1 DEF ReadLoads
  <2>3. rows' = [rows EXCEPT ![loads[l].table] = @ \cup loads[l].found]
    BY <1>3 DEF Answer, Appended
  <2>4. loads' = [loads EXCEPT ![l] = Idle]
    BY <1>3 DEF Answer
  <2> QED
    BY <2>2, <2>3, <2>4, LoadsAre DEF LoadsInv
<1>4. CASE UNCHANGED <<loads, rows>>
  BY <1>4 DEF LoadsInv
<1> QED
  BY <1>1, <1>2, <1>3, <1>4, LoadSteps

ButtonsTyped == srchButton \in BOOLEAN /\ upCheck \in BOOLEAN /\ upAll \in BOOLEAN

LEMMA NextButtons ==
    LoadsInv /\ ButtonsTyped /\ ButtonsTrue /\ [Next]_vars => ButtonsTyped' /\ ButtonsTrue'
<1> SUFFICES ASSUME LoadsInv, ButtonsTyped, ButtonsTrue, [Next]_vars
             PROVE  ButtonsTyped' /\ ButtonsTrue'
  OBVIOUS
<1>1. CASE Queues
  <2>1. PICK l \in Load, t \in Table, m \in Mgr \cup {Manual} :
            /\ loads[l] = Idle
            /\ loads' = [loads EXCEPT ![l] = [phase |-> "queued", table |-> t, mgr |-> m]]
            /\ rows' = [rows EXCEPT ![t] = {}]
            /\ t = "inst" => UNCHANGED <<srchButton, upCheck, upAll>>
            /\ t = "srch" => UNCHANGED <<upCheck, upAll>> /\ srchButton' = FALSE
            /\ t = "up" => UNCHANGED srchButton /\ upCheck' = FALSE /\ upAll' = FALSE
    BY <1>1 DEF Queues
  <2>2. l \in InFlight(t)' /\ \A u \in Table : InFlight(u) \subseteq InFlight(u)'
    BY <2>1 DEF InFlight, LoadsInv, Idle
  <2>3. t # "up" => rows'["up"] = rows["up"]
    BY <2>1 DEF LoadsInv, Table
  <2>4. ButtonsTyped'
    BY <2>1 DEF ButtonsTyped, Table
  <2>5. (upAll => rows["up"] # {})'
    BY <2>1, <2>3 DEF ButtonsTrue, Table
  <2>6. (~srchButton => InFlight("srch") # {})'
    BY <2>1, <2>2 DEF ButtonsTrue, Table
  <2>7. (~upCheck => InFlight("up") # {})'
    BY <2>1, <2>2 DEF ButtonsTrue, Table
  <2> QED
    BY <2>4, <2>5, <2>6, <2>7 DEF ButtonsTrue
<1>2. ASSUME NEW l \in Load, Read(l) PROVE ButtonsTyped' /\ ButtonsTrue'
  <2>1. UNCHANGED <<rows, srchButton, upCheck, upAll>>
    BY <1>2 DEF Read, tableVars
  <2>2. PICK found : loads' = [loads EXCEPT
            ![l] = [phase |-> "read", table |-> loads[l].table, found |-> found]]
    BY <1>2 DEF Read
  <2>3. \A u \in Table : InFlight(u) \subseteq InFlight(u)'
    BY <2>2 DEF InFlight, LoadsInv
  <2>4. ButtonsTrue'
    BY <2>1, <2>3 DEF ButtonsTrue, Table
  <2> QED
    BY <2>1, <2>4 DEF ButtonsTyped
<1>3. ASSUME NEW l \in Load, Answer(l) PROVE ButtonsTyped' /\ ButtonsTrue'
  <2> DEFINE t == loads[l].table
  <2>1. t \in Table
    BY <1>3, ReadLoad DEF Answer, LoadsInv, ReadLoads
  <2>2. /\ rows' = [rows EXCEPT ![t] = @ \cup loads[l].found]
        /\ srchButton' = (srchButton \/ t = "srch")
        /\ upCheck' = (upCheck \/ t = "up")
        /\ upAll' = IF t = "up" THEN loads[l].found # {} ELSE upAll
        /\ loads' = [loads EXCEPT ![l] = Idle]
    BY <1>3 DEF Answer, Appended, Answers
  <2>3. \A u \in Table : u # t => InFlight(u) \subseteq InFlight(u)'
    BY <2>2 DEF InFlight, LoadsInv
  <2>4. rows'[t] = rows[t] \cup loads[l].found /\ \A u \in Table : u # t => rows'[u] = rows[u]
    BY <2>1, <2>2 DEF LoadsInv
  <2> HIDE DEF t
  <2>5. (upAll => rows["up"] # {})'
    BY <2>2, <2>4 DEF ButtonsTrue, Table
  <2>6. (~srchButton => InFlight("srch") # {})'
    BY <2>2, <2>3 DEF ButtonsTrue, Table
  <2>7. (~upCheck => InFlight("up") # {})'
    BY <2>2, <2>3 DEF ButtonsTrue, Table
  <2>8. ButtonsTyped'
    BY <2>2 DEF ButtonsTyped
  <2> QED
    BY <2>5, <2>6, <2>7, <2>8 DEF ButtonsTrue
<1>4. CASE UNCHANGED <<loads, rows, srchButton, upCheck, upAll>>
  BY <1>4 DEF ButtonsTyped, ButtonsTrue, InFlight
<1> QED
  BY <1>1, <1>2, <1>3, <1>4, LoadSteps

-----------------------------------------------------------------------------
(* The Installed table *)

\* Neither loads nor `unseen' nor the operations that reload are lost.
Stays ==
    /\ installed' \subseteq installed
    /\ Lost' \subseteq Lost
    /\ unseen' = unseen /\ leftOut \subseteq leftOut'
    /\ Reloader => Reloader'
    /\ \A p \in Pkg : Coming(p) \/ p \in rows["inst"] => (Coming(p) \/ p \in rows["inst"])'

LEMMA StaysSeen == installed \subseteq Pkg /\ SeenInv /\ Stays => SeenInv'
BY DEF SeenInv, Stays, LostUnseen, Covered

\* A load that is queued empties one table only, and every other load goes on.
LEMMA QueueComing ==
    ASSUME LoadsInv, NEW l \in Load, NEW t \in Table, NEW m \in Mgr \cup {Manual},
           loads[l] = Idle,
           loads' = [loads EXCEPT ![l] = [phase |-> "queued", table |-> t, mgr |-> m]],
           rows' = [rows EXCEPT ![t] = {}]
    PROVE  /\ t = "inst" => \A p \in Pkg : Coming(p)'
           /\ t # "inst" => \A p \in Pkg :
                  Coming(p) \/ p \in rows["inst"] => (Coming(p) \/ p \in rows["inst"])'
<1>1. loads'[l] = [phase |-> "queued", table |-> t, mgr |-> m] /\ \A k \in Load \ {l} : loads'[k] = loads[k]
  BY DEF LoadsInv
<1>2. CASE t = "inst"
  BY <1>1, <1>2 DEF Coming, InFlight
<1>3. CASE t # "inst"
  <2>1. rows'["inst"] = rows["inst"]
    BY <1>3 DEF LoadsInv, Table
  <2>2. l \notin InFlight("inst")
    BY DEF InFlight, Idle
  <2>3. \A p \in Pkg : Coming(p) => Coming(p)'
    BY <1>1, <2>2 DEF Coming, InFlight
  <2> QED
    BY <1>3, <2>1, <2>3
<1> QED
  BY <1>2, <1>3

LEMMA ReadStays ==
    ASSUME LoadsInv, NEW l \in Load, Read(l), SeenInv, installed \subseteq Pkg
    PROVE  SeenInv'
<1>1. loads[l] \in QueuedLoads
  BY QueuedLoad DEF Read, LoadsInv
<1>2. PICK found \in SUBSET Pkg :
          /\ loads[l].table = "inst" => leftOut' = leftOut \cup (installed \ found)
          /\ loads[l].table # "inst" => UNCHANGED leftOut
          /\ loads' = [loads EXCEPT
                ![l] = [phase |-> "read", table |-> loads[l].table, found |-> found]]
  <2>1. loads[l].table \in Table
    BY <1>1 DEF QueuedLoads
  <2> QED
    BY <2>1 DEF Read, Table
<1>3. loads'[l] = [phase |-> "read", table |-> loads[l].table, found |-> found]
          /\ \A k \in Load \ {l} : loads'[k] = loads[k]
  BY <1>2 DEF LoadsInv
<1>4. UNCHANGED <<installed, rows, jobs, unseen>>
  BY DEF Read, tableVars
<1>5. \A p \in installed \ leftOut' : Coming(p) => Coming(p)'
  <2> SUFFICES ASSUME NEW p \in installed \ leftOut', NEW k \in InFlight("inst"),
                      loads[k].phase = "queued" \/ p \in loads[k].found
               PROVE  Coming(p)'
    BY DEF Coming
  <2>1. k \in InFlight("inst")'
    BY <1>3 DEF InFlight
  <2>2. loads'[k].phase = "queued" \/ p \in loads'[k].found
    <3>1. CASE k = l
      <4>1. p \in loads'[k].found
        BY <1>2, <1>3, <3>1 DEF InFlight
      <4> QED
        BY <4>1
    <3>2. CASE k # l
      BY <1>3, <3>2 DEF InFlight
    <3> QED
      BY <3>1, <3>2
  <2> QED
    BY <2>1, <2>2 DEF Coming
<1>6. Lost' = Lost /\ (Reloader => Reloader')
  BY <1>4 DEF Lost, Reloader, Told
<1>7. leftOut \subseteq leftOut'
  BY <1>2
<1> QED
  BY <1>4, <1>5, <1>6, <1>7 DEF SeenInv, LostUnseen, Covered

LEMMA AnswerStays ==
    ASSUME LoadsInv, NEW l \in Load, Answer(l), SeenInv, installed \subseteq Pkg
    PROVE  SeenInv'
<1>1. loads[l] \in ReadLoads
  BY ReadLoad DEF Answer, LoadsInv
<1>2. rows' = [rows EXCEPT ![loads[l].table] = @ \cup loads[l].found]
  BY DEF Answer, Appended
<1>3. loads' = [loads EXCEPT ![l] = Idle]
  BY DEF Answer
<1>4. UNCHANGED <<installed, jobs, unseen, leftOut>>
  BY DEF Answer, ghostVars
<1>5. rows["inst"] \subseteq rows'["inst"] /\ (loads[l].table = "inst" => loads[l].found \subseteq rows'["inst"])
  BY <1>1, <1>2 DEF LoadsInv, ReadLoads, Table
<1>6. \A p \in Pkg : Coming(p) => Coming(p)' \/ p \in rows'["inst"]
  <2> SUFFICES ASSUME NEW p \in Pkg, NEW k \in InFlight("inst"),
                      loads[k].phase = "queued" \/ p \in loads[k].found
               PROVE  Coming(p)' \/ p \in rows'["inst"]
    BY DEF Coming
  <2>1. CASE k = l
    <3>1. loads[l].phase = "read" /\ loads[l].table = "inst"
      BY <1>1, <2>1 DEF ReadLoads, InFlight
    <3> QED
      BY <1>5, <2>1, <3>1
  <2>2. CASE k # l
    <3>1. loads'[k] = loads[k]
      BY <1>3, <2>2 DEF LoadsInv, InFlight
    <3> QED
      BY <3>1 DEF Coming, InFlight
  <2> QED
    BY <2>1, <2>2
<1>7. Lost' = Lost /\ (Reloader => Reloader')
  BY <1>4 DEF Lost, Reloader, Told
<1> QED
  BY <1>4, <1>5, <1>6, <1>7, StaysSeen DEF Stays

\* Operations: what one does to the system it will be told of, or is lost.
LEMMA StepStays ==
    ASSUME JobsInv, NEW j \in Job, StepDone(j), SeenInv
    PROVE  SeenInv'
<1>1. PICK c \in jobs[j].todo :
          /\ installed' = Effect(jobs[j].op, c[1])
          /\ jobs' = [jobs EXCEPT ![j].todo = @ \ {c}]
  BY DEF StepDone
<1>2. UNCHANGED <<loads, rows, unseen, leftOut>> /\ j \in Live
  BY DEF StepDone, tableVars, ghostVars
<1>3. jobs[j] \in RealJobs
  BY <1>2, LiveJobs DEF JobsInv
<1>4. \A i \in Job : jobs'[i].phase = jobs[i].phase /\ jobs'[i].op = jobs[i].op
  BY <1>1, <1>3 DEF JobsInv, RealJobs
<1>5. Lost' = Lost /\ Told' = Told /\ (Reloader => Reloader')
  BY <1>4 DEF Lost, Told, Reloader
<1>6. \A p \in Pkg : Coming(p)' = Coming(p)
  BY <1>2 DEF Coming, InFlight
<1>7. LostUnseen'
  BY <1>2, <1>5 DEF SeenInv, LostUnseen
<1>8. ASSUME NEW p \in installed', p \notin installed PROVE unseen \/ Reloader'
  <2>1. jobs[j].op = "install"
    BY <1>1, <1>8 DEF Effect
  <2>2. jobs[j].phase \in {"running", "lost"}
    BY <1>3 DEF RealJobs
  <2>3. CASE jobs[j].phase = "lost"
    BY <2>3 DEF SeenInv, LostUnseen, Lost
  <2>4. CASE jobs[j].phase = "running"
    <3>1. j \in Told /\ ReloadsInstalled(jobs[j].op)
      BY <2>1, <2>4 DEF Told, ReloadsInstalled
    <3> QED
      BY <1>5, <3>1 DEF Reloader
  <2> QED
    BY <2>2, <2>3, <2>4
<1>9. Covered'
  <2> SUFFICES ASSUME NEW p \in installed' \ leftOut
               PROVE  unseen \/ Reloader' \/ Coming(p)' \/ p \in rows["inst"]
    BY <1>2 DEF Covered
  <2>1. CASE p \in installed
    <3>1. Coming(p)' = Coming(p)
      BY <1>2 DEF Coming, InFlight
    <3> QED
      BY <1>5, <2>1, <3>1 DEF SeenInv, Covered
  <2>2. CASE p \notin installed
    BY <1>8, <2>2
  <2> QED
    BY <2>1, <2>2
<1> QED
  BY <1>7, <1>9 DEF SeenInv

\* Jobs that start, fail or end lost take nobody's reload away.
LEMMA JobsStay ==
    ASSUME installed \subseteq Pkg, SeenInv, Lost' \subseteq Lost, Told \subseteq Told',
           \A i \in Told : jobs'[i].op = jobs[i].op,
           UNCHANGED <<installed, loads, rows, unseen, leftOut>>
    PROVE  SeenInv'
<1>1. Reloader => Reloader'
  BY DEF Reloader
<1>2. \A p \in Pkg : Coming(p)' = Coming(p)
  BY DEF Coming, InFlight
<1> QED
  BY <1>1, <1>2, StaysSeen DEF Stays

LEMMA StartStays ==
    ASSUME installed \subseteq Pkg, JobsInv, SeenInv, Starts,
           UNCHANGED <<installed, loads, rows, unseen, leftOut>>
    PROVE  SeenInv'
<1>1. \A i \in Job : jobs'[i] # jobs[i] => jobs[i] = NoJob /\ jobs'[i].phase = "running"
  BY StartsAll
<1>2. \A i \in Told : jobs'[i] = jobs[i]
  BY <1>1 DEF Told, NoJob
<1>3. Lost' \subseteq Lost
  <2> SUFFICES ASSUME NEW i \in Job, jobs'[i].phase = "lost" PROVE jobs[i].phase = "lost"
    BY DEF Lost
  <2>1. jobs'[i] = jobs[i]
    BY <1>1
  <2> QED
    BY <2>1
<1>4. Told \subseteq Told'
  BY <1>2 DEF Told
<1> QED
  BY <1>2, <1>3, <1>4, JobsStay

LEMMA FailStays ==
    ASSUME installed \subseteq Pkg, JobsInv, SeenInv, NEW j \in Job,
           StepFails(j) \/ CloseWindow(j) \/ LostEnds(j)
    PROVE  SeenInv'
<1>1. UNCHANGED <<installed, loads, rows, unseen, leftOut>>
  BY DEF StepFails, CloseWindow, LostEnds, tableVars, ghostVars
<1>2. CASE StepFails(j)
  <2>1. PICK rest : jobs' = [jobs EXCEPT ![j].todo = rest]
    BY <1>2 DEF StepFails
  <2>2. jobs[j] \in RealJobs
    BY <1>2, LiveJobs DEF StepFails, JobsInv
  <2>3. \A i \in Job : jobs'[i].phase = jobs[i].phase /\ jobs'[i].op = jobs[i].op
    BY <2>1, <2>2 DEF JobsInv, RealJobs
  <2> QED
    BY <1>1, <2>3, JobsStay DEF Lost, Told
<1>3. CASE CloseWindow(j) \/ LostEnds(j)
  <2>1. jobs' = [jobs EXCEPT ![j] = NoJob] /\ jobs[j].phase # "running"
    BY <1>3 DEF CloseWindow, LostEnds, Shown
  <2>2. \A i \in Job : IF i = j THEN jobs'[i] = NoJob ELSE jobs'[i] = jobs[i]
    BY <2>1 DEF JobsInv
  <2>3. Lost' \subseteq Lost /\ Told \subseteq Told' /\ \A i \in Told : jobs'[i] = jobs[i]
    BY <2>1, <2>2 DEF Lost, Told, NoJob
  <2> QED
    BY <1>1, <2>3, JobsStay
<1> QED
  BY <1>2, <1>3

LEMMA EscapeStays ==
    ASSUME SeenInv, NEW j \in Job, Escape(j)
    PROVE  SeenInv'
BY DEF Escape, SeenInv, LostUnseen, Covered

\* A load of the user's, or of an operation that is told: of Installed, and then
\* everything is coming, or of another table.
LEMMA LoadStays ==
    ASSUME installed \subseteq Pkg, JobsInv, LoadsInv, SeenInv, Queues, Lost' \subseteq Lost,
           installed' = installed,
           (Reloader => Reloader') \/ \A p \in Pkg : Coming(p)'
    PROVE  SeenInv'
<1>1. PICK l \in Load, t \in Table, m \in Mgr \cup {Manual} :
          /\ loads[l] = Idle
          /\ loads' = [loads EXCEPT ![l] = [phase |-> "queued", table |-> t, mgr |-> m]]
          /\ rows' = [rows EXCEPT ![t] = {}]
          /\ t = "inst" => unseen' = (Lost' # {})
          /\ t # "inst" => UNCHANGED <<unseen, leftOut>>
  BY DEF Queues
<1>2. /\ t = "inst" => \A p \in Pkg : Coming(p)'
      /\ t # "inst" => \A p \in Pkg :
             Coming(p) \/ p \in rows["inst"] => (Coming(p) \/ p \in rows["inst"])'
  BY <1>1, QueueComing
<1>3. CASE t = "inst"
  <2>1. LostUnseen'
    BY <1>1, <1>3 DEF LostUnseen
  <2>2. Covered'
    BY <1>2, <1>3 DEF Covered
  <2> QED
    BY <2>1, <2>2 DEF SeenInv
<1>4. CASE t # "inst" /\ (Reloader => Reloader')
  BY <1>1, <1>2, <1>4, StaysSeen DEF Stays
<1>5. CASE t # "inst" /\ \A p \in Pkg : Coming(p)'
  BY <1>1, <1>5 DEF SeenInv, LostUnseen, Covered
<1> QED
  BY <1>1, <1>3, <1>4, <1>5

LEMMA TellStays ==
    ASSUME installed \subseteq Pkg, JobsInv, LoadsInv, SeenInv, NEW j \in Job, Tell(j)
    PROVE  SeenInv'
<1>1. Queues /\ installed' = installed
  BY TellQueues DEF Tell
<1>2. PICK gone \in {NoJob, Shown} : jobs' = [jobs EXCEPT ![j] = gone]
  BY DEF Tell
<1>3. \A i \in Job : IF i = j THEN jobs'[i] = gone ELSE jobs'[i] = jobs[i]
  BY <1>2 DEF JobsInv
<1>4. Lost' \subseteq Lost
  BY <1>3 DEF Lost, NoJob, Shown
<1>5. CASE ReloadsInstalled(jobs[j].op)
  <2>1. PICK l \in Load : LoadInstalled(l)
    BY <1>5 DEF Tell
  <2>2. \A p \in Pkg : Coming(p)'
    BY <2>1, QueueComing DEF LoadInstalled, Queue, Table
  <2> QED
    BY <1>1, <1>4, <2>2, LoadStays
<1>6. CASE ~ReloadsInstalled(jobs[j].op)
  <2>1. Reloader => Reloader'
    BY <1>3, <1>6 DEF Reloader, Told
  <2> QED
    BY <1>1, <1>4, <2>1, LoadStays
<1> QED
  BY <1>5, <1>6

LEMMA NextSeenInv ==
    installed \subseteq Pkg /\ LoadsInv /\ BoxInv /\ JobsInv /\ SeenInv /\ [Next]_vars => SeenInv'
<1> SUFFICES ASSUME installed \subseteq Pkg, LoadsInv, BoxInv, JobsInv, SeenInv, [Next]_vars
             PROVE  SeenInv'
  OBVIOUS
<1>1. ASSUME UNCHANGED <<installed, loads, rows, unseen, leftOut, jobs>> PROVE SeenInv'
  BY <1>1 DEF SeenInv, LostUnseen, Covered, Lost, Reloader, Told, Coming, InFlight
<1>2. CASE AskRemove \/ AskInstall \/ AskUpgradeAll \/ No \/ UNCHANGED vars
  BY <1>1, <1>2 DEF AskRemove, AskInstall, AskUpgradeAll, No, vars, tableVars, ghostVars
<1>3. CASE Yes \/ UpgradeSelected
  <2>1. Starts
    BY <1>3, StartsWhenAsked
  <2>2. UNCHANGED <<installed, loads, rows, unseen, leftOut>>
    BY <1>3 DEF Yes, UpgradeSelected, tableVars, ghostVars
  <2> QED
    BY <2>1, <2>2, StartStays
<1>4. ASSUME NEW l \in Load, Reload(l) \/ RunSearch(l) \/ CheckUpgrades(l) PROVE SeenInv'
  <2>1. Queues
    BY <1>4, QueuesWhen
  <2>2. UNCHANGED <<installed, jobs>>
    BY <1>4 DEF Reload, RunSearch, CheckUpgrades
  <2>3. Lost' = Lost /\ (Reloader => Reloader')
    BY <2>2 DEF Lost, Reloader, Told
  <2> QED
    BY <2>1, <2>2, <2>3, LoadStays
<1>5. ASSUME NEW l \in Load, Read(l) PROVE SeenInv'
  BY <1>5, ReadStays
<1>6. ASSUME NEW l \in Load, Answer(l) PROVE SeenInv'
  BY <1>6, AnswerStays
<1>7. ASSUME NEW j \in Job, StepDone(j) PROVE SeenInv'
  BY <1>7, StepStays
<1>8. ASSUME NEW j \in Job, StepFails(j) \/ CloseWindow(j) \/ LostEnds(j) PROVE SeenInv'
  BY <1>8, FailStays
<1>9. ASSUME NEW j \in Job, Tell(j) PROVE SeenInv'
  BY <1>9, TellStays
<1>10. ASSUME NEW j \in Job, Escape(j) PROVE SeenInv'
  BY <1>10, EscapeStays
<1> QED
  BY <1>2, <1>3, <1>4, <1>5, <1>6, <1>7, <1>8, <1>9, <1>10 DEF Next

-----------------------------------------------------------------------------
(* The invariant *)

\* What is installed, and what has been seen of it.
SystemTyped == installed \subseteq Pkg /\ unseen \in BOOLEAN /\ leftOut \subseteq Pkg

LEMMA NextInstalled == SystemTyped /\ JobsInv /\ [Next]_vars => SystemTyped'
<1> SUFFICES ASSUME SystemTyped, JobsInv, [Next]_vars PROVE SystemTyped'
  OBVIOUS
<1> USE DEF SystemTyped, ghostVars
<1>1. ASSUME NEW j \in Job, StepDone(j) PROVE SystemTyped'
  <2>1. PICK c \in jobs[j].todo : installed' = Effect(jobs[j].op, c[1])
    BY <1>1 DEF StepDone
  <2>2. jobs[j].op # "upgradeAll" => c[1] \in Pkg
    BY <1>1 DEF StepDone, JobsInv, JobsOwn, Own
  <2>3. installed' \subseteq Pkg
    BY <2>1, <2>2 DEF Effect
  <2> QED
    BY <1>1, <2>3 DEF StepDone
<1>2. CASE Queues /\ installed' = installed
  BY <1>2 DEF Queues
<1>3. ASSUME NEW j \in Job, Escape(j) PROVE SystemTyped'
  BY <1>3 DEF Escape
<1>4. CASE UNCHANGED <<installed, unseen, leftOut>>
  BY <1>4
<1>5. ASSUME NEW l \in Load, Reload(l) \/ RunSearch(l) \/ CheckUpgrades(l)
      PROVE  SystemTyped'
  BY <1>2, <1>5, QueuesWhen DEF Reload, RunSearch, CheckUpgrades
<1>6. ASSUME NEW j \in Job, Tell(j) PROVE SystemTyped'
  BY <1>2, <1>6, TellQueues DEF Tell
<1>7. ASSUME NEW l \in Load, Read(l) PROVE SystemTyped'
  <2>1. leftOut' \subseteq leftOut \cup installed \/ UNCHANGED leftOut
    BY <1>7 DEF Read
  <2> QED
    BY <1>7, <2>1 DEF Read
<1> QED
  BY <1>1, <1>3, <1>4, <1>5, <1>6, <1>7
  DEF Next, vars, Answer, AskRemove, AskInstall, AskUpgradeAll, Yes, No, UpgradeSelected,
      StepFails, CloseWindow, LostEnds

LEMMA Parts ==
    IInv <=> /\ SystemTyped
             /\ LoadsInv /\ BoxInv /\ JobsInv /\ ButtonsTyped /\ ButtonsTrue /\ SeenInv
BY DEF IInv, TypeOK, SystemTyped, LoadsInv, BoxInv, JobsInv, ButtonsTyped

LEMMA InitIInv == Init => IInv
<1> SUFFICES ASSUME Init PROVE IInv
  OBVIOUS
<1>1. PICK l \in Load : loads = [k \in Load |->
          IF k = l THEN [phase |-> "queued", table |-> "inst", mgr |-> Manual] ELSE Idle]
  BY DEF Init
<1>2. [phase |-> "queued", table |-> "inst", mgr |-> Manual] \in Loads /\ Idle \in Loads
  BY LoadsAre DEF QueuedLoads, Table
<1>3. LoadsInv
  BY <1>1, <1>2 DEF Init, LoadsInv
<1>4. jobs = [j \in Job |-> NoJob] /\ NoJob \in Jobs /\ NoJob.phase = "none"
  BY JobsAre DEF Init, NoJob
<1>5. JobsInv /\ Lost = {}
  BY <1>4 DEF JobsInv, JobsOwn, Live, Told, Lost
<1>6. BoxInv /\ ButtonsTyped /\ ButtonsTrue
  BY DEF Init, BoxInv, BoxOwn, ButtonsTyped, ButtonsTrue
<1>7. \A p \in Pkg : Coming(p)
  BY <1>1 DEF Coming, InFlight
<1>8. SystemTyped
  BY DEF Init, SystemTyped
<1>9. SeenInv
  BY <1>5, <1>7, <1>8 DEF SeenInv, LostUnseen, Covered, SystemTyped
<1> QED
  BY <1>3, <1>5, <1>6, <1>8, <1>9, Parts

\* The inductive invariant holds in every reachable state.
THEOREM Invariance == Spec => []IInv
<1>1. IInv /\ [Next]_vars => IInv'
  <2> SUFFICES ASSUME IInv, [Next]_vars PROVE IInv'
    OBVIOUS
  <2>1. /\ SystemTyped
        /\ LoadsInv /\ BoxInv /\ JobsInv /\ ButtonsTyped /\ ButtonsTrue /\ SeenInv
    BY Parts
  <2>2. SystemTyped'
    BY <2>1, NextInstalled
  <2>3. LoadsInv' /\ BoxInv' /\ JobsInv'
    BY <2>1, NextLoadsInv, NextBoxInv, NextJobsInv DEF SystemTyped
  <2>4. ButtonsTyped' /\ ButtonsTrue' /\ SeenInv'
    BY <2>1, NextButtons, NextSeenInv DEF SystemTyped
  <2> QED
    BY <2>2, <2>3, <2>4
    DEF IInv, TypeOK, SystemTyped, LoadsInv, BoxInv, JobsInv, ButtonsTyped
<1> QED
  BY <1>1, InitIInv, PTL DEF Spec

-----------------------------------------------------------------------------
(* Theorems *)

\* Every variable keeps its type: tables hold packages, and commands are about
\* packages, or about all of them.
THEOREM TypeCorrect == Spec => []TypeOK
BY Invariance, PTL DEF IInv

\* The buttons tell the truth of their tables and loads.
THEOREM ButtonsTell == Spec => []ButtonsTrue
BY Invariance, PTL DEF IInv

\* When every load has answered and every operation has been told, the Installed
\* table lists whatever is installed, but for what a list command that failed or
\* was cut off left out.
THEOREM NothingIsMissing == Spec => []NothingMissing
<1>1. IInv => NothingMissing
  BY DEF IInv, SeenInv, Covered, Coming, Reloader, NothingMissing
<1> QED
  BY <1>1, Invariance, PTL

\* What starts is what was confirmed, each command put to its own manager.
THEOREM RunsAsAsked == Spec => RunsWhatWasAsked
<1> DEFINE Asked ==
        LET started == {j \in Job : jobs[j] = NoJob /\ jobs'[j] # NoJob}
            run == UNION {jobs'[j].todo : j \in started}
        IN started # {} =>
             /\ IF box = NoBox
                THEN \A j \in started : jobs'[j].op = "upgrade" /\ \A c \in run : c[1] \in rows["up"]
                ELSE run = box.what /\ \A j \in started : jobs'[j].op = box.op
             /\ \A c \in run : c[1] # All => c[2] = MgrOf[c[1]]
<1>1. ASSUME IInv, [Next]_vars PROVE Asked
  <2>1. LoadsInv /\ BoxInv /\ JobsInv
    BY <1>1, Parts
  <2>2. CASE Yes \/ UpgradeSelected
    <3>1. Starts
      BY <2>1, <2>2, StartsWhenAsked
    <3> QED
      BY <2>1, <3>1, StartsAll DEF Started
  <2>3. CASE Started = {}
    BY <2>3 DEF Started
  <2>4. ASSUME NEW j \in Job, \A i \in Job \ {j} : jobs'[i] = jobs[i],
               jobs[j] # NoJob
        PROVE  Started = {}
    BY <2>4 DEF Started
  <2>5. ASSUME NEW j \in Job,
               \/ StepDone(j) \/ StepFails(j) \/ Tell(j)
               \/ CloseWindow(j) \/ Escape(j) \/ LostEnds(j)
        PROVE  Started = {}
    <3>1. jobs[j] # NoJob
      BY <2>5 DEF StepDone, StepFails, Tell, CloseWindow, Escape, LostEnds, Live, Told, Lost,
                  NoJob, Shown
    <3>2. \A i \in Job \ {j} : jobs'[i] = jobs[i]
      BY <2>1, <2>5 DEF StepDone, StepFails, Tell, CloseWindow, Escape, LostEnds, JobsInv
    <3> QED
      BY <2>4, <3>1, <3>2
  <2>6. CASE jobs' = jobs
    BY <2>3, <2>6 DEF Started
  <2> HIDE DEF Asked
  <2> QED
    BY <1>1, <2>2, <2>3, <2>5, <2>6
    DEF Next, vars, Reload, RunSearch, CheckUpgrades, Read, Answer, AskRemove, AskInstall,
        AskUpgradeAll, No
<1> QED
  BY <1>1, Invariance, PTL DEF Spec, RunsWhatWasAsked
=============================================================================
