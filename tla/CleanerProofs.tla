---------------------------- MODULE CleanerProofs ----------------------------
(***************************************************************************)
(* Proofs about Cleaner, for any categories, engines and number of jobs at *)
(* once: the types, that a cleaning does what was confirmed behind its     *)
(* restore point, and what the status line tells of it.                    *)
(***************************************************************************)
EXTENDS Cleaner, TLAPS

ScanJobs  == [kind : {"scan"}, asked : SUBSET Category, ended : BOOLEAN]
CleanJobs == [kind : {"clean"}, asked : SUBSET Category, net : BOOLEAN,
              point : {"unmade", "made", "failed"},
              todo : SUBSET Category, done : SUBSET Category, left : SUBSET Category,
              failed : SUBSET Category]

\* The account of a cleaning: what was listed is still to be done, done, done with
\* some of the user's files left, or failed, unless the restore point failed, and
\* then none of it is; nothing is gone before the restore point that was asked for
\* is made.
Sound(r) ==
    LET gone == r.done \cup r.left \cup r.failed
    IN /\ r.todo \cup gone \subseteq r.asked /\ r.left \subseteq UserFiles
       /\ r.point # "failed" => r.asked \subseteq r.todo \cup gone
       /\ r.point = "failed" => r.net /\ r.todo = {} /\ gone = {}
       /\ r.net /\ gone # {} => r.point = "made"

Account == \A j \in Job : jobs[j].kind = "clean" => Sound(jobs[j])

IInv == TypeOK /\ Account

-----------------------------------------------------------------------------
(* Jobs *)

LEMMA JobsAre == Jobs = {NoJob} \cup ScanJobs \cup CleanJobs
BY DEF Jobs, ScanJobs, CleanJobs

LEMMA KindOfScan == ASSUME NEW r \in Jobs, r.kind = "scan" PROVE r \in ScanJobs
BY JobsAre DEF NoJob, ScanJobs, CleanJobs

LEMMA KindOfClean == ASSUME NEW r \in Jobs, r.kind = "clean" PROVE r \in CleanJobs
BY JobsAre DEF NoJob, ScanJobs, CleanJobs

\* What clean() starts a worker with.
LEMMA StartSound ==
    ASSUME NEW asked \in SUBSET Category, NEW net \in BOOLEAN,
           NEW r, r = [kind |-> "clean", asked |-> asked, net |-> net, point |-> "unmade",
                       todo |-> asked, done |-> {}, left |-> {}, failed |-> {}]
    PROVE  r \in CleanJobs /\ Sound(r)
BY DEF CleanJobs, Sound

\* The restore point is made...
LEMMA MadeSound ==
    ASSUME NEW r \in CleanJobs, Sound(r), r.net, r.point = "unmade",
           NEW s, s = [r EXCEPT !.point = "made"]
    PROVE  s \in CleanJobs /\ Sound(s)
BY DEF CleanJobs, Sound

\* ...or fails, and nothing was gone before it.
LEMMA FailedSound ==
    ASSUME NEW r \in CleanJobs, Sound(r), r.net, r.point = "unmade",
           NEW s, s = [r EXCEPT !.point = "failed", !.todo = {}]
    PROVE  s \in CleanJobs /\ Sound(s)
BY DEF CleanJobs, Sound

\* A category is cleaned, wholly or not, or could not be.
LEMMA DoneSound ==
    ASSUME NEW r \in CleanJobs, Sound(r), r.net => r.point # "unmade",
           NEW c \in r.todo,
           NEW s, s = [r EXCEPT !.todo = @ \ {c}, !.done = @ \cup {c}]
    PROVE  s \in CleanJobs /\ Sound(s)
<1>1. s \in CleanJobs
  BY DEF CleanJobs
<1>2. /\ s.asked = r.asked /\ s.net = r.net /\ s.point = r.point
      /\ s.todo = r.todo \ {c} /\ s.done = r.done \cup {c}
      /\ s.left = r.left /\ s.failed = r.failed
  BY DEF CleanJobs
<1>3. s.todo \cup (s.done \cup s.left \cup s.failed)
          = r.todo \cup (r.done \cup r.left \cup r.failed)
  BY <1>2
<1>4. r.point # "failed" /\ (r.net => r.point = "made")
  BY DEF Sound, CleanJobs
<1> QED
  BY <1>1, <1>2, <1>3, <1>4 DEF Sound

LEMMA LeftSound ==
    ASSUME NEW r \in CleanJobs, Sound(r), r.net => r.point # "unmade",
           NEW c \in r.todo \cap UserFiles,
           NEW s, s = [r EXCEPT !.todo = @ \ {c}, !.left = @ \cup {c}]
    PROVE  s \in CleanJobs /\ Sound(s)
<1>1. s \in CleanJobs
  BY DEF CleanJobs
<1>2. /\ s.asked = r.asked /\ s.net = r.net /\ s.point = r.point
      /\ s.todo = r.todo \ {c} /\ s.left = r.left \cup {c}
      /\ s.done = r.done /\ s.failed = r.failed
  BY DEF CleanJobs
<1>3. s.todo \cup (s.done \cup s.left \cup s.failed)
          = r.todo \cup (r.done \cup r.left \cup r.failed)
  BY <1>2
<1>4. r.point # "failed" /\ (r.net => r.point = "made")
  BY DEF Sound, CleanJobs
<1> QED
  BY <1>1, <1>2, <1>3, <1>4 DEF Sound

LEMMA CouldNotSound ==
    ASSUME NEW r \in CleanJobs, Sound(r), r.net => r.point # "unmade",
           NEW c \in r.todo,
           NEW s, s = [r EXCEPT !.todo = @ \ {c}, !.failed = @ \cup {c}]
    PROVE  s \in CleanJobs /\ Sound(s)
<1>1. s \in CleanJobs
  BY DEF CleanJobs
<1>2. /\ s.asked = r.asked /\ s.net = r.net /\ s.point = r.point
      /\ s.todo = r.todo \ {c} /\ s.failed = r.failed \cup {c}
      /\ s.done = r.done /\ s.left = r.left
  BY DEF CleanJobs
<1>3. s.todo \cup (s.done \cup s.left \cup s.failed)
          = r.todo \cup (r.done \cup r.left \cup r.failed)
  BY <1>2
<1>4. r.point # "failed" /\ (r.net => r.point = "made")
  BY DEF Sound, CleanJobs
<1> QED
  BY <1>1, <1>2, <1>3, <1>4 DEF Sound

-----------------------------------------------------------------------------
(* The invariant *)

LEMMA InitIInv == Init => IInv
<1> SUFFICES ASSUME Init PROVE TypeOK /\ Account
  BY DEF IInv
<1>1. NoJob \in Jobs /\ NoJob.kind # "clean"
  BY JobsAre DEF NoJob
<1>2. jobs \in [Job -> Jobs] /\ \A j \in Job : jobs[j] = NoJob
  BY <1>1 DEF Init
<1>3. box \in [asked : SUBSET Category, offer : BOOLEAN]
  BY DEF Init, NoBox
<1>4. active \in Engine \cup {None} /\ Backend(active) \in Engine
  BY CategoriesAssumption DEF Init, Backend
<1>5. TypeOK
  BY <1>2, <1>3, <1>4 DEF Init, TypeOK
<1>6. Account
  BY <1>1, <1>2 DEF Account
<1> QED
  BY <1>5, <1>6

\* A job changes into another of its kind that is sound, begins as one, or ends.
JobKept(r) == r \in Jobs /\ (r.kind = "clean" => Sound(r))

LEMMA JobStep ==
    ASSUME IInv, NEW j \in Job, NEW r, JobKept(r), jobs' = [jobs EXCEPT ![j] = r]
    PROVE  jobs' \in [Job -> Jobs] /\ Account'
BY DEF IInv, TypeOK, Account, JobKept

\* The engine there is, whatever was chosen.
LEMMA BackendIn == ASSUME NEW a PROVE Backend(a) \in Engine
BY CategoriesAssumption DEF Backend

LEMMA NextJobs == IInv /\ [Next]_vars => jobs' \in [Job -> Jobs] /\ Account'
<1> SUFFICES ASSUME IInv, [Next]_vars PROVE jobs' \in [Job -> Jobs] /\ Account'
  OBVIOUS
<1>0. jobs \in [Job -> Jobs] /\ Account
  BY DEF IInv, TypeOK
<1>e. JobKept(NoJob)
  BY JobsAre DEF JobKept, NoJob
<1>1. CASE jobs' = jobs
  BY <1>0, <1>1 DEF Account
<1>2. ASSUME NEW j \in Job, Scan(j) PROVE jobs' \in [Job -> Jobs] /\ Account'
  <2> DEFINE r == [kind |-> "scan", asked |-> ticked, ended |-> FALSE]
  <2>1. r \in ScanJobs /\ r.kind # "clean"
    BY DEF ScanJobs, IInv, TypeOK
  <2>2. JobKept(r)
    BY <2>1, JobsAre DEF JobKept
  <2>3. jobs' = [jobs EXCEPT ![j] = r]
    BY <1>2 DEF Scan
  <2> HIDE DEF r
  <2> QED
    BY <2>2, <2>3, JobStep
<1>3. ASSUME NEW j \in Job, Scanned(j) PROVE jobs' \in [Job -> Jobs] /\ Account'
  <2> DEFINE r == [jobs[j] EXCEPT !.ended = TRUE]
  <2>1. jobs[j] \in ScanJobs
    BY <1>0, <1>3, KindOfScan DEF Scanned
  <2>2. r \in ScanJobs /\ r.kind # "clean"
    BY <2>1 DEF ScanJobs
  <2>3. JobKept(r)
    BY <2>2, JobsAre DEF JobKept
  <2>4. jobs' = [jobs EXCEPT ![j] = r]
    BY <1>3 DEF Scanned
  <2> HIDE DEF r
  <2> QED
    BY <2>3, <2>4, JobStep
<1>4. ASSUME NEW j \in Job, ScanAnswers(j) \/ CleanAnswers(j) PROVE jobs' \in [Job -> Jobs] /\ Account'
  <2>1. jobs' = [jobs EXCEPT ![j] = NoJob]
    BY <1>4 DEF ScanAnswers, CleanAnswers
  <2> QED
    BY <2>1, <1>e, JobStep
<1>5. ASSUME NEW j \in Job, CleanNow(j) PROVE jobs' \in [Job -> Jobs] /\ Account'
  <2>1. box.asked \in SUBSET Category
    BY DEF IInv, TypeOK
  <2>2. PICK net \in BOOLEAN : jobs' = [jobs EXCEPT ![j] =
            [kind |-> "clean", asked |-> box.asked, net |-> net, point |-> "unmade",
             todo |-> box.asked, done |-> {}, left |-> {}, failed |-> {}]]
    BY <1>5 DEF CleanNow
  <2> DEFINE r == [kind |-> "clean", asked |-> box.asked, net |-> net, point |-> "unmade",
                   todo |-> box.asked, done |-> {}, left |-> {}, failed |-> {}]
  <2>3. r \in CleanJobs /\ Sound(r)
    BY <2>1, StartSound
  <2>4. JobKept(r)
    BY <2>3, JobsAre DEF JobKept
  <2>5. jobs' = [jobs EXCEPT ![j] = r]
    BY <2>2
  <2> HIDE DEF r
  <2> QED
    BY <2>4, <2>5, JobStep
<1>6. ASSUME NEW j \in Job, MakePoint(j) PROVE jobs' \in [Job -> Jobs] /\ Account'
  <2>1. jobs[j] \in CleanJobs /\ Sound(jobs[j]) /\ jobs[j].net /\ jobs[j].point = "unmade"
    BY <1>0, <1>6, KindOfClean DEF MakePoint, Account
  <2>2. CASE jobs' = [jobs EXCEPT ![j].point = "made"]
    <3> DEFINE r == [jobs[j] EXCEPT !.point = "made"]
    <3>1. r \in CleanJobs /\ Sound(r)
      BY <2>1, MadeSound
    <3>2. JobKept(r)
      BY <3>1, JobsAre DEF JobKept
    <3>3. jobs' = [jobs EXCEPT ![j] = r]
      BY <2>2
    <3> HIDE DEF r
    <3> QED
      BY <3>2, <3>3, JobStep
  <2>3. CASE jobs' = [jobs EXCEPT ![j].point = "failed", ![j].todo = {}]
    <3> DEFINE r == [jobs[j] EXCEPT !.point = "failed", !.todo = {}]
    <3>1. r \in CleanJobs /\ Sound(r)
      BY <2>1, FailedSound
    <3>2. JobKept(r)
      BY <3>1, JobsAre DEF JobKept
    <3>3. jobs' = [jobs EXCEPT ![j] = r]
      BY <2>3, <1>0
    <3> HIDE DEF r
    <3> QED
      BY <3>2, <3>3, JobStep
  <2> QED
    BY <1>6, <2>2, <2>3 DEF MakePoint, TodoAfterFailure
<1>7. ASSUME NEW j \in Job, CleanCategory(j) PROVE jobs' \in [Job -> Jobs] /\ Account'
  <2>1. jobs[j] \in CleanJobs /\ Sound(jobs[j]) /\ (jobs[j].net => jobs[j].point # "unmade")
    BY <1>0, <1>7, KindOfClean DEF CleanCategory, Account
  <2>2. PICK c \in jobs[j].todo :
            \/ jobs' = [jobs EXCEPT ![j].todo = @ \ {c}, ![j].done = @ \cup {c}]
            \/ /\ c \in UserFiles
               /\ jobs' = [jobs EXCEPT ![j].todo = @ \ {c}, ![j].left = @ \cup {c}]
            \/ jobs' = [jobs EXCEPT ![j].todo = @ \ {c}, ![j].failed = @ \cup {c}]
    BY <1>7 DEF CleanCategory, Left
  <2>3. CASE jobs' = [jobs EXCEPT ![j].todo = @ \ {c}, ![j].done = @ \cup {c}]
    <3> DEFINE r == [jobs[j] EXCEPT !.todo = @ \ {c}, !.done = @ \cup {c}]
    <3>1. r \in CleanJobs /\ Sound(r)
      BY <2>1, DoneSound
    <3>2. JobKept(r)
      BY <3>1, JobsAre DEF JobKept
    <3>3. jobs' = [jobs EXCEPT ![j] = r]
      BY <2>3, <1>0
    <3> HIDE DEF r
    <3> QED
      BY <3>2, <3>3, JobStep
  <2>4. CASE jobs' = [jobs EXCEPT ![j].todo = @ \ {c}, ![j].failed = @ \cup {c}]
    <3> DEFINE r == [jobs[j] EXCEPT !.todo = @ \ {c}, !.failed = @ \cup {c}]
    <3>1. r \in CleanJobs /\ Sound(r)
      BY <2>1, CouldNotSound
    <3>2. JobKept(r)
      BY <3>1, JobsAre DEF JobKept
    <3>3. jobs' = [jobs EXCEPT ![j] = r]
      BY <2>4, <1>0
    <3> HIDE DEF r
    <3> QED
      BY <3>2, <3>3, JobStep
  <2>5. CASE /\ c \in UserFiles
             /\ jobs' = [jobs EXCEPT ![j].todo = @ \ {c}, ![j].left = @ \cup {c}]
    <3> DEFINE r == [jobs[j] EXCEPT !.todo = @ \ {c}, !.left = @ \cup {c}]
    <3>1. r \in CleanJobs /\ Sound(r)
      BY <2>1, <2>5, LeftSound
    <3>2. JobKept(r)
      BY <3>1, JobsAre DEF JobKept
    <3>3. jobs' = [jobs EXCEPT ![j] = r]
      BY <2>5, <1>0
    <3> HIDE DEF r
    <3> QED
      BY <3>2, <3>3, JobStep
  <2> QED
    BY <2>2, <2>3, <2>4, <2>5
<1> QED
  BY <1>1, <1>2, <1>3, <1>4, <1>5, <1>6, <1>7
  DEF Next, vars, Tick, AskClean, Cancel, DeletePoint, ChooseEngine

\* The other variables: cards, buttons, the question and the engine.
LEMMA NextScalars ==
    IInv /\ [Next]_vars /\ jobs' \in [Job -> Jobs] => TypeOK'
<1> SUFFICES ASSUME IInv, [Next]_vars, jobs' \in [Job -> Jobs] PROVE TypeOK'
  OBVIOUS
<1>0. TypeOK /\ (\A a : Backend(a) \in Engine) /\ Backend(active)' \in Engine
  BY CategoriesAssumption DEF IInv, Backend
<1> USE <1>0 DEF TypeOK, cardVars, buttonVars
<1>1. CASE Tick
  BY <1>1 DEF Tick, RefreshSelectionUi
<1>2. CASE AskClean
  BY <1>2 DEF AskClean
<1>3. CASE Cancel
  BY <1>3 DEF Cancel, NoBox
<1>4. CASE DeletePoint
  BY <1>4 DEF DeletePoint
<1>5. ASSUME NEW e \in Engine, ChooseEngine(e) PROVE TypeOK'
  BY <1>5 DEF ChooseEngine
<1>6. ASSUME NEW j \in Job, Scan(j) PROVE TypeOK'
  BY <1>6 DEF Scan
<1>7. ASSUME NEW j \in Job, Scanned(j) PROVE TypeOK'
  BY <1>7 DEF Scanned
<1>8. ASSUME NEW j \in Job, ScanAnswers(j) PROVE TypeOK'
  <2>1. jobs[j].asked \subseteq Category
    <3>1. jobs[j] \in Jobs /\ jobs[j].kind = "scan"
      BY <1>8 DEF ScanAnswers
    <3>2. jobs[j] \in ScanJobs
      BY <3>1, KindOfScan
    <3> QED
      BY <3>2 DEF ScanJobs
  <2> QED
    BY <1>8, <2>1 DEF ScanAnswers, RefreshSelectionUi
<1>9. ASSUME NEW j \in Job, CleanNow(j) PROVE TypeOK'
  BY <1>9 DEF CleanNow, NoBox
<1>10. ASSUME NEW j \in Job, MakePoint(j) PROVE TypeOK'
  BY <1>10 DEF MakePoint
<1>11. ASSUME NEW j \in Job, CleanCategory(j) PROVE TypeOK'
  BY <1>11 DEF CleanCategory
<1>12. ASSUME NEW j \in Job, CleanAnswers(j) PROVE TypeOK'
  BY <1>12 DEF CleanAnswers, RefreshSelectionUi
<1>13. CASE UNCHANGED vars
  BY <1>13 DEF vars
<1> QED
  BY <1>1, <1>2, <1>3, <1>4, <1>5, <1>6, <1>7, <1>8, <1>9, <1>10, <1>11, <1>12, <1>13 DEF Next

\* The inductive invariant holds in every reachable state.
THEOREM Invariance == Spec => []IInv
<1>1. IInv /\ [Next]_vars => IInv'
  BY NextJobs, NextScalars DEF IInv
<1> QED
  BY <1>1, InitIInv, PTL DEF Spec

-----------------------------------------------------------------------------
(* Theorems *)

\* Every variable and every job keeps its type, and there is always an engine
\* to ask.
THEOREM TypeCorrect == Spec => []TypeOK
BY Invariance, PTL DEF IInv

\* A cleaning touches only what its question listed, and nothing before the
\* restore point that was asked for is made.
THEOREM CleansConfirmed == Spec => []CleansAsConfirmed
<1>1. IInv => CleansAsConfirmed
  BY DEF IInv, Account, Sound, CleansAsConfirmed, OnlyWhatWasListed, NothingBeforeItsNet, Gone
<1> QED
  BY <1>1, Invariance, PTL

\* "Nothing was cleaned" is said only of a job that touched nothing, "complete"
\* only of one that cleaned all it was asked, or left some of the user's files.
THEOREM StatusTells == Spec => TellsOfCommands
<1> DEFINE Said(j) == jobs[j].kind = "clean" /\ jobs'[j] = NoJob =>
                         /\ status' = "nothing cleaned" => Gone(j) = {}
                         /\ status' = "complete" => jobs[j].asked \ jobs[j].done \subseteq UserFiles
<1>1. IInv /\ [Next]_vars => \A j \in Job : Said(j)
  <2> SUFFICES ASSUME IInv, [Next]_vars, NEW j \in Job,
                      jobs[j].kind = "clean", jobs'[j] = NoJob
               PROVE  /\ status' = "nothing cleaned" => Gone(j) = {}
                      /\ status' = "complete" => jobs[j].asked \ jobs[j].done \subseteq UserFiles
    OBVIOUS
  <2>1. jobs \in [Job -> Jobs] /\ jobs[j] \in CleanJobs /\ Sound(jobs[j]) /\ NoJob.kind = "none"
    BY KindOfClean DEF IInv, TypeOK, Account, NoJob
  <2>2. CASE CleanAnswers(j)
    <3>1. jobs[j].todo = {}
      BY <2>2 DEF CleanAnswers
    <3>2. CASE Aborted(j)
      <4>1. status' = "nothing cleaned"
        BY <2>2, <3>2 DEF CleanAnswers
      <4>2. Gone(j) = {}
        BY <2>1, <3>2 DEF Aborted, Sound, Gone
      <4> QED
        BY <4>1, <4>2
    <3>3. CASE ~Aborted(j)
      <4>1. status' = IF jobs[j].failed = {} THEN "complete" ELSE "failures"
        BY <2>2, <3>3 DEF CleanAnswers
      <4>2. jobs[j].point # "failed"
        BY <2>1, <3>3 DEF Aborted, Sound
      <4>3. jobs[j].failed = {} => jobs[j].asked \ jobs[j].done \subseteq UserFiles
        BY <2>1, <3>1, <4>2 DEF Sound, CleanJobs
      <4> QED
        BY <4>1, <4>3
    <3> QED
      BY <3>2, <3>3
  <2>3. ASSUME NEW k \in Job, Scan(k) \/ Scanned(k) \/ ScanAnswers(k) PROVE FALSE
    BY <2>1, <2>3 DEF Scan, Scanned, ScanAnswers, NoJob
  <2>4. ASSUME NEW k \in Job, CleanNow(k) PROVE FALSE
    BY <2>1, <2>4 DEF CleanNow, NoJob
  <2>5. ASSUME NEW k \in Job, MakePoint(k) \/ CleanCategory(k) PROVE FALSE
    <3>1. CASE MakePoint(k)
      <4>1. \/ jobs' = [jobs EXCEPT ![k].point = "made"]
            \/ jobs' = [jobs EXCEPT ![k].point = "failed", ![k].todo = TodoAfterFailure(k)]
        BY <3>1 DEF MakePoint
      <4> QED
        BY <2>1, <4>1 DEF CleanJobs
    <3>2. CASE CleanCategory(k)
      <4>1. \E c : \/ jobs' = [jobs EXCEPT ![k].todo = @ \ {c}, ![k].done = @ \cup {c}]
                   \/ jobs' = [jobs EXCEPT ![k].todo = @ \ {c}, ![k].left = @ \cup {c}]
                   \/ jobs' = [jobs EXCEPT ![k].todo = @ \ {c}, ![k].failed = @ \cup {c}]
        BY <3>2 DEF CleanCategory
      <4> QED
        BY <2>1, <4>1 DEF CleanJobs
    <3> QED
      BY <2>5, <3>1, <3>2
  <2>6. ASSUME NEW k \in Job, CleanAnswers(k), k # j PROVE FALSE
    BY <2>1, <2>6 DEF CleanAnswers
  <2> QED
    BY <2>1, <2>2, <2>3, <2>4, <2>5, <2>6
    DEF Next, vars, Tick, AskClean, Cancel, DeletePoint, ChooseEngine
<1> QED
  BY <1>1, Invariance, PTL DEF Spec, TellsOfCommands
=============================================================================
