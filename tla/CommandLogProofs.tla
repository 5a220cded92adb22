--------------------------- MODULE CommandLogProofs ---------------------------
(***************************************************************************)
(* Theorems about the log window, for batches of any length.  IInv is the  *)
(* inductive invariant: how the state of the command, the flags of the     *)
(* batch, the outcomes of its steps and what the page was told hang        *)
(* together.                                                               *)
(***************************************************************************)
EXTENDS CommandLog, WellFoundedInduction, TLAPS

-----------------------------------------------------------------------------
(* The inductive invariant *)

Busy == proc \in {"starting", "running"}
Good == {"ok", "skipped"}

\* A command is alive only in a running batch whose window is still there.
CommandInBatch == Busy => running /\ dlg # "none"

\* The page has heard nothing of a batch that runs.
SilentWhileRunning == running => told = <<>>

\* Before the step at hand everything went well; after it, nothing has begun.
InOrder ==
    running => /\ idx \in 1 .. Len(steps)
               /\ \A j \in 1 .. idx - 1 : outcome[j] \in Good
               /\ \A j \in idx + 1 .. Len(steps) :
                    outcome[j] = IF steps[j] = "skip" THEN "skipped" ELSE "waiting"

\* A step that ever started came after steps that went well.
StartedInOrder ==
    \A j \in 1 .. Len(steps) :
        outcome[j] = "running" => \A k \in 1 .. j - 1 : outcome[k] \in Good

\* A command that outlives Stop is root's or has its SIGKILL.
StopHolds == cancelled /\ Busy => proc = "running" /\ (root \/ killed)

IInv ==
    /\ TypeOK /\ CommandInBatch /\ SilentWhileRunning /\ InOrder /\ StartedInOrder
    /\ StopHolds /\ ToldTruly

-----------------------------------------------------------------------------
(* The next step to run *)

\* Every set of naturals with an element has a least one.
LEMMA HasLeast ==
    ASSUME NEW S \in SUBSET Nat, S # {}
    PROVE  \E x \in S : \A y \in S : x <= y
  <1> DEFINE R == {ss \in Nat \X Nat : ss[1] < ss[2]}
  <1>1. IsWellFoundedOn(R, Nat)
    BY NatLessThanWellFounded DEF OpToRel
  <1>2. \A x, y \in Nat : y < x => <<y, x>> \in R
    OBVIOUS
  <1> HIDE DEF R
  <1>3. PICK x \in S : \A y \in S : ~ (<<y, x>> \in R)
    BY <1>1, WFMin
  <1>4. ASSUME NEW y \in S PROVE x <= y
    <2>1. x \in Nat /\ y \in Nat
      OBVIOUS
    <2>2. ~ (y < x)
      BY <1>2, <1>3, <2>1, Zenon
    <2> QED
      BY <2>1, <2>2
  <1> QED
    BY <1>4

\* A batch is a sequence of at least one step.
LEMMA BatchShape ==
    ASSUME NEW s \in Batch \cup {<<>>}
    PROVE  /\ Len(s) \in Nat /\ s \in [1 .. Len(s) -> StepKind]
           /\ s \in Batch => Len(s) >= 1
  <1>1. CASE s \in Batch
    <2>1. PICK n \in 1 .. MaxSteps : s \in [1 .. n -> StepKind]
      BY <1>1 DEF Batch
    <2>2. n \in Nat /\ n >= 1
      BY MaxStepsAssumption
    <2>3. s \in Seq(StepKind) /\ Len(s) = n
      BY <2>1, <2>2
    <2> QED
      BY <2>1, <2>2, <2>3
  <1>2. CASE s = <<>>
    <2>1. Len(s) = 0 /\ s \in [1 .. 0 -> StepKind]
      BY <1>2
    <2>2. s \notin Batch
      <3>1. SUFFICES ASSUME s \in Batch PROVE FALSE
        OBVIOUS
      <3>2. PICK n \in 1 .. MaxSteps : s \in [1 .. n -> StepKind]
        BY <3>1 DEF Batch
      <3>3. n \in Nat /\ n >= 1 /\ DOMAIN s = 1 .. n /\ DOMAIN s = {}
        BY <1>2, <3>2, MaxStepsAssumption
      <3> QED
        BY <3>3
    <2> QED
      BY <2>1, <2>2
  <1> QED
    BY <1>1, <1>2

\* startNext() passes over steps with nothing to run, and over no other.
LEMMA NextStepSkips ==
    ASSUME NEW s, Len(s) \in Nat, NEW i \in 1 .. Len(s) + 1
    PROVE  /\ NextStep(s, i) \in i .. Len(s) + 1
           /\ \A j \in i .. NextStep(s, i) - 1 : s[j] = "skip"
  <1> DEFINE S == {j \in i .. Len(s) : s[j] # "skip"} \cup {Len(s) + 1}
  <1>1. S \in SUBSET (i .. Len(s) + 1) /\ S \in SUBSET Nat /\ S # {}
    OBVIOUS
  <1>2. \E x \in S : \A y \in S : x <= y
    BY <1>1, HasLeast
  <1>3. NextStep(s, i) = CHOOSE x \in S : \A y \in S : x <= y
    BY DEF NextStep, Min
  <1>4. NextStep(s, i) \in S /\ \A y \in S : NextStep(s, i) <= y
    BY <1>2, <1>3
  <1>5. ASSUME NEW j \in i .. NextStep(s, i) - 1
        PROVE  s[j] = "skip"
    <2>1. NextStep(s, i) \in Nat /\ NextStep(s, i) <= Len(s) + 1
      BY <1>1, <1>4
    <2>2. j \in i .. Len(s) /\ ~ (NextStep(s, i) <= j)
      BY <2>1
    <2>3. j \notin S
      BY <1>4, <2>2
    <2> QED
      BY <2>2, <2>3
  <1> QED
    BY <1>1, <1>4, <1>5

-----------------------------------------------------------------------------
(* startNext() and the slot of finished() *)

Outcome == {"skipped", "waiting", "running", "ok", "failed"}

\* What the page may have heard: nothing, or one answer.
LEMMA Told ==
    /\ <<>> \in Seq(BOOLEAN) /\ Len(<<>>) <= 1 /\ <<>> # <<TRUE>>
    /\ \A b \in BOOLEAN : /\ <<b>> \in Seq(BOOLEAN) /\ Len(<<b>>) <= 1
                           /\ <<b>> # <<>> /\ (<<b>> = <<TRUE>> => b)
  <1>1. <<>> \in Seq(BOOLEAN) /\ Len(<<>>) <= 1
    OBVIOUS
  <1>2. Len(<<TRUE>>) = 1
    OBVIOUS
  <1>3. <<>> # <<TRUE>>
    BY <1>2
  <1>4. ASSUME NEW b \in BOOLEAN
        PROVE  <<b>> \in Seq(BOOLEAN) /\ Len(<<b>>) <= 1 /\ <<b>> # <<>>
    OBVIOUS
  <1>5. ASSUME NEW b \in BOOLEAN, <<b>> = <<TRUE>>
        PROVE  b
    <2>1. <<b>>[1] = <<TRUE>>[1]
      BY <1>5
    <2> QED
      BY <2>1
  <1> QED
    BY <1>1, <1>3, <1>4, <1>5, Zenon

\* startNext() at some step, with everything before it done and nothing after it
\* begun, in a batch nobody cancelled.
Ahead(s, i, done) ==
    /\ s \in Batch \cup {<<>>} /\ i \in 1 .. Len(s) + 1
    /\ done \in [1 .. Len(s) -> Outcome]
    /\ \A j \in 1 .. i - 1 : done[j] \in Good
    /\ \A j \in i .. Len(s) : done[j] = IF s[j] = "skip" THEN "skipped" ELSE "waiting"

Starts ==
    /\ \E s, i, done : /\ Ahead(s, i, done) /\ steps' = s
                       /\ StartNext(s, i, allOk', done, <<>>)
    /\ cancelled' = FALSE /\ allOk' \in BOOLEAN
    /\ dlg' \in {"open", "doomed"} /\ stray' \in BOOLEAN

LEMMA StartsStep ==
    ASSUME Starts
    PROVE  IInv'
  <1>1. PICK s, i, done : /\ Ahead(s, i, done) /\ steps' = s
                          /\ StartNext(s, i, allOk', done, <<>>)
    BY DEF Starts
  <1> DEFINE n == NextStep(s, i)
  <1>2. /\ s \in Batch \cup {<<>>} /\ i \in 1 .. Len(s) + 1
        /\ done \in [1 .. Len(s) -> Outcome]
        /\ \A j \in 1 .. i - 1 : done[j] \in Good
        /\ \A j \in i .. Len(s) : done[j] = IF s[j] = "skip" THEN "skipped" ELSE "waiting"
    BY <1>1 DEF Ahead
  <1>3. Len(s) \in Nat
    BY <1>2, BatchShape
  <1>4. n \in i .. Len(s) + 1 /\ \A j \in i .. n - 1 : s[j] = "skip"
    BY <1>2, <1>3, NextStepSkips
  <1>5. idx' = n /\ root' = FALSE /\ killed' = FALSE
    BY <1>1 DEF StartNext
  <1>6. \A j \in 1 .. n - 1 : j \in 1 .. Len(s) /\ done[j] \in Good
    BY <1>2, <1>3, <1>4 DEF Good
  <1>7. \A j \in 1 .. Len(s) : done[j] # "running"
    BY <1>2, <1>3 DEF Good
  <1>8. /\ cancelled' = FALSE /\ allOk' \in BOOLEAN
        /\ dlg' \in {"open", "doomed"} /\ stray' \in BOOLEAN
    BY DEF Starts
  <1> HIDE DEF n
  <1>9. CASE n > Len(s)
    <2>1. running' = FALSE /\ told' = <<allOk'>> /\ proc' = "none" /\ outcome' = done
      BY <1>1, <1>5, <1>9 DEF StartNext, FinishAll
    <2>2. \A j \in 1 .. Len(s) : done[j] \in Good
      BY <1>2, <1>3, <1>4, <1>6, <1>9
    <2>3. TypeOK'
      <3>1. steps' \in Batch \cup {<<>>} /\ idx' \in 1 .. Len(steps') + 1
        BY <1>1, <1>2, <1>3, <1>4, <1>5
      <3>2. outcome' \in [1 .. Len(steps') -> Outcome] /\ told' \in Seq(BOOLEAN)
        BY <1>1, <1>2, <1>8, <2>1, Told
      <3> QED
        BY <1>5, <1>8, <2>1, <3>1, <3>2 DEF TypeOK, Outcome
    <2>4. ToldTruly'
      <3>1. \A j \in DOMAIN outcome' : outcome'[j] \in {"ok", "skipped"}
        BY <1>2, <2>1, <2>2 DEF Good
      <3> QED
        BY <1>8, <2>1, <3>1, Told DEF ToldTruly
    <2>5. (CommandInBatch /\ SilentWhileRunning /\ InOrder /\ StopHolds)'
      BY <2>1 DEF CommandInBatch, SilentWhileRunning, InOrder, StopHolds, Busy
    <2>6. StartedInOrder'
      BY <1>1, <1>7, <2>1 DEF StartedInOrder
    <2> QED
      BY <2>3, <2>4, <2>5, <2>6 DEF IInv
  <1>10. CASE ~ (n > Len(s))
    <2>1. /\ running' = TRUE /\ told' = <<>> /\ proc' = "starting"
          /\ outcome' = [done EXCEPT ![n] = "running"]
      BY <1>1, <1>5, <1>10 DEF StartNext
    <2>2. n \in 1 .. Len(s) /\ i <= n
      BY <1>2, <1>3, <1>4, <1>10
    <2>3. outcome' \in [1 .. Len(s) -> Outcome]
      BY <1>2, <2>1 DEF Outcome
    <2>4. \A j \in 1 .. Len(s) : outcome'[j] = IF j = n THEN "running" ELSE done[j]
      BY <1>2, <2>1, <2>2
    <2>5. TypeOK'
      <3>1. steps' \in Batch \cup {<<>>} /\ idx' \in 1 .. Len(steps') + 1
        BY <1>1, <1>2, <1>3, <1>4, <1>5
      <3>2. outcome' \in [1 .. Len(steps') -> Outcome] /\ told' \in Seq(BOOLEAN)
        BY <1>1, <2>1, <2>3, Told
      <3> QED
        BY <1>5, <1>8, <2>1, <3>1, <3>2 DEF TypeOK, Outcome
    <2>6. \A j \in 1 .. n - 1 : outcome'[j] \in Good
      BY <1>3, <1>6, <2>2, <2>4
    <2>7. \A j \in n + 1 .. Len(s) :
            outcome'[j] = IF s[j] = "skip" THEN "skipped" ELSE "waiting"
      BY <1>2, <1>3, <2>2, <2>4
    <2>8. InOrder'
      BY <1>1, <1>5, <2>2, <2>6, <2>7 DEF InOrder
    <2>9. StartedInOrder'
      BY <1>1, <1>7, <2>4, <2>6 DEF StartedInOrder
    <2>10. (CommandInBatch /\ SilentWhileRunning /\ StopHolds)'
      BY <1>8, <2>1 DEF CommandInBatch, SilentWhileRunning, StopHolds, Busy
    <2>11. ToldTruly'
      BY <2>1, Told DEF ToldTruly
    <2> QED
      BY <2>5, <2>8, <2>9, <2>10, <2>11 DEF IInv
  <1> QED
    BY <1>3, <1>4, <1>9, <1>10

\* The slot of finished(), for a command that was alive.
Finishes ==
    /\ \E ok, stopped \in BOOLEAN : Finished(ok, stopped) /\ cancelled' = stopped
    /\ steps' = steps /\ dlg' \in {"open", "doomed"} /\ stray' = stray

\* IInv holds after it, and it starts a step only if nobody pressed Stop.
LEMMA FinishedStep ==
    ASSUME IInv, Busy, Finishes
    PROVE  /\ IInv'
           /\ \A j \in 1 .. Len(steps) :
                outcome'[j] = "running" /\ outcome[j] # "running" => ~cancelled'
  <1>1. PICK ok \in BOOLEAN, stopped \in BOOLEAN :
               Finished(ok, stopped) /\ cancelled' = stopped
    BY DEF Finishes
  <1>2. /\ Len(steps) \in Nat /\ idx \in 1 .. Len(steps) /\ told = <<>>
        /\ allOk' \in BOOLEAN /\ stray' \in BOOLEAN /\ steps \in Batch \cup {<<>>}
    BY <1>1, BatchShape DEF IInv, TypeOK, CommandInBatch, SilentWhileRunning, InOrder,
                            Finished, Finishes
  <1>3. outcome \in [1 .. Len(steps) -> Outcome]
    BY DEF IInv, TypeOK, Outcome
  <1>4. /\ Ended(ok) \in [1 .. Len(steps) -> Outcome]
        /\ \A j \in 1 .. Len(steps) :
             Ended(ok)[j] = IF j = idx THEN (IF ok THEN "ok" ELSE "failed") ELSE outcome[j]
    BY <1>2, <1>3 DEF Ended, Outcome
  <1>5. /\ \A j \in 1 .. idx - 1 : outcome[j] \in Good
        /\ \A j \in idx + 1 .. Len(steps) :
             outcome[j] = IF steps[j] = "skip" THEN "skipped" ELSE "waiting"
    BY DEF IInv, InOrder, CommandInBatch
  <1>6. steps' = steps /\ dlg' \in {"open", "doomed"} /\ stray' = stray
    BY DEF Finishes
  <1>7. CASE stopped \/ ~ok
    <2>1. /\ running' = FALSE /\ told' = <<FALSE>> /\ proc' = "none"
          /\ root' = FALSE /\ killed' = FALSE /\ idx' = idx /\ outcome' = Ended(ok)
      <3>1. /\ FinishAll(told, FALSE) /\ NoProcess
            /\ UNCHANGED idx /\ outcome' = Ended(ok)
        BY <1>1, <1>7, Zenon DEF Finished
      <3> QED
        BY <1>2, <3>1 DEF FinishAll, NoProcess
    <2>2. TypeOK'
      <3>1. steps' \in Batch \cup {<<>>} /\ idx' \in 1 .. Len(steps') + 1
        BY <1>2, <1>6, <2>1
      <3>2. outcome' \in [1 .. Len(steps') -> Outcome] /\ told' \in Seq(BOOLEAN)
        BY <1>4, <1>6, <2>1, Told
      <3> QED
        BY <1>1, <1>2, <1>6, <2>1, <3>1, <3>2 DEF TypeOK, Outcome
    <2>3. (CommandInBatch /\ SilentWhileRunning /\ InOrder /\ StopHolds /\ ToldTruly)'
      BY <2>1, Told DEF CommandInBatch, SilentWhileRunning, InOrder, StopHolds, ToldTruly, Busy
    <2>4. \A j \in 1 .. Len(steps) : outcome'[j] # "running"
      BY <1>2, <1>4, <1>5, <2>1 DEF Good
    <2>5. StartedInOrder'
      BY <1>6, <2>4 DEF StartedInOrder
    <2> QED
      BY <2>2, <2>3, <2>4, <2>5 DEF IInv
  <1>8. CASE ~ (stopped \/ ~ok)
    <2>1. StartNext(steps, idx + 1, allOk', Ended(ok), <<>>)
      BY <1>1, <1>2, <1>8 DEF Finished
    <2>2. Ahead(steps, idx + 1, Ended(ok))
      <3>1. \A j \in 1 .. idx : Ended(ok)[j] \in Good
        BY <1>2, <1>4, <1>5, <1>8 DEF Good
      <3>2. \A j \in idx + 1 .. Len(steps) :
              Ended(ok)[j] = IF steps[j] = "skip" THEN "skipped" ELSE "waiting"
        BY <1>2, <1>4, <1>5
      <3>3. idx + 1 \in 1 .. Len(steps) + 1 /\ (idx + 1) - 1 = idx
        BY <1>2
      <3> QED
        BY <1>2, <1>4, <3>1, <3>2, <3>3 DEF Ahead
    <2>3. Starts
      <3>1. \E s, i, done : /\ Ahead(s, i, done) /\ steps' = s
                            /\ StartNext(s, i, allOk', done, <<>>)
        BY <1>6, <2>1, <2>2 DEF StartNext, Ahead
      <3> QED
        BY <1>1, <1>2, <1>6, <1>8, <3>1 DEF Starts
    <2> QED
      BY <1>1, <1>8, <2>3, StartsStep
  <1> QED
    BY <1>7, <1>8

-----------------------------------------------------------------------------
(* Every step *)

\* What IInv says while a command is alive.
LEMMA AliveFacts ==
    ASSUME IInv, Busy
    PROVE  /\ running /\ dlg # "none" /\ told = <<>>
           /\ Len(steps) \in Nat /\ idx \in 1 .. Len(steps)
           /\ outcome \in [1 .. Len(steps) -> Outcome]
           /\ \A j \in 1 .. idx - 1 : outcome[j] \in Good
           /\ \A j \in idx + 1 .. Len(steps) : outcome[j] \in {"skipped", "waiting"}
  BY BatchShape DEF IInv, TypeOK, CommandInBatch, SilentWhileRunning, InOrder, Outcome

\* A step that ends one way or another, with its batch or without.
LEMMA EndedFacts ==
    ASSUME IInv, Busy, NEW r \in {"ok", "failed"}
    PROVE  /\ [outcome EXCEPT ![idx] = r] \in [1 .. Len(steps) -> Outcome]
           /\ \A j \in 1 .. Len(steps) : [outcome EXCEPT ![idx] = r][j] # "running"
           /\ \A j \in 1 .. Len(steps) :
                j # idx => [outcome EXCEPT ![idx] = r][j] = outcome[j]
  <1>1. outcome \in [1 .. Len(steps) -> Outcome] /\ idx \in 1 .. Len(steps) /\ Len(steps) \in Nat
    BY AliveFacts
  <1>2. \A j \in 1 .. Len(steps) : j # idx => outcome[j] # "running"
    BY AliveFacts, <1>1 DEF Good
  <1> QED
    BY <1>1, <1>2 DEF Outcome

\* The command fails to start, the window staying as it is.
LEMMA DeadStep ==
    ASSUME IInv, Busy, proc' = "dead", outcome' = [outcome EXCEPT ![idx] = "failed"],
           UNCHANGED <<steps, idx, running, allOk, root, killed, dlg, stray, told>>,
           cancelled' \in BOOLEAN
    PROVE  IInv' /\ \A j \in 1 .. Len(steps) : outcome'[j] # "running"
  <1>1. /\ outcome' \in [1 .. Len(steps) -> Outcome]
        /\ \A j \in 1 .. Len(steps) : outcome'[j] # "running"
        /\ \A j \in 1 .. Len(steps) : j # idx => outcome'[j] = outcome[j]
    BY EndedFacts
  <1>2. TypeOK'
    BY <1>1 DEF IInv, TypeOK, Outcome
  <1>3. InOrder'
    BY <1>1, AliveFacts DEF IInv, InOrder
  <1>4. (CommandInBatch /\ SilentWhileRunning /\ StopHolds)'
    BY DEF IInv, CommandInBatch, SilentWhileRunning, StopHolds, Busy
  <1>5. ToldTruly'
    BY AliveFacts, Told DEF ToldTruly
  <1>6. StartedInOrder'
    BY <1>1 DEF StartedInOrder
  <1> QED
    BY <1>1, <1>2, <1>3, <1>4, <1>5, <1>6 DEF IInv

\* runCommands() opens a window and starts the batch's first step.
LEMMA OpenStep ==
    ASSUME IInv, Open
    PROVE  IInv' /\ ~cancelled'
  <1> DEFINE d == [i \in 1 .. Len(steps') |-> IF steps'[i] = "skip" THEN "skipped" ELSE "waiting"]
  <1>1. /\ steps' \in Batch /\ dlg' = "open" /\ cancelled' = FALSE /\ allOk' = TRUE
        /\ stray' \in BOOLEAN
    BY DEF Open, IInv, TypeOK
  <1>2. StartNext(steps', 1, allOk', d, <<>>)
    BY <1>1 DEF Open, StartNext
  <1>3. Len(steps') \in Nat /\ Len(steps') >= 1
    BY <1>1, BatchShape
  <1>4. Ahead(steps', 1, d)
    BY <1>1, <1>3 DEF Ahead, Outcome
  <1> HIDE DEF d
  <1>5. \E s, i, done : /\ Ahead(s, i, done) /\ steps' = s
                        /\ StartNext(s, i, allOk', done, <<>>)
    BY <1>2, <1>4 DEF StartNext, Ahead
  <1>6. Starts
    BY <1>1, <1>5 DEF Starts
  <1> QED
    BY <1>1, <1>6, StartsStep

\* Stop, as far as it signals the command.
LEMMA StopStep ==
    ASSUME IInv, Stop
    PROVE  /\ IInv'
           /\ \A j \in 1 .. Len(steps) : outcome'[j] = "running" => outcome[j] = "running"
           /\ root' => root
  <1>1. /\ dlg = "open" /\ running /\ ~cancelled /\ cancelled' = TRUE
        /\ UNCHANGED <<steps, dlg, stray>>
    BY DEF Stop
  <1>2. CASE Busy /\ \E ok \in BOOLEAN : Finished(ok, TRUE)
    <2>1. Finishes
      BY <1>1, <1>2 DEF Finishes, Finished
    <2>2. root' => root
      BY <1>2 DEF Finished, NoProcess
    <2> QED
      BY <1>1, <1>2, <2>1, <2>2, FinishedStep
  <1>3. CASE Busy /\ Kill
    <2>1. TypeOK'
      BY <1>1, <1>3 DEF IInv, TypeOK, Kill
    <2>2. (CommandInBatch /\ SilentWhileRunning /\ StopHolds)'
      BY <1>1, <1>3 DEF IInv, TypeOK, CommandInBatch, SilentWhileRunning, StopHolds, Busy, Kill
    <2>3. (InOrder /\ StartedInOrder)'
      BY <1>1, <1>3 DEF IInv, InOrder, StartedInOrder, Kill
    <2>4. ToldTruly'
      BY <1>1, <1>3, Told, AliveFacts DEF ToldTruly, Kill
    <2> QED
      BY <1>3, <2>1, <2>2, <2>3, <2>4 DEF IInv, Kill
  <1>4. CASE /\ proc = "starting" /\ proc' = "dead"
             /\ outcome' = [outcome EXCEPT ![idx] = "failed"]
             /\ UNCHANGED <<idx, running, allOk, root, killed, told>>
    BY <1>1, <1>4, DeadStep DEF Busy
  <1>5. CASE /\ ~Busy /\ FinishAll(told, FALSE)
             /\ UNCHANGED <<idx, allOk, procVars, outcome>>
    <2>1. /\ running' = FALSE /\ told' = <<FALSE>>
          /\ UNCHANGED <<idx, allOk, proc, root, killed, outcome>>
      <3>1. told = <<>>
        BY <1>1 DEF IInv, SilentWhileRunning
      <3> QED
        BY <1>5, <3>1 DEF FinishAll, procVars
    <2>2. TypeOK'
      BY <1>1, <2>1, Told DEF IInv, TypeOK
    <2>3. (CommandInBatch /\ SilentWhileRunning /\ InOrder /\ StopHolds)'
      BY <1>5, <2>1 DEF CommandInBatch, SilentWhileRunning, InOrder, StopHolds, Busy
    <2>4. (StartedInOrder /\ ToldTruly)'
      BY <1>1, <2>1, Told DEF IInv, StartedInOrder, ToldTruly
    <2> QED
      BY <2>1, <2>2, <2>3, <2>4 DEF IInv
  <1> QED
    BY <1>2, <1>3, <1>4, <1>5, Zenon DEF Stop, StopCommand, Busy

\* The window is deleted over a running command.
LEMMA DeleteStep ==
    ASSUME IInv, NEW ok \in BOOLEAN, DeleteRunning(ok)
    PROVE  /\ IInv'
           /\ \A j \in 1 .. Len(steps) : outcome'[j] # "running"
           /\ ~root'
  <1>1. /\ Busy /\ dlg' = "none" /\ proc' = "none" /\ root' = FALSE /\ killed' = FALSE
        /\ UNCHANGED <<steps, cancelled, stray>>
    BY DEF DeleteRunning, Busy, NoProcess
  <1>2. /\ Ended(ok) \in [1 .. Len(steps) -> Outcome]
        /\ \A j \in 1 .. Len(steps) : Ended(ok)[j] # "running"
        /\ \A j \in 1 .. Len(steps) : j # idx => Ended(ok)[j] = outcome[j]
    BY <1>1, EndedFacts DEF Ended
  <1>3. (CommandInBatch /\ StopHolds)'
    BY <1>1 DEF CommandInBatch, StopHolds, Busy
  <1>4. CASE LastSlot(ok)
    <2> DEFINE n == NextStep(steps, idx + 1)
               goes == ok /\ ~cancelled
               more == goes /\ n <= Len(steps)
    <2>1. /\ told' = <<goes /\ ~more>> /\ running' = FALSE /\ allOk' = (ok /\ ~more)
          /\ idx' = (IF goes THEN n ELSE idx)
          /\ outcome' = IF more THEN [Ended(ok) EXCEPT ![n] = "failed"] ELSE Ended(ok)
      BY <1>1, <1>4, AliveFacts DEF LastSlot, FinishAll
    <2>2. /\ n \in idx + 1 .. Len(steps) + 1
          /\ \A j \in idx + 1 .. n - 1 : steps[j] = "skip"
      BY <1>1, AliveFacts, NextStepSkips
    <2> HIDE DEF n
    <2>3. outcome' \in [1 .. Len(steps) -> Outcome]
      BY <1>2, <2>1 DEF Outcome
    <2>4. \A j \in 1 .. Len(steps) : outcome'[j] # "running"
      BY <1>2, <2>1
    <2>5. goes \in BOOLEAN /\ more \in BOOLEAN /\ (goes /\ ~more) \in BOOLEAN
      OBVIOUS
    <2>6. TypeOK'
      <3>1. idx' \in 1 .. Len(steps) + 1
        BY <1>1, <2>1, <2>2, AliveFacts
      <3>2. told' \in Seq(BOOLEAN) /\ running' \in BOOLEAN /\ allOk' \in BOOLEAN
        BY <2>1, <2>5, Told
      <3> QED
        BY <1>1, <2>3, <3>1, <3>2 DEF IInv, TypeOK, Outcome
    <2>7. ToldTruly'
      <3>1. Len(told') <= 1 /\ (told' = <<TRUE>> => goes /\ ~more)
        BY <2>1, <2>5, Told
      <3>2. ASSUME goes, ~more PROVE \A j \in 1 .. Len(steps) : outcome'[j] \in Good
        <4>1. n = Len(steps) + 1 /\ outcome' = Ended(ok) /\ ok
          <5>1. Len(steps) \in Nat /\ idx \in 1 .. Len(steps) /\ ok
            BY <1>1, <3>2, AliveFacts
          <5>2. ~ (n <= Len(steps))
            BY <3>2
          <5>3. n = Len(steps) + 1
            BY <2>2, <5>1, <5>2
          <5> QED
            BY <2>1, <3>2, <5>1, <5>3
        <4>2. \A j \in idx + 1 .. Len(steps) : outcome[j] = "skipped"
          BY <1>1, <2>2, <4>1, AliveFacts DEF IInv, InOrder
        <4>3. Ended(ok)[idx] = "ok"
          BY <1>1, <4>1, AliveFacts DEF Ended
        <4>4. ASSUME NEW j \in 1 .. Len(steps) PROVE Ended(ok)[j] \in Good
          <5>1. Len(steps) \in Nat /\ idx \in 1 .. Len(steps)
            BY <1>1, AliveFacts
          <5>2. CASE j = idx
            BY <4>3, <5>2 DEF Good
          <5>3. CASE j # idx
            <6>1. Ended(ok)[j] = outcome[j]
              BY <1>2, <5>3
            <6>2. j \in 1 .. idx - 1 \/ j \in idx + 1 .. Len(steps)
              BY <5>1, <5>3
            <6> QED
              BY <1>1, <4>2, <6>1, <6>2, AliveFacts DEF Good
          <5> QED
            BY <5>2, <5>3
        <4> QED
          BY <4>1, <4>4
      <3> QED
        BY <1>1, <2>3, <3>1, <3>2 DEF ToldTruly, Good
    <2>8. (SilentWhileRunning /\ InOrder)'
      BY <2>1 DEF SilentWhileRunning, InOrder
    <2>9. StartedInOrder'
      BY <1>1, <2>4 DEF StartedInOrder
    <2> QED
      BY <1>1, <1>3, <2>4, <2>6, <2>7, <2>8, <2>9 DEF IInv
  <1>5. CASE outcome' = Ended(ok) /\ UNCHANGED <<idx, running, allOk, told>>
    <2>1. TypeOK'
      BY <1>1, <1>2, <1>5 DEF IInv, TypeOK, Outcome
    <2>2. (SilentWhileRunning /\ InOrder)'
      BY <1>1, <1>2, <1>5, AliveFacts DEF IInv, SilentWhileRunning, InOrder
    <2>3. StartedInOrder'
      BY <1>1, <1>2, <1>5 DEF StartedInOrder
    <2>4. ToldTruly'
      BY <1>1, <1>5, AliveFacts, Told DEF ToldTruly
    <2> QED
      BY <1>1, <1>2, <1>3, <1>5, <2>1, <2>2, <2>3, <2>4 DEF IInv
  <1> QED
    BY <1>4, <1>5 DEF DeleteRunning

LEMMA InitIInv == Init => IInv
  <1>1. SUFFICES ASSUME Init PROVE IInv
    OBVIOUS
  <1>2. steps = <<>> /\ outcome = <<>> /\ told = <<>> /\ Len(steps) = 0
    BY <1>1 DEF Init
  <1>3. TypeOK
    <2>1. outcome \in [1 .. Len(steps) -> Outcome]
      BY <1>2
    <2>2. steps \in Batch \cup {<<>>} /\ idx \in 1 .. Len(steps) + 1
      BY <1>1, <1>2 DEF Init
    <2>3. told \in Seq(BOOLEAN)
      BY <1>2, Told
    <2> QED
      BY <1>1, <2>1, <2>2, <2>3 DEF Init, TypeOK, Outcome
  <1>4. CommandInBatch /\ SilentWhileRunning /\ InOrder /\ StopHolds
    BY <1>1 DEF Init, CommandInBatch, SilentWhileRunning, InOrder, StopHolds, Busy
  <1>5. StartedInOrder
    BY <1>2 DEF StartedInOrder
  <1>6. ToldTruly
    BY <1>2, Told DEF ToldTruly
  <1> QED
    BY <1>3, <1>4, <1>5, <1>6 DEF IInv

\* Every step keeps IInv; one that starts a command of the batch at hand finds
\* Stop not pressed; and only an authorisation makes a command root's.
LEMMA NextStepKeeps ==
    ASSUME IInv, [Next]_vars
    PROVE  /\ IInv'
           /\ \A j \in 1 .. Len(steps') :
                outcome'[j] = "running" /\ (steps # steps' \/ outcome[j] # "running")
                  => ~cancelled'
           /\ ~root /\ root' => ~cancelled
  <1>1. CASE Open
    <2>1. ~root'
      BY <1>1 DEF Open, StartNext
    <2> QED
      BY <1>1, <2>1, OpenStep
  <1>2. CASE Started
    <2>1. /\ Busy /\ proc = "starting" /\ proc' = "running"
          /\ UNCHANGED <<batchVars, root, killed, dlg, stray, outcome, told>>
      BY <1>2 DEF Started, Busy
    <2>2. IInv'
      BY <2>1 DEF batchVars, IInv, TypeOK, CommandInBatch, SilentWhileRunning, InOrder,
                  StartedInOrder, StopHolds, ToldTruly, Busy
    <2> QED
      BY <2>1, <2>2 DEF batchVars
  <1>3. CASE FailsToStart
    <2>1. /\ Busy /\ proc' = "dead" /\ outcome' = [outcome EXCEPT ![idx] = "failed"]
          /\ UNCHANGED <<steps, idx, running, cancelled, allOk, root, killed, dlg, stray, told>>
      BY <1>3 DEF FailsToStart, Busy, batchVars
    <2>2. cancelled' \in BOOLEAN
      BY <2>1 DEF IInv, TypeOK
    <2> QED
      BY <2>1, <2>2, DeadStep
  <1>4. CASE Authorised
    <2>1. /\ Busy /\ proc = "running" /\ ~root /\ ~killed /\ root' = TRUE
          /\ UNCHANGED <<batchVars, proc, killed, dlg, stray, outcome, told>>
      BY <1>4 DEF Authorised, Busy
    <2>2. ~cancelled
      BY <2>1 DEF IInv, StopHolds
    <2>3. IInv'
      BY <2>1 DEF batchVars, IInv, TypeOK, CommandInBatch, SilentWhileRunning, InOrder,
                  StartedInOrder, StopHolds, ToldTruly, Busy
    <2> QED
      BY <2>1, <2>2, <2>3 DEF batchVars
  <1>5. ASSUME NEW ok \in BOOLEAN, Finished(ok, cancelled), Busy,
               UNCHANGED <<steps, cancelled, dlg, stray>>
        PROVE  /\ IInv'
               /\ \A j \in 1 .. Len(steps') :
                    outcome'[j] = "running" /\ (steps # steps' \/ outcome[j] # "running")
                      => ~cancelled'
               /\ ~root'
    <2>1. dlg \in {"open", "doomed"} /\ cancelled \in BOOLEAN
      BY <1>5 DEF IInv, TypeOK, CommandInBatch
    <2>2. \E r, stopped \in BOOLEAN : Finished(r, stopped) /\ cancelled' = stopped
      BY <1>5, <2>1 DEF Finished, StartNext, FinishAll, NoProcess, Ended
    <2>3. Finishes
      BY <1>5, <2>1, <2>2 DEF Finishes
    <2>4. ~root'
      BY <1>5 DEF Finished, StartNext, NoProcess
    <2> QED
      BY <1>5, <2>3, <2>4, FinishedStep
  <1>6. CASE \E ok \in BOOLEAN : CommandEnds(ok)
    <2>1. PICK ok \in BOOLEAN : CommandEnds(ok)
      BY <1>6
    <2>2. Finished(ok, cancelled) /\ Busy /\ UNCHANGED <<steps, cancelled, dlg, stray>>
      BY <2>1 DEF CommandEnds, Busy
    <2> QED
      BY <1>5, <2>2
  <1>7. CASE KilledEnds
    <2>1. Finished(FALSE, cancelled) /\ Busy /\ UNCHANGED <<steps, cancelled, dlg, stray>>
      BY <1>7 DEF KilledEnds, Busy
    <2> QED
      BY <1>5, <2>1
  <1>8. CASE Stop
    <2>1. steps' = steps
      BY <1>8 DEF Stop
    <2> QED
      BY <1>8, <2>1, StopStep
  <1>9. CASE Dismiss
    <2>1. /\ dlg = "open" /\ dlg' = "doomed"
          /\ UNCHANGED <<batchVars, procVars, stray, outcome, told>>
      BY <1>9 DEF Dismiss
    <2>2. IInv'
      BY <2>1 DEF batchVars, procVars, IInv, TypeOK, CommandInBatch, SilentWhileRunning,
                  InOrder, StartedInOrder, StopHolds, ToldTruly, Busy
    <2> QED
      BY <2>1, <2>2 DEF batchVars, procVars
  <1>10. CASE DeleteIdle
    <2>1. /\ ~Busy /\ dlg' = "none" /\ proc' = "none" /\ root' = FALSE /\ killed' = FALSE
          /\ UNCHANGED <<batchVars, stray, outcome, told>>
      BY <1>10 DEF DeleteIdle, NoProcess, Busy
    <2>2. IInv'
      BY <2>1 DEF batchVars, IInv, TypeOK, CommandInBatch, SilentWhileRunning, InOrder,
                  StartedInOrder, StopHolds, ToldTruly, Busy
    <2> QED
      BY <2>1, <2>2 DEF batchVars
  <1>11. CASE \E ok \in BOOLEAN : DeleteRunning(ok)
    <2>1. steps' = steps
      BY <1>11 DEF DeleteRunning
    <2> QED
      BY <1>11, <2>1, DeleteStep
  <1>12. CASE DeleteAbandoning
    <2>1. /\ Busy /\ dlg' = "none" /\ stray' = TRUE
          /\ proc' = "none" /\ root' = FALSE /\ killed' = FALSE
          /\ UNCHANGED <<batchVars, outcome, told>>
      BY <1>12 DEF DeleteAbandoning, NoProcess, Busy
    <2>2. IInv'
      BY <2>1 DEF batchVars, IInv, TypeOK, CommandInBatch, SilentWhileRunning, InOrder,
                  StartedInOrder, StopHolds, ToldTruly, Busy
    <2> QED
      BY <2>1, <2>2 DEF batchVars
  <1>13. CASE StrayEnds
    <2>1. /\ stray' = FALSE
          /\ UNCHANGED <<batchVars, procVars, dlg, outcome, told>>
      BY <1>13 DEF StrayEnds
    <2>2. IInv'
      BY <2>1 DEF batchVars, procVars, IInv, TypeOK, CommandInBatch, SilentWhileRunning,
                  InOrder, StartedInOrder, StopHolds, ToldTruly, Busy
    <2> QED
      BY <2>1, <2>2 DEF batchVars, procVars
  <1>14. CASE UNCHANGED vars
    <2>1. IInv'
      BY <1>14 DEF vars, batchVars, procVars, IInv, TypeOK, CommandInBatch,
                   SilentWhileRunning, InOrder, StartedInOrder, StopHolds, ToldTruly, Busy
    <2> QED
      BY <1>14, <2>1 DEF vars, batchVars, procVars
  <1> QED
    BY <1>1, <1>2, <1>3, <1>4, <1>6, <1>7, <1>8, <1>9, <1>10, <1>11, <1>12, <1>13, <1>14
       DEF Next, Close, Escape

-----------------------------------------------------------------------------
(* The theorems *)

\* IInv holds in every reachable state.
THEOREM Invariance == Spec => []IInv
  <1>1. IInv /\ [Next]_vars => IInv'
    BY NextStepKeeps
  <1> QED
    BY <1>1, InitIInv, PTL DEF Spec

\* Every variable keeps its type; the index never passes the end of the batch by
\* more than one.
THEOREM TypeCorrect == Spec => []TypeOK
  <1>1. IInv => TypeOK
    BY DEF IInv
  <1> QED
    BY <1>1, Invariance, PTL

\* The page hears of a batch at most once, and "finished" only if every step with
\* something to run did, succeeded, and nobody pressed Stop.
THEOREM PageToldTruly == Spec => []ToldTruly
  <1>1. IInv => ToldTruly
    BY DEF IInv
  <1> QED
    BY <1>1, Invariance, PTL

\* When the page hears of the batch, no command of it is alive.
THEOREM PageToldInQuiet == Spec => []QuietWhenTold
  <1>1. IInv => QuietWhenTold
    BY DEF IInv, TypeOK, CommandInBatch, SilentWhileRunning, QuietWhenTold, Busy
  <1> QED
    BY <1>1, Invariance, PTL

\* A command starts only if every one before it succeeded and nobody pressed Stop.
THEOREM NoLateStart == Spec => NothingStartsLate
  <1> DEFINE Timely ==
        \A i \in DOMAIN outcome' :
           outcome'[i] = "running" /\ (steps # steps' \/ outcome[i] # "running") =>
             /\ ~cancelled'
             /\ \A j \in 1 .. i - 1 : outcome'[j] \in {"ok", "skipped"}
  <1>1. ASSUME IInv, [Next]_vars
        PROVE  Timely
    <2>1. DOMAIN outcome' = 1 .. Len(steps') /\ StartedInOrder'
      BY <1>1, NextStepKeeps DEF IInv, TypeOK
    <2> QED
      BY <1>1, <2>1, NextStepKeeps DEF StartedInOrder, Good
  <1>2. IInv /\ [Next]_vars => [Timely]_vars
    BY <1>1
  <1> QED
    BY <1>2, Invariance, PTL DEF Spec, NothingStartsLate

\* Once Stop has returned with the password not given, the step never becomes
\* root's.
THEOREM StopBeforeRoot == Spec => NoRootAfterStop
  <1>1. IInv /\ [Next]_vars => [~root /\ root' => ~cancelled]_vars
    BY NextStepKeeps
  <1> QED
    BY <1>1, Invariance, PTL DEF Spec, NoRootAfterStop

-----------------------------------------------------------------------------
(* The promise *)

\* While its window is there, a batch that runs has a command, be it one that
\* failed to start, and one that does not run has told the page; while it runs
\* nothing has failed but that command; and a command that is alive is the one
\* the index points at.
Watched ==
    /\ dlg # "none" => (running => proc # "none") /\ (~running => told # <<>>)
    /\ running => allOk
    /\ Busy => outcome[idx] = "running"

\* The slot of finished() of a command that was alive: the batch is over, or goes
\* on with another command.
LEMMA FinishedWatched ==
    ASSUME IInv, Watched, Busy, NEW ok \in BOOLEAN, NEW stopped \in BOOLEAN,
           Finished(ok, stopped)
    PROVE  /\ \/ /\ running' = FALSE /\ proc' = "none" /\ outcome' = Ended(ok)
                 /\ told' = <<~stopped /\ ok>>
              \/ /\ ok /\ ~stopped /\ running' = TRUE /\ proc' = "starting" /\ told' = <<>>
                 /\ allOk' = TRUE
                 /\ idx' \in 1 .. Len(steps)
                 /\ outcome' = [Ended(ok) EXCEPT ![idx'] = "running"]
                 /\ outcome'[idx'] = "running"
  <1>1. /\ told = <<>> /\ allOk = TRUE /\ Len(steps) \in Nat /\ idx \in 1 .. Len(steps)
        /\ outcome \in [1 .. Len(steps) -> Outcome]
    BY AliveFacts DEF IInv, TypeOK, Watched
  <1>2. CASE stopped \/ ~ok
    <2>1. FinishAll(told, FALSE) /\ NoProcess /\ outcome' = Ended(ok)
      BY <1>2, Zenon DEF Finished
    <2>2. told' = <<FALSE>> /\ (~stopped /\ ok) = FALSE
      BY <1>1, <1>2, <2>1 DEF FinishAll
    <2> QED
      BY <2>1, <2>2 DEF FinishAll, NoProcess
  <1>3. CASE ~stopped /\ ok
    <2>1. allOk' = TRUE /\ StartNext(steps, idx + 1, TRUE, Ended(ok), <<>>)
      BY <1>1, <1>3 DEF Finished
    <2>2. idx' = NextStep(steps, idx + 1) /\ idx' \in idx + 1 .. Len(steps) + 1
      BY <1>1, <2>1, NextStepSkips DEF StartNext
    <2>3. CASE idx' > Len(steps)
      <3>1. FinishAll(<<>>, TRUE) /\ proc' = "none" /\ outcome' = Ended(ok)
        BY <2>1, <2>3 DEF StartNext
      <3>2. told' = <<TRUE>> /\ (~stopped /\ ok) = TRUE
        BY <1>3, <3>1 DEF FinishAll
      <3> QED
        BY <3>1, <3>2 DEF FinishAll
    <2>4. CASE ~(idx' > Len(steps))
      <3>1. /\ running' = TRUE /\ proc' = "starting" /\ told' = <<>>
            /\ outcome' = [Ended(ok) EXCEPT ![idx'] = "running"]
        BY <2>1, <2>4 DEF StartNext
      <3>2. idx' \in 1 .. Len(steps)
        BY <1>1, <2>2, <2>4
      <3>3. DOMAIN Ended(ok) = 1 .. Len(steps)
        BY <1>1 DEF Ended
      <3> QED
        BY <1>3, <2>1, <3>1, <3>2, <3>3
    <2> QED
      BY <2>3, <2>4
  <1> QED
    BY <1>2, <1>3

LEMMA WatchedHolds == Spec => []Watched
  <1>1. Init => Watched
    BY DEF Init, Watched, Busy
  <1>2. ASSUME IInv, Watched, [Next]_vars PROVE Watched'
    <2> USE <1>2
    <2>1. CASE Open
      <3>1. Len(steps') \in Nat /\ Len(steps') >= 1
        BY <2>1, BatchShape DEF Open
      <3>2. /\ allOk' = TRUE /\ dlg' = "open"
            /\ \E d : /\ DOMAIN d = 1 .. Len(steps')
                      /\ StartNext(steps', 1, TRUE, d, <<>>)
        BY <2>1 DEF Open
      <3>3. PICK d : DOMAIN d = 1 .. Len(steps') /\ StartNext(steps', 1, TRUE, d, <<>>)
        BY <3>2
      <3>4. idx' \in 1 .. Len(steps') + 1
        BY <3>1, <3>3, NextStepSkips DEF StartNext
      <3>5. CASE idx' > Len(steps')
        <4>1. FinishAll(<<>>, TRUE) /\ proc' = "none"
          BY <3>3, <3>5 DEF StartNext
        <4>2. running' = FALSE /\ told' = <<TRUE>>
          BY <4>1 DEF FinishAll
        <4>3. told' # <<>>
          <5>1. TRUE \in BOOLEAN
            OBVIOUS
          <5>2. <<TRUE>> # <<>>
            BY <5>1, Told, Zenon
          <5> QED
            BY <4>2, <5>2, Zenon
        <4> QED
          BY <3>2, <4>1, <4>2, <4>3 DEF Watched, Busy
      <3>6. CASE ~(idx' > Len(steps'))
        <4>1. /\ running' = TRUE /\ proc' = "starting"
              /\ outcome' = [d EXCEPT ![idx'] = "running"]
          BY <3>3, <3>6 DEF StartNext
        <4>2. idx' \in DOMAIN d
          BY <3>1, <3>3, <3>4, <3>6
        <4>3. outcome'[idx'] = "running"
          BY <4>1, <4>2
        <4> QED
          BY <3>2, <4>1, <4>3 DEF Watched
      <3> QED
        BY <3>5, <3>6
    <2>2. CASE Started \/ FailsToStart \/ Authorised \/ Dismiss \/ StrayEnds
      BY <2>2 DEF Watched, Busy, Started, FailsToStart, Authorised, Dismiss, StrayEnds,
                  batchVars, procVars
    <2>3. ASSUME NEW ok \in BOOLEAN, NEW stopped \in BOOLEAN, Finished(ok, stopped), Busy
          PROVE  Watched'
      <3>1. \/ running' = FALSE /\ proc' = "none" /\ told' # <<>>
            \/ running' = TRUE /\ proc' = "starting" /\ allOk' = TRUE /\ outcome'[idx'] = "running"
        BY <2>3, FinishedWatched, Told
      <3> QED
        BY <3>1 DEF Watched, Busy
    <2>4. CASE \/ \E ok \in BOOLEAN : CommandEnds(ok)
               \/ KilledEnds
      BY <2>3, <2>4 DEF CommandEnds, KilledEnds, Busy, IInv, TypeOK
    <2>5. CASE Stop
      <3>1. CASE Busy /\ \E ok \in BOOLEAN : Finished(ok, TRUE)
        BY <2>3, <3>1
      <3>2. CASE Busy /\ Kill
        BY <2>5, <3>2 DEF Stop, Kill, Watched, Busy
      <3>3. CASE proc' = "dead" /\ UNCHANGED <<running, allOk, told>>
        BY <2>5, <3>3 DEF Stop, Watched, Busy
      <3>4. CASE ~Busy /\ FinishAll(told, FALSE) /\ UNCHANGED <<allOk, procVars>>
        <4>1. told = <<>>
          BY <2>5 DEF Stop, IInv, SilentWhileRunning
        <4>2. told' = <<FALSE>> /\ running' = FALSE /\ proc' = proc
          BY <3>4, <4>1 DEF FinishAll, procVars
        <4>3. told' # <<>>
          BY <4>2, Told
        <4> QED
          BY <3>4, <4>2, <4>3 DEF Watched, Busy
      <3> QED
        BY <2>5, <3>1, <3>2, <3>3, <3>4, Zenon DEF Stop, StopCommand, Busy
    <2>6. CASE DeleteIdle \/ (\E ok \in BOOLEAN : DeleteRunning(ok)) \/ DeleteAbandoning
      <3>1. dlg' = "none" /\ proc' = "none"
        BY <2>6 DEF DeleteIdle, DeleteRunning, DeleteAbandoning, NoProcess
      <3>2. running' = FALSE \/ (running' = running /\ allOk' = allOk)
        BY <2>6 DEF DeleteIdle, DeleteRunning, DeleteAbandoning, LastSlot, FinishAll, batchVars
      <3> QED
        BY <3>1, <3>2 DEF Watched, Busy
    <2>7. CASE UNCHANGED vars
      BY <2>7 DEF vars, batchVars, procVars, Watched, Busy
    <2> QED
      BY <2>1, <2>2, <2>4, <2>5, <2>6, <2>7 DEF Next, Close, Escape
  <1> QED
    BY <1>1, <1>2, Invariance, PTL DEF Spec

\* While a command is alive all is well unless Stop was pressed, and when it has
\* ended, if it ended well too.
LEMMA WellIs ==
    ASSUME IInv, Watched, Busy
    PROVE  /\ Well = ~cancelled
           /\ \A ok \in BOOLEAN : outcome' = Ended(ok) => Well' = (~cancelled' /\ ok)
  <1>1. /\ outcome \in [1 .. Len(steps) -> Outcome]
        /\ Len(steps) \in Nat /\ idx \in 1 .. Len(steps)
        /\ outcome[idx] = "running"
    BY AliveFacts DEF Watched
  <1>2. \A j \in 1 .. Len(steps) : j \in 1 .. idx - 1 \/ j = idx \/ j \in idx + 1 .. Len(steps)
    BY <1>1
  <1>3. \A j \in 1 .. Len(steps) : outcome[j] # "failed"
    BY <1>1, <1>2, AliveFacts DEF Good
  <1>4. ASSUME NEW ok \in BOOLEAN, outcome' = Ended(ok)
        PROVE  Well' = (~cancelled' /\ ok)
    <2>1. /\ DOMAIN outcome' = 1 .. Len(steps)
          /\ outcome'[idx] = IF ok THEN "ok" ELSE "failed"
          /\ \A j \in 1 .. Len(steps) : j # idx => outcome'[j] = outcome[j]
      BY <1>1, <1>4 DEF Ended
    <2>2. (\A j \in DOMAIN outcome' : outcome'[j] # "failed") <=> ok
      BY <1>1, <1>3, <2>1
    <2> QED
      BY <2>2 DEF Well
  <1>5. DOMAIN outcome = 1 .. Len(steps)
    BY <1>1
  <1> QED
    BY <1>3, <1>4, <1>5 DEF Well

\* A batch with a failed step is not well.
LEMMA FailedIsNotWell ==
    ASSUME NEW j \in DOMAIN outcome', outcome'[j] = "failed"
    PROVE  Well' = FALSE
  BY DEF Well

\* A batch of which the page has not heard, with a command alive: finished() is
\* told to the page, or goes by unseen.
LEMMA FinishedPromise ==
    ASSUME IInv, Watched, Busy, NEW ok \in BOOLEAN, NEW stopped \in BOOLEAN,
           Finished(ok, stopped), cancelled' = stopped, cancelled => stopped,
           dlg' = dlg, stray' = stray
    PROVE  \/ \E r \in BOOLEAN : Promise!Tell(r)
           \/ UNCHANGED Promise!vars
  <1>1. told = <<>> /\ dlg \in {"open", "doomed"} /\ cancelled \in BOOLEAN
    BY AliveFacts DEF IInv, TypeOK
  <1>2. Window \in {"running", "lost"} /\ (Window = "running" <=> dlg = "open") /\ Work
    BY <1>1 DEF Window, Work, Busy
  <1>3. CASE /\ running' = FALSE /\ proc' = "none" /\ outcome' = Ended(ok)
             /\ told' = <<~stopped /\ ok>>
    <2> DEFINE r == ~stopped /\ ok
    <2>1. r \in BOOLEAN /\ told' = <<r>> /\ told' # <<>>
      BY <1>3, Told
    <2>2. Window' = IF Window = "running" THEN "shown" ELSE "none"
      BY <1>1, <1>2, <2>1 DEF Window
    <2>3. Work' = FALSE /\ Well' = r
      BY <1>3, WellIs DEF Work
    <2>4. r => Well /\ Work
      BY <1>2, WellIs
    <2>5. Promise!Tell(r)
      BY <1>2, <2>1, <2>2, <2>3, <2>4 DEF Promise!Tell
    <2> QED
      BY <2>1, <2>5
  <1>4. CASE /\ ok /\ ~stopped /\ running' = TRUE /\ proc' = "starting" /\ told' = <<>>
             /\ idx' \in 1 .. Len(steps)
             /\ outcome' = [Ended(ok) EXCEPT ![idx'] = "running"]
    <2>1. Window' = Window /\ Work' = TRUE /\ Work = TRUE
      BY <1>1, <1>2, <1>4 DEF Window, Work
    <2>2. Well = TRUE
      BY <1>1, <1>4, WellIs
    <2>3. \A j \in DOMAIN outcome : outcome[j] # "failed"
      BY <2>2 DEF Well
    <2>4. \A j \in DOMAIN outcome' : outcome'[j] # "failed"
      BY <1>4, <2>3 DEF Ended
    <2>5. Well' = TRUE
      BY <1>4, <2>4 DEF Well
    <2> QED
      BY <1>1, <1>4, <2>1, <2>2, <2>5 DEF Promise!vars
  <1> QED
    BY <1>3, <1>4, FinishedWatched

\* Stop is pressed: the page is told, or a command may still be alive.
LEMMA StopPromise ==
    ASSUME IInv, Watched, Stop
    PROVE  (\E r \in BOOLEAN : Promise!Tell(r)) \/ Promise!GoWrong \/ UNCHANGED Promise!vars
  <1>1. /\ dlg = "open" /\ running /\ told = <<>> /\ ~cancelled /\ cancelled' = TRUE
        /\ dlg' = dlg /\ stray' = stray
    BY DEF Stop, IInv, SilentWhileRunning
  <1>2. Window = "running" /\ Well' = FALSE
    BY <1>1 DEF Window, Well
  <1>3. CASE Busy /\ \E ok \in BOOLEAN : Finished(ok, TRUE)
    BY <1>1, <1>3, FinishedPromise
  <1>4. CASE /\ Busy /\ told' = told /\ proc' \in {"running", "dead"}
    <2>1. Work = TRUE /\ (Work' = TRUE \/ Work' = FALSE)
      BY <1>4 DEF Work, Busy
    <2>2. Window' = Window
      BY <1>1, <1>4 DEF Window
    <2> QED
      BY <1>1, <1>2, <1>4, <2>1, <2>2 DEF Promise!GoWrong
  <1>5. CASE ~Busy /\ FinishAll(told, FALSE) /\ proc' = proc
    <2>1. told' = <<FALSE>> /\ told' # <<>>
      BY <1>1, <1>5, Told DEF FinishAll
    <2>2. Window' = "shown" /\ Work' = FALSE
      BY <1>1, <1>5, <2>1 DEF Window, Work, Busy
    <2>3. Promise!Tell(FALSE)
      BY <1>1, <1>2, <2>1, <2>2 DEF Promise!Tell
    <2> QED
      BY <2>3
  <1> QED
    BY <1>3, <1>4, <1>5, Zenon DEF Stop, StopCommand, Kill, Busy, procVars

\* The window is deleted over a command: its last slot tells the page, or it goes
\* without a word.
LEMMA DeletePromise ==
    ASSUME IInv, Watched, NEW ok \in BOOLEAN, DeleteRunning(ok)
    PROVE  (\E r \in BOOLEAN : Promise!Tell(r)) \/ Promise!EndUntold
  <1>1. /\ Busy /\ dlg = "doomed" /\ dlg' = "none" /\ proc' = "none" /\ told = <<>>
        /\ cancelled' = cancelled /\ stray' = stray /\ cancelled \in BOOLEAN
        /\ LastSlot(ok) \/ (outcome' = Ended(ok) /\ UNCHANGED <<idx, running, allOk, told>>)
    BY AliveFacts DEF DeleteRunning, NoProcess, Busy, IInv, TypeOK
  <1>2. Window = "lost" /\ Window' = "none" /\ Work = TRUE /\ Work' = FALSE
    BY <1>1 DEF Window, Work, Busy
  <1>3. Well = ~cancelled /\ (outcome' = Ended(ok) => Well' = (~cancelled /\ ok))
    BY <1>1, WellIs
  <1>4. CASE outcome' = Ended(ok) /\ told' = told
    BY <1>1, <1>2, <1>3, <1>4 DEF Promise!EndUntold
  <1>5. CASE LastSlot(ok)
    <2> DEFINE n == NextStep(steps, idx + 1)
               goes == ok /\ ~cancelled
               more == goes /\ n <= Len(steps)
               r == goes /\ ~more
    <2>1. /\ told' = <<r>> /\ r \in BOOLEAN
          /\ outcome' = IF more THEN [Ended(ok) EXCEPT ![n] = "failed"] ELSE Ended(ok)
      BY <1>1, <1>5 DEF LastSlot, FinishAll
    <2>2. Well' = r
      <3>1. CASE ~more
        BY <1>1, <1>3, <2>1, <3>1
      <3>2. CASE more
        <4>1. /\ Len(steps) \in Nat /\ n \in 1 .. Len(steps)
              /\ outcome \in [1 .. Len(steps) -> Outcome]
          <5>1. Len(steps) \in Nat /\ idx \in 1 .. Len(steps)
            BY <1>1, AliveFacts
          <5>2. n \in idx + 1 .. Len(steps) + 1
            BY <5>1, NextStepSkips
          <5> QED
            BY <1>1, <3>2, <5>1, <5>2, AliveFacts
        <4>2. n \in DOMAIN outcome' /\ outcome'[n] = "failed"
          BY <2>1, <3>2, <4>1 DEF Ended
        <4> QED
          BY <3>2, <4>2, FailedIsNotWell
      <3> QED
        BY <3>1, <3>2
    <2>3. r => Well /\ Work
      BY <1>2, <1>3
    <2> HIDE DEF r
    <2>4. Promise!Tell(r)
      BY <1>1, <1>2, <2>1, <2>2, <2>3 DEF Promise!Tell
    <2> QED
      BY <2>1, <2>4
  <1> QED
    BY <1>1, <1>4, <1>5

\* Every step of the batch, of the user and of the machine is a step of the
\* promise, or one the page sees nothing of.
LEMMA PromiseStep ==
    ASSUME IInv, Watched, [Next]_vars
    PROVE  [Promise!Next]_(Promise!vars)
  <1>1. CASE Open
    <2>1. /\ dlg = "none" /\ dlg' = "open" /\ cancelled' = FALSE /\ stray' = stray
          /\ steps' \in Batch /\ Window = "none"
      BY <1>1 DEF Open, Window
    <2> DEFINE d == [i \in 1 .. Len(steps') |-> IF steps'[i] = "skip" THEN "skipped" ELSE "waiting"]
    <2>2. StartNext(steps', 1, TRUE, d, <<>>)
      BY <1>1 DEF Open
    <2>3. \A j \in DOMAIN d : d[j] # "failed"
      OBVIOUS
    <2> HIDE DEF d
    <2>4. CASE idx' > Len(steps')
      <3>1. FinishAll(<<>>, TRUE) /\ proc' = "none" /\ outcome' = d
        BY <2>2, <2>4 DEF StartNext
      <3>2. told' = <<TRUE>> /\ told' # <<>>
        BY <3>1, Told DEF FinishAll
      <3>3. Window' = "shown" /\ Work' = FALSE /\ Well' = TRUE
        BY <2>1, <2>3, <3>1, <3>2 DEF Window, Work, Well
      <3> QED
        BY <2>1, <3>2, <3>3 DEF Promise!Next, Promise!Begin
    <2>5. CASE ~(idx' > Len(steps'))
      <3>1. /\ proc' = "starting" /\ told' = <<>>
            /\ outcome' = [d EXCEPT ![idx'] = "running"]
        BY <2>2, <2>5 DEF StartNext
      <3>2. \A j \in DOMAIN outcome' : outcome'[j] # "failed"
        BY <2>3, <3>1
      <3>3. Window' = "running" /\ Work' = TRUE /\ Well' = TRUE
        BY <2>1, <3>1, <3>2 DEF Window, Work, Well
      <3> QED
        BY <2>1, <3>1, <3>3 DEF Promise!Next, Promise!Begin
    <2> QED
      BY <2>4, <2>5
  <1>2. CASE Started \/ Authorised
    <2>1. /\ UNCHANGED <<dlg, told, cancelled, outcome, stray>>
          /\ proc \in {"starting", "running"} /\ proc' \in {"starting", "running"}
      BY <1>2 DEF Started, Authorised, batchVars
    <2> QED
      BY <2>1 DEF Promise!vars, Window, Work, Well
  <1>3. CASE FailsToStart
    <2>1. /\ Busy /\ dlg \in {"open", "doomed"} /\ proc' = "dead" /\ told = <<>>
          /\ UNCHANGED <<dlg, told, stray>>
          /\ outcome' = [outcome EXCEPT ![idx] = "failed"] /\ idx \in DOMAIN outcome
      <3>1. Busy
        BY <1>3 DEF FailsToStart, Busy
      <3>2. idx \in DOMAIN outcome /\ told = <<>>
        BY <3>1, AliveFacts
      <3> QED
        BY <1>3, <3>1, <3>2 DEF FailsToStart, IInv, TypeOK
    <2>2. Well' = FALSE
      <3>1. idx \in DOMAIN outcome' /\ outcome'[idx] = "failed"
        BY <2>1
      <3> QED
        BY <3>1, FailedIsNotWell
    <2>3. Window \in {"running", "lost"} /\ Window' = Window /\ Work' = FALSE
      BY <2>1 DEF Window, Work
    <2> QED
      BY <2>1, <2>2, <2>3 DEF Promise!Next, Promise!GoWrong
  <1>4. CASE (\E ok \in BOOLEAN : CommandEnds(ok)) \/ KilledEnds
    <2>1. PICK ok \in BOOLEAN : CommandEnds(ok) \/ (KilledEnds /\ ok = FALSE)
      BY <1>4
    <2>2. /\ Busy /\ Finished(ok, cancelled) /\ cancelled \in BOOLEAN
          /\ cancelled' = cancelled /\ dlg' = dlg /\ stray' = stray
      BY <2>1 DEF CommandEnds, KilledEnds, Busy, IInv, TypeOK
    <2> QED
      BY <2>2, FinishedPromise DEF Promise!Next
  <1>5. CASE Stop
    BY <1>5, StopPromise DEF Promise!Next
  <1>6. CASE Dismiss
    <2>1. /\ dlg = "open" /\ dlg' = "doomed"
          /\ UNCHANGED <<proc, cancelled, stray, outcome, told>>
      BY <1>6 DEF Dismiss, batchVars, procVars
    <2>2. UNCHANGED <<Work, Well>>
      BY <2>1 DEF Work, Well
    <2>3. \/ Window = "running" /\ Window' = "lost"
          \/ Window = "shown" /\ Window' = "none"
      BY <2>1 DEF Window
    <2> QED
      BY <2>1, <2>2, <2>3 DEF Promise!Next, Promise!Dismiss, Promise!Close
  <1>7. CASE DeleteIdle
    <2>1. /\ dlg = "doomed" /\ dlg' = "none" /\ proc \in {"none", "dead"} /\ proc' = "none"
          /\ UNCHANGED <<cancelled, stray, outcome, told>>
      BY <1>7 DEF DeleteIdle, NoProcess, batchVars
    <2>2. UNCHANGED <<Work, Well>> /\ Work' = FALSE
      BY <2>1 DEF Work, Well
    <2>3. Window' = "none" /\ Window \in {"lost", "none"}
      BY <2>1 DEF Window
    <2> QED
      BY <2>1, <2>2, <2>3 DEF Promise!Next, Promise!EndUntold, Promise!vars
  <1>8. CASE \E ok \in BOOLEAN : DeleteRunning(ok)
    BY <1>8, DeletePromise DEF Promise!Next
  <1>9. CASE DeleteAbandoning
    <2>1. /\ dlg = "doomed" /\ dlg' = "none" /\ proc = "running" /\ proc' = "none"
          /\ stray' = TRUE /\ UNCHANGED <<cancelled, outcome, told>>
      BY <1>9 DEF DeleteAbandoning, NoProcess, batchVars
    <2>2. told = <<>>
      BY <2>1, AliveFacts DEF Busy
    <2>3. Work = TRUE /\ Work' = FALSE /\ UNCHANGED Well
      BY <2>1 DEF Work, Well
    <2>4. Window = "lost" /\ Window' = "none"
      BY <2>1, <2>2 DEF Window
    <2> QED
      BY <2>1, <2>3, <2>4 DEF Promise!Next, Promise!EndUntold
  <1>10. CASE StrayEnds
    <2>1. /\ stray /\ stray' = FALSE
          /\ UNCHANGED <<dlg, proc, cancelled, outcome, told>>
      BY <1>10 DEF StrayEnds, batchVars, procVars
    <2>2. UNCHANGED <<Window, Work, Well>>
      BY <2>1 DEF Window, Work, Well
    <2> QED
      BY <2>1, <2>2 DEF Promise!Next, Promise!StrayEnds
  <1>11. CASE UNCHANGED vars
    BY <1>11 DEF vars, batchVars, procVars, Promise!vars, Window, Work, Well
  <1> QED
    BY <1>1, <1>2, <1>3, <1>4, <1>5, <1>6, <1>7, <1>8, <1>9, <1>10, <1>11
       DEF Next, Close, Escape

\* The log window implements what the page relies on: it tells once how the batch
\* ended, when nothing of it runs; "finished" only of a batch that went well and
\* was not stopped; and it starts nothing after a failure or Stop.
THEOREM WindowKeepsPromise == Spec => KeepsPromise
  <1>1. Init => Promise!Init
    BY DEF Init, Promise!Init, Window, Work, Well
  <1> QED
    BY <1>1, Invariance, WatchedHolds, PromiseStep, PTL
       DEF Spec, KeepsPromise, Promise!Spec

-----------------------------------------------------------------------------
(* Liveness *)

\* What StopEnds waits for.
Settled == ~running \/ dlg = "none" \/ root \/ proc = "dead"

\* ENABLED is beyond the provers: that the guard of KilledEnds is all it takes
\* stays a hypothesis.  (Its other conjuncts assign each variable once.)
Dying == dlg # "none" /\ proc = "running" /\ killed
GuardsTell == Dying => ENABLED <<KilledEnds>>_vars

\* After Stop, a command the program may signal is one that is about to die.
LEMMA StoppedIsDying == IInv /\ Watched /\ cancelled /\ ~Settled => Dying
  BY DEF IInv, TypeOK, StopHolds, Watched, Busy, Settled, Dying

\* It dies, or the window goes first: no other step ends the wait or prolongs it.
LEMMA DyingStays ==
    IInv /\ Watched /\ cancelled /\ ~Settled /\ [Next]_vars =>
        (cancelled /\ ~Settled)' \/ Settled'
  <1> SUFFICES ASSUME IInv, Watched, cancelled, ~Settled, [Next]_vars, ~Settled'
               PROVE  cancelled'
    OBVIOUS
  <1>1. ~Open
    BY DEF Open, Settled
  <1>2. CASE Started \/ FailsToStart \/ Authorised \/ Dismiss \/ StrayEnds
    BY <1>2 DEF Started, FailsToStart, Authorised, Dismiss, StrayEnds, batchVars
  <1>3. CASE \/ \E ok \in BOOLEAN : CommandEnds(ok)
             \/ KilledEnds \/ Stop
    BY <1>3 DEF CommandEnds, KilledEnds, Stop
  <1>4. CASE DeleteIdle \/ (\E ok \in BOOLEAN : DeleteRunning(ok)) \/ DeleteAbandoning
    BY <1>4 DEF DeleteIdle, DeleteRunning, DeleteAbandoning, batchVars
  <1>5. CASE UNCHANGED vars
    BY <1>5 DEF vars, batchVars
  <1> QED
    BY <1>1, <1>2, <1>3, <1>4, <1>5 DEF Next, Close, Escape

\* Its death ends a stopped batch.
LEMMA DeathEndsBatch == cancelled /\ <<KilledEnds>>_vars => Settled'
  BY DEF KilledEnds, Finished, FinishAll, Settled

\* Stop is never left waiting for a command it may signal, if killed processes
\* die and deferred deletes are delivered (FairSpec).
THEOREM StopComesToAnEnd == FairSpec /\ []GuardsTell => StopEnds
  <1>1. GuardsTell => (Dying => ENABLED <<KilledEnds>>_vars)
    BY DEF GuardsTell
  <1>2. (dlg = "open" /\ cancelled) => (cancelled /\ ~Settled) \/ Settled
    OBVIOUS
  <1>3. FairSpec => Spec /\ WF_vars(KilledEnds)
    BY PTL DEF FairSpec, Fairness
  <1>4. Spec /\ WF_vars(KilledEnds) /\ []GuardsTell =>
          (dlg = "open" /\ cancelled ~> Settled)
    BY <1>1, <1>2, StoppedIsDying, DyingStays, DeathEndsBatch, Invariance,
       WatchedHolds, PTL DEF Spec
  <1> QED
    BY <1>3, <1>4, PTL DEF StopEnds, Settled
=============================================================================
