--------------------------- MODULE DiskJobsProofs ---------------------------
(***************************************************************************)
(* Proofs about DiskJobs, for any disks with any number of partitions: the *)
(* types, that a page is busy exactly while it has a command, and that     *)
(* recovery writes to another disk where baseDisk() understands the names. *)
(***************************************************************************)
EXTENDS DiskJobs, TLAPS

IInv == TypeOK /\ StartIsFree /\ UnderstoodIsElsewhere

-----------------------------------------------------------------------------
(* Device names *)

\* What baseDisk() makes of a name it understands is the disk, and nothing else.
LEMMA BaseOfUnderstood ==
    ASSUME NEW n \in Name, Understood(n)
    PROVE  BaseDisk(n) = [name |-> n.disk, cut |-> FALSE]
<1>1. n.form = "plain" /\ (n.part > 0 \/ n.disk \notin Nvme)
  BY DEF Understood
<1>2. ~(n.part = 0 /\ n.disk \in Nvme)
  BY <1>1, DisksAssumption DEF Name
<1> QED
  BY <1>1, <1>2 DEF BaseDisk

\* startRecovery() refuses a destination on the carved disk if both names are
\* understood, whichever partitions they are of (recovery_page.cpp:184).
LEMMA SameDiskRefused ==
    ASSUME NEW src \in Name, NEW dest \in Name,
           Understood(src), Understood(dest), dest.disk = src.disk
    PROVE  Refused(dest, src)
<1>1. dest # Unknown
  BY DEF Understood
<1>2. BaseDisk(dest) = BaseDisk(src)
  BY BaseOfUnderstood
<1> QED
  BY <1>1, <1>2 DEF Refused

-----------------------------------------------------------------------------
(* The invariant *)

LEMMA InitIInv == Init => IInv
BY DEF Init, IInv, TypeOK, StartIsFree, UnderstoodIsElsewhere, Page, NoRecovery

\* Types, action by action.
LEMMA NextTypeOK == TypeOK /\ [Next]_vars => TypeOK'
<1> SUFFICES ASSUME TypeOK, [Next]_vars PROVE TypeOK'
  OBVIOUS
<1> USE DEF TypeOK, Page, Alive
<1>1. CASE StartBackup
  BY <1>1 DEF StartBackup, Start
<1>2. CASE StartRecovery
  <2>1. PICK src \in Source, dest \in Name \cup {Unknown} :
            carving' = [src |-> src, dest |-> dest]
    BY <1>2 DEF StartRecovery
  <2>2. carving' \in [src : Source, dest : Name \cup {Unknown}]
    BY <2>1
  <2> QED
    BY <1>2, <2>2 DEF StartRecovery, Start
<1>3. CASE Authorise
  BY <1>3 DEF Authorise
<1>4. CASE RebuildPages
  BY <1>4 DEF RebuildPages, FreshPages
<1>5. CASE Relaunch
  BY <1>5 DEF Relaunch, FreshPages
<1>6. ASSUME NEW p \in Page, Launch(p) PROVE TypeOK'
  BY <1>6 DEF Launch
<1>7. ASSUME NEW p \in Page, ChildEnds(p) PROVE TypeOK'
  BY <1>7 DEF ChildEnds, Finished, Frees
<1>8. ASSUME NEW p \in Page, CancelEnded(p) PROVE TypeOK'
  BY <1>8 DEF CancelEnded, Finished, Frees
<1>9. ASSUME NEW p \in Page, CancelTimedOut(p) PROVE TypeOK'
  BY <1>9 DEF CancelTimedOut
<1>10. ASSUME NEW p \in Page, CancelFailed(p) PROVE TypeOK'
  BY <1>10 DEF CancelFailed
<1>11. CASE UNCHANGED vars
  BY <1>11 DEF vars, pageVars
<1> QED
  BY <1>1, <1>2, <1>3, <1>4, <1>5, <1>6, <1>7, <1>8, <1>9, <1>10, <1>11 DEF Next

LEMMA NextStartIsFree == TypeOK /\ StartIsFree /\ [Next]_vars => StartIsFree'
<1> SUFFICES ASSUME TypeOK, StartIsFree, [Next]_vars PROVE StartIsFree'
  OBVIOUS
<1> USE DEF TypeOK, StartIsFree, Page, Alive
<1>1. CASE StartBackup
  BY <1>1 DEF StartBackup, Start
<1>2. CASE StartRecovery
  BY <1>2 DEF StartRecovery, Start
<1>3. CASE Authorise
  BY <1>3 DEF Authorise
<1>4. CASE RebuildPages
  BY <1>4 DEF RebuildPages, FreshPages
<1>5. CASE Relaunch
  BY <1>5 DEF Relaunch, FreshPages
<1>6. ASSUME NEW p \in Page, Launch(p) PROVE StartIsFree'
  BY <1>6 DEF Launch
<1>7. ASSUME NEW p \in Page, ChildEnds(p) PROVE StartIsFree'
  BY <1>7 DEF ChildEnds, Finished, Frees
<1>8. ASSUME NEW p \in Page, CancelEnded(p) PROVE StartIsFree'
  BY <1>8 DEF CancelEnded
<1>9. ASSUME NEW p \in Page, CancelTimedOut(p) PROVE StartIsFree'
  BY <1>9 DEF CancelTimedOut
<1>10. ASSUME NEW p \in Page, CancelFailed(p) PROVE StartIsFree'
  BY <1>10 DEF CancelFailed
<1>11. CASE UNCHANGED vars
  BY <1>11 DEF vars, pageVars
<1> QED
  BY <1>1, <1>2, <1>3, <1>4, <1>5, <1>6, <1>7, <1>8, <1>9, <1>10, <1>11 DEF Next

\* Only startRecovery() chooses a destination; the others keep or forget it.
LEMMA NextElsewhere == UnderstoodIsElsewhere /\ [Next]_vars => UnderstoodIsElsewhere'
<1> SUFFICES ASSUME UnderstoodIsElsewhere, [Next]_vars PROVE UnderstoodIsElsewhere'
  OBVIOUS
<1>1. CASE StartRecovery
  <2>1. PICK src \in Source, dest \in Name \cup {Unknown} :
            ~Refused(dest, src) /\ carving' = [src |-> src, dest |-> dest]
    BY <1>1 DEF StartRecovery
  <2>2. src \in Name
    BY DEF Source
  <2>3. Understood(src) /\ Understood(dest) => dest.disk # src.disk
    <3> SUFFICES ASSUME Understood(src), Understood(dest) PROVE dest.disk # src.disk
      OBVIOUS
    <3>1. dest \in Name
      BY DEF Understood
    <3> QED
      BY <2>1, <2>2, <3>1, SameDiskRefused
  <2> QED
    BY <2>1, <2>3 DEF UnderstoodIsElsewhere, Understood
<1>2. CASE carving' \in {carving, NoRecovery}
  BY <1>2 DEF UnderstoodIsElsewhere, Understood
<1>3. StartRecovery \/ carving' \in {carving, NoRecovery}
  BY DEF Next, vars, pageVars, StartBackup, Authorise, RebuildPages, Relaunch, FreshPages,
     Launch, ChildEnds, CancelEnded, CancelTimedOut, CancelFailed, Finished
<1> QED
  BY <1>1, <1>2, <1>3

\* The inductive invariant holds in every reachable state.
THEOREM Invariance == Spec => []IInv
<1>1. IInv /\ [Next]_vars => IInv'
  BY NextTypeOK, NextStartIsFree, NextElsewhere DEF IInv
<1> QED
  BY <1>1, InitIInv, PTL DEF Spec

-----------------------------------------------------------------------------
(* Theorems *)

\* Every variable keeps its type; rsync never becomes root's.
THEOREM TypeCorrect == Spec => []TypeOK
BY Invariance, PTL DEF IInv

\* A page is busy exactly while it has a command, so that startBackup() and
\* startRecovery() never overwrite m_proc while one runs.
THEOREM StartFree == Spec => []StartIsFree
BY Invariance, PTL DEF IInv

\* PhotoRec never writes to the disk it carves, where both device names are of
\* a form baseDisk() understands, whatever the disks and their partitions.
THEOREM RecoversElsewhere == Spec => []UnderstoodIsElsewhere
BY Invariance, PTL DEF IInv

-----------------------------------------------------------------------------
(* Liveness *)

\* ENABLED is beyond the provers: that the guard of ChildEnds is all it takes
\* stays a hypothesis.  (Its other conjuncts assign each variable once, and the
\* child is another one afterwards.)
Due(p) == crashed = "no" /\ child[p] \in {"running", "root"}
GuardsTell == \A p \in Page : Due(p) => ENABLED <<ChildEnds(p)>>_vars

\* A command that runs stays a command that runs until its page is free, even
\* when it is killed, authorised, or has its page deleted.
LEMMA DueStays ==
    ASSUME NEW p \in Page
    PROVE  IInv /\ Due(p) /\ [Next]_vars => Due(p)' \/ (~busy[p] \/ crashed # "no")'
<1> SUFFICES ASSUME IInv, Due(p), [Next]_vars
             PROVE  Due(p)' \/ (~busy[p] \/ crashed # "no")'
  OBVIOUS
<1> USE DEF IInv, TypeOK, StartIsFree, Due, Page
<1>1. CASE StartBackup \/ StartRecovery
  BY <1>1 DEF StartBackup, StartRecovery, Start
<1>2. CASE Authorise
  BY <1>2 DEF Authorise
<1>3. CASE RebuildPages \/ Relaunch
  BY <1>3 DEF RebuildPages, Relaunch, FreshPages
<1>4. ASSUME NEW q \in Page, Launch(q) \/ CancelFailed(q)
      PROVE  Due(p)' \/ (~busy[p] \/ crashed # "no")'
  BY <1>4 DEF Launch, CancelFailed
<1>5. ASSUME NEW q \in Page, ChildEnds(q) \/ CancelEnded(q)
      PROVE  Due(p)' \/ (~busy[p] \/ crashed # "no")'
  BY <1>5 DEF ChildEnds, CancelEnded, Finished, Frees
<1>6. ASSUME NEW q \in Page, CancelTimedOut(q)
      PROVE  Due(p)' \/ (~busy[p] \/ crashed # "no")'
  BY <1>6 DEF CancelTimedOut
<1>7. CASE UNCHANGED vars
  BY <1>7 DEF vars, pageVars
<1> QED
  BY <1>1, <1>2, <1>3, <1>4, <1>5, <1>6, <1>7 DEF Next

LEMMA EndFrees ==
    ASSUME NEW p \in Page
    PROVE  IInv /\ <<ChildEnds(p)>>_vars => (~busy[p])'
BY DEF IInv, TypeOK, ChildEnds, Finished, Frees

\* A command that has started ends and frees its page, or the program crashes,
\* if commands come to an end (FairSpec), whatever is done to it meanwhile.
THEOREM WhatStartedEnds == FairSpec /\ []GuardsTell => StartedEnds
<1>1. ASSUME NEW p \in Page PROVE FairSpec /\ []GuardsTell => Ends(p)
  <2>1. Due(p) /\ IInv /\ [Next]_vars => Due(p)' \/ (~busy[p] \/ crashed # "no")'
    BY DueStays
  <2>2. IInv /\ <<ChildEnds(p)>>_vars => (~busy[p])'
    BY EndFrees
  <2>3. GuardsTell => (Due(p) => ENABLED <<ChildEnds(p)>>_vars)
    BY DEF GuardsTell
  <2>4. child[p] \in {"running", "root"} => Due(p) \/ crashed # "no"
    BY DEF Due
  <2>5. FairSpec => Served(p)
    BY DEF FairSpec
  <2>6. Served(p) => WF_vars(ChildEnds(p))
    BY PTL DEF Served
  <2>7. Spec /\ WF_vars(ChildEnds(p)) /\ []GuardsTell
            => (child[p] \in {"running", "root"} ~> ~busy[p] \/ crashed # "no")
    BY <2>1, <2>2, <2>3, <2>4, Invariance, PTL DEF Spec
  <2> QED
    BY <2>5, <2>6, <2>7, PTL DEF FairSpec, Ends
<1> QED
  BY <1>1 DEF StartedEnds
=============================================================================
