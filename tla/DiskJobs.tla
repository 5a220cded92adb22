------------------------------ MODULE DiskJobs ------------------------------
(***************************************************************************)
(* The two pages that run one long command of their own as a QProcess:     *)
(* "backup" mirrors the home folder with rsync, "recovery" carves a disk   *)
(* with PhotoRec behind pkexec.  Each greys its buttons while the command  *)
(* runs, waits up to two seconds on the GUI thread when asked to cancel,   *)
(* and is deleted and built anew when the language changes.                *)
(*                                                                         *)
(* Abstractions.  A device name is the disk and the partition it stands    *)
(* for and the form it is written in.  Progress, exit codes, file types    *)
(* and the sorting of what was recovered are left out, and so is what      *)
(* becomes of a command that outlives its page.                            *)
(***************************************************************************)
EXTENDS Naturals

CONSTANTS
    Disk,
    Nvme,       \* the disks whose own name ends in a digit: nvme0n1, not sda
    MaxPart,    \* partitions of a disk
    Unknown     \* findmnt says nothing

ASSUME DisksAssumption == Nvme \subseteq Disk /\ MaxPart \in Nat

Page == {"backup", "recovery"}

\* A "plain" name is /dev/sda2, or /dev/sda for partition 0; a "subvol" is
\* what findmnt says of a btrfs one, /dev/sda2[/home]; a "mapper" hides disk
\* and partition, /dev/mapper/luks-home.
Name   == [disk : Disk, part : 0 .. MaxPart, form : {"plain", "subvol", "mapper"}]
Source == {n \in Name : n.form = "plain"}   \* lsblk's partitions and disks
NoRecovery == [src |-> Unknown, dest |-> Unknown]

VARIABLES
    busy,       \* setBackupRunning(), setRunning()
    child,      \* m_proc: "none" is nullptr, "failed" never started, "root" may
                \* not be signalled any more
    killed,     \* has it been sent SIGKILL?
    carving,    \* source and destination of the recovery
    crashed     \* what the program crashed in

pageVars == <<busy, child, killed, carving>>
vars == <<pageVars, crashed>>

TypeOK ==
    /\ busy \in [Page -> BOOLEAN]
    /\ child \in [Page -> {"none", "starting", "running", "root", "failed"}]
    /\ child["backup"] # "root"
    /\ killed \in [Page -> BOOLEAN]
    /\ carving \in [src : Source, dest : Name \cup {Unknown}] \cup {NoRecovery}
    /\ crashed \in {"no", "cancel", "rebuild"}

Alive(p) == child[p] \in {"starting", "running", "root"}

-----------------------------------------------------------------------------
(* Where recovered files may go *)

\* baseDisk(): cut the digits at the end, then a "p".  A name that does not end
\* in a partition's number is left as it is, and nvme0n1 becomes nvme0n.
BaseDisk(n) ==
    CASE n.form # "plain" -> [name |-> n, cut |-> FALSE]
      [] n.form = "plain" /\ n.part = 0 /\ n.disk \in Nvme -> [name |-> n.disk, cut |-> TRUE]
      [] OTHER -> [name |-> n.disk, cut |-> FALSE]

\* Mistake: the names are compared, and not the disks.
RefusedByName(dest, src) == dest = src

\* startRecovery()'s safety check.
Refused(dest, src) ==
    /\ dest # Unknown
    /\ dest = src \/ BaseDisk(dest) = BaseDisk(src)

-----------------------------------------------------------------------------
(* The pages *)

Start(p) ==
    /\ ~busy[p]
    /\ busy' = [busy EXCEPT ![p] = TRUE]
    /\ child' = [child EXCEPT ![p] = "starting"]
    /\ killed' = [killed EXCEPT ![p] = FALSE]
    /\ UNCHANGED crashed

\* startBackup(), the mirror mode having been confirmed.
StartBackup ==
    /\ crashed = "no"
    /\ Start("backup")
    /\ UNCHANGED carving

\* startRecovery(), a mounted source having been accepted.
StartRecovery ==
    /\ crashed = "no"
    /\ \E src \in Source, dest \in Name \cup {Unknown} :
         /\ ~Refused(dest, src)
         /\ carving' = [src |-> src, dest |-> dest]
    /\ Start("recovery")

\* Mistake: the page stays as it is after a command that was killed.
FreesOnlyUnlessKilled(p) == ~killed[p]

\* Does the slot of QProcess::finished free the page?  (Of every end of a
\* command, whatever its exit code.)
Frees(p) == TRUE

Finished(p) ==
    /\ busy' = [busy EXCEPT ![p] = ~Frees(p)]
    /\ child' = [child EXCEPT ![p] = "none"]
    /\ killed' = [killed EXCEPT ![p] = FALSE]
    /\ carving' = IF p = "recovery" THEN NoRecovery ELSE carving

\* finished() from the event loop.
ChildEnds(p) ==
    /\ crashed = "no"
    /\ child[p] \in {"running", "root"}
    /\ Finished(p)
    /\ UNCHANGED crashed

\* Mistake: rsync, too, is run through pkexec.
LaunchAsRoot(p) ==
    /\ crashed = "no"
    /\ child[p] = "starting"
    /\ \E state \in {"root", "failed"} : child' = [child EXCEPT ![p] = state]
    /\ UNCHANGED <<busy, killed, carving, crashed>>

\* The command has been executed, or could not be: then errorOccurred() is all
\* that is emitted, and nobody listens to it.
Launch(p) ==
    /\ crashed = "no"
    /\ child[p] = "starting"
    /\ \E state \in {"running", "failed"} : child' = [child EXCEPT ![p] = state]
    /\ UNCHANGED <<busy, killed, carving, crashed>>

\* pkexec has been given the password and becomes root's.
Authorise ==
    /\ crashed = "no"
    /\ child["recovery"] = "running" /\ ~killed["recovery"]
    /\ child' = [child EXCEPT !["recovery"] = "root"]
    /\ UNCHANGED <<busy, killed, carving, crashed>>

\* cancelBackup(), cancelRecovery(): terminate() and waitForFinished(2000).
\* The command ends in these two seconds: finished() is emitted inside the
\* wait, its slot clears m_proc, and the next line asks nullptr for its state.
CancelEnded(p) ==
    /\ crashed = "no"
    /\ busy[p] /\ Alive(p)
    /\ Finished(p)
    /\ crashed' = "cancel"

\* Mistake: the page is freed as soon as the command is told to end.
CancelFreesAtOnce(p) ==
    /\ crashed = "no"
    /\ busy[p] /\ child[p] \in {"running", "root"}
    /\ killed' = [killed EXCEPT ![p] = (child[p] = "running")]
    /\ busy' = [busy EXCEPT ![p] = FALSE]
    /\ UNCHANGED <<child, carving, crashed>>

\* It does not: what can be signalled is killed, and ends later.
CancelTimedOut(p) ==
    /\ crashed = "no"
    /\ busy[p] /\ child[p] \in {"running", "root"}
    /\ killed' = [killed EXCEPT ![p] = (child[p] = "running")]
    /\ UNCHANGED <<busy, child, carving, crashed>>

\* A FailedToStart inside the wait leaves m_proc where it was.
CancelFailed(p) ==
    /\ crashed = "no"
    /\ busy[p] /\ child[p] = "starting"
    /\ child' = [child EXCEPT ![p] = "failed"]
    /\ UNCHANGED <<busy, killed, carving, crashed>>

FreshPages ==
    /\ busy' = [p \in Page |-> FALSE]
    /\ child' = [p \in Page |-> "none"]
    /\ killed' = [p \in Page |-> FALSE]
    /\ carving' = NoRecovery

\* The language changes: both destructors kill their command and wait a second
\* for it.  One that takes longer is waited for again by ~QProcess, among
\* widgets already deleted, and the slot of its finished() uses them.
RebuildPages ==
    /\ crashed = "no"
    /\ FreshPages
    /\ crashed' \in {"no"} \cup (IF \E p \in Page : Alive(p) THEN {"rebuild"} ELSE {})

\* The user starts the program again.
Relaunch ==
    /\ crashed # "no"
    /\ FreshPages
    /\ crashed' = "no"

-----------------------------------------------------------------------------
Init ==
    /\ busy = [p \in Page |-> FALSE]
    /\ child = [p \in Page |-> "none"]
    /\ killed = [p \in Page |-> FALSE]
    /\ carving = NoRecovery
    /\ crashed = "no"

Next ==
    \/ StartBackup \/ StartRecovery \/ Authorise \/ RebuildPages \/ Relaunch
    \/ \E p \in Page :
         \/ Launch(p) \/ ChildEnds(p)
         \/ CancelEnded(p) \/ CancelTimedOut(p) \/ CancelFailed(p)

Spec == Init /\ [][Next]_vars

\* A command that has started comes to an end: there is so much to copy or to
\* carve and no more, and the user answers pkexec or the agent gives up.
Served(p) == WF_vars(ChildEnds(p))

FairSpec == Spec /\ \A p \in Page : Served(p)

-----------------------------------------------------------------------------
(* Properties *)

\* Start is enabled only when the page has no command left: m_proc is never
\* overwritten while a command runs, and a page is busy for a reason.
StartIsFree == crashed = "no" => \A p \in Page : busy[p] <=> child[p] # "none"

\* The names baseDisk() understands: sdXN, nvmeXnYpZ, and sdX.
Understood(n) == n # Unknown /\ n.form = "plain" /\ (n.part > 0 \/ n.disk \notin Nvme)

\* Files are recovered to another disk, as far as baseDisk() understands names.
UnderstoodIsElsewhere ==
    carving # NoRecovery /\ Understood(carving.src) /\ Understood(carving.dest)
        => carving.dest.disk # carving.src.disk

\* Of one page: its command ends.
Ends(p) == child[p] \in {"running", "root"} ~> ~busy[p] \/ crashed # "no"

\* A command that has started ends and frees its page, whatever is cancelled,
\* killed or refused meanwhile, unless the program crashes.  (One that could
\* not be started never frees it.)
StartedEnds == \A p \in Page : Ends(p)

-----------------------------------------------------------------------------
(* What the repository says of the pages, and the code does not do *)

\* "Safety: never write the recovered files onto the device being carved"
\* (recovery_page.cpp:182).
NeverOntoItsSource ==
    carving # NoRecovery /\ carving.dest # Unknown => carving.dest.disk # carving.src.disk

\* "with live progress and a Cancel button" (backup_page.h:22): cancelling
\* would not crash the program.
CancelSurvives == crashed # "cancel"
=============================================================================
