--------------------------- MODULE SelfUpdateProofs ---------------------------
(***************************************************************************)
(* Theorems about the updater, for any number of releases.  IInv is the    *)
(* inductive invariant: what each phase of an attempt may rely on, and     *)
(* when the program's path may be without a file.                          *)
(***************************************************************************)
EXTENDS SelfUpdate, TLAPS

-----------------------------------------------------------------------------
(* The inductive invariant *)

\* An attempt is for a release, and ends with the program.
AttemptRuns == phase # "idle" => app /\ release \in Release

\* From the verification to the rename that puts it in place, the downloaded
\* file is the release asked for; after that rename it is the program.
Verified ==
    /\ phase \in Installing \ {"cleanup"} => pkg = release
    /\ phase = "cleanup" => target = release

\* The path is empty between the two renames and, while the program runs, never
\* else but after a restore that failed.
EmptyBetweenRenames ==
    /\ phase \in {"place", "restore"} => target = None
    /\ app /\ target = None => stuck \/ phase \in {"place", "restore"}

\* A Cancel during the downloads ends the attempt; a later one is late.
CancelSeen ==
    /\ phase \in Downloading => ~cancelled
    /\ phase \in {"verify"} \cup Installing /\ cancelled => late

\* Only an AppImage is replaced by renames, and only its restore leaves the
\* updater stuck; only a package is left to a package manager.
OnlyAppImages ==
    /\ ~appImage => ~stuck /\ phase \notin {"aside", "place", "restore", "cleanup"}
    /\ appImage => unattended = {}

IInv ==
    /\ TypeOK /\ AttemptRuns /\ Verified /\ CancelSeen /\ OnlyAppImages
    /\ EmptyBetweenRenames /\ Survives

-----------------------------------------------------------------------------
(* Preservation *)

\* The sets of phases, spelt out.
LEMMA Phases ==
    /\ \A x : x \in Downloading <=> x = "package" \/ x = "sums"
    /\ \A x : x \in Installing <=> \/ x = "install" \/ x = "aside" \/ x = "place"
                                   \/ x = "restore" \/ x = "cleanup"
  BY DEF Downloading, Installing

\* A file that holds a release is there.
LEMMA ReleasesAreFiles ==
    /\ 0 \in Image /\ None \notin Image
    /\ None \notin Release /\ Release \subseteq Image
    /\ Partial \notin Image /\ Partial \notin Release /\ None # Partial
  BY ReleaseAssumption DEF None, Partial, Image, Release

\* The types are preserved.
LEMMA TypeStep ==
    ASSUME IInv, [Next]_vars
    PROVE  TypeOK'
  <1> USE Phases, ReleasesAreFiles
  <1> USE DEF IInv, TypeOK, AttemptRuns, Verified
  <1>1. CASE Launch
    BY <1>1 DEF Launch, diskVars, attemptVars
  <1>2. CASE Die
    BY <1>2 DEF Die, AtWork, attemptVars
  <1>3. CASE UserRestores
    BY <1>3 DEF UserRestores, programVars, attemptVars
  <1>4. CASE UserReinstalls
    BY <1>4 DEF UserReinstalls, programVars, attemptVars
  <1>5. CASE \E v \in Release : Start(v)
    BY <1>5 DEF Start, Supported, Finish, programVars
  <1>6. CASE PackageArrives
    BY <1>6 DEF PackageArrives, Proceed, Finish, programVars
  <1>7. CASE SumsArrive
    BY <1>7 DEF SumsArrive, programVars, attemptVars
  <1>8. CASE DownloadFails
    BY <1>8 DEF DownloadFails, CutShort, Finish, programVars
  <1>9. CASE Cancel
    BY <1>9 DEF Cancel, CancelDownload, CancelVerify, programVars, CutShort,
                Finish
  <1>10. CASE Verify
    BY <1>10 DEF Verify, Matches, Proceed, Finish, programVars
  <1>11. CASE InstallPackage
    BY <1>11 DEF InstallPackage, Finish, frameInstall, programVars
  <1>12. CASE RemoveBackup
    BY <1>12 DEF RemoveBackup, Proceed, frameInstall, programVars
  <1>13. CASE MoveAside
    BY <1>13 DEF MoveAside, Proceed, Finish, frameInstall, programVars
  <1>14. CASE Place
    BY <1>14 DEF Place, Proceed, frameInstall, programVars
  <1>15. CASE Restore
    BY <1>15 DEF Restore, Finish, frameInstall, programVars
  <1>16. CASE CleanUp
    BY <1>16 DEF CleanUp, Finish, frameInstall, programVars
  <1>17. CASE UNCHANGED vars
    BY <1>17 DEF vars, diskVars, programVars, attemptVars
  <1>18. CASE \E v \in Release : ManagerEnds(v)
    BY <1>18 DEF ManagerEnds, programVars, attemptVars
  <1> QED
    BY <1>1, <1>2, <1>3, <1>4, <1>5, <1>6, <1>7, <1>8, <1>9, <1>10, <1>11,
       <1>12, <1>13, <1>14, <1>15, <1>16, <1>17, <1>18 DEF Next

\* What the phases rely on is preserved.
LEMMA PhaseStep ==
    ASSUME IInv, [Next]_vars
    PROVE  (AttemptRuns /\ Verified /\ CancelSeen /\ OnlyAppImages)'
  <1> USE Phases, ReleasesAreFiles
  <1> USE DEF IInv, TypeOK, AttemptRuns, Verified, CancelSeen, OnlyAppImages
  <1>1. CASE Launch
    BY <1>1 DEF Launch, diskVars, attemptVars
  <1>2. CASE Die
    BY <1>2 DEF Die, AtWork, attemptVars
  <1>3. CASE UserRestores
    BY <1>3 DEF UserRestores, programVars, attemptVars
  <1>4. CASE UserReinstalls
    BY <1>4 DEF UserReinstalls, programVars, attemptVars
  <1>5. CASE \E v \in Release : Start(v)
    BY <1>5 DEF Start, Supported, Finish, programVars
  <1>6. CASE PackageArrives
    BY <1>6 DEF PackageArrives, Proceed, Finish, programVars
  <1>7. CASE SumsArrive
    BY <1>7 DEF SumsArrive, programVars, attemptVars
  <1>8. CASE DownloadFails
    BY <1>8 DEF DownloadFails, CutShort, Finish, programVars
  <1>9. CASE Cancel
    BY <1>9 DEF Cancel, CancelDownload, CancelVerify, programVars, CutShort,
                Finish
  <1>10. CASE Verify
    BY <1>10 DEF Verify, Matches, Proceed, Finish, programVars
  <1>11. CASE InstallPackage
    BY <1>11 DEF InstallPackage, Finish, frameInstall, programVars
  <1>12. CASE RemoveBackup
    BY <1>12 DEF RemoveBackup, Proceed, frameInstall, programVars
  <1>13. CASE MoveAside
    BY <1>13 DEF MoveAside, Proceed, Finish, frameInstall, programVars
  <1>14. CASE Place
    BY <1>14 DEF Place, Proceed, frameInstall, programVars
  <1>15. CASE Restore
    BY <1>15 DEF Restore, Finish, frameInstall, programVars
  <1>16. CASE CleanUp
    BY <1>16 DEF CleanUp, Finish, frameInstall, programVars
  <1>17. CASE UNCHANGED vars
    BY <1>17 DEF vars, diskVars, programVars, attemptVars
  <1>18. CASE \E v \in Release : ManagerEnds(v)
    BY <1>18 DEF ManagerEnds, programVars, attemptVars
  <1> QED
    BY <1>1, <1>2, <1>3, <1>4, <1>5, <1>6, <1>7, <1>8, <1>9, <1>10, <1>11,
       <1>12, <1>13, <1>14, <1>15, <1>16, <1>17, <1>18 DEF Next

\* So is what is said of the program's path.
LEMMA FileStep ==
    ASSUME IInv, [Next]_vars
    PROVE  (EmptyBetweenRenames /\ Survives)'
  <1> USE Phases, ReleasesAreFiles
  <1> USE DEF IInv, TypeOK, AttemptRuns, Verified, OnlyAppImages, EmptyBetweenRenames,
              Survives
  <1>1. CASE Launch
    BY <1>1 DEF Launch, diskVars, attemptVars
  <1>2. CASE Die
    BY <1>2 DEF Die, AtWork, attemptVars
  <1>3. CASE UserRestores
    BY <1>3 DEF UserRestores, programVars, attemptVars
  <1>4. CASE UserReinstalls
    BY <1>4 DEF UserReinstalls, programVars, attemptVars
  <1>5. CASE \E v \in Release : Start(v)
    BY <1>5 DEF Start, Supported, Finish, programVars
  <1>6. CASE PackageArrives
    BY <1>6 DEF PackageArrives, Proceed, Finish, programVars
  <1>7. CASE SumsArrive
    BY <1>7 DEF SumsArrive, programVars, attemptVars
  <1>8. CASE DownloadFails
    BY <1>8 DEF DownloadFails, CutShort, Finish, programVars
  <1>9. CASE Cancel
    BY <1>9 DEF Cancel, CancelDownload, CancelVerify, programVars, CutShort,
                Finish
  <1>10. CASE Verify
    BY <1>10 DEF Verify, Matches, Proceed, Finish, programVars
  <1>11. CASE InstallPackage
    BY <1>11 DEF InstallPackage, Finish, frameInstall, programVars
  <1>12. CASE RemoveBackup
    BY <1>12 DEF RemoveBackup, Proceed, frameInstall, programVars
  <1>13. CASE MoveAside
    BY <1>13 DEF MoveAside, Proceed, Finish, frameInstall, programVars
  <1>14. CASE Place
    BY <1>14 DEF Place, Proceed, frameInstall, programVars
  <1>15. CASE Restore
    BY <1>15 DEF Restore, Finish, frameInstall, programVars
  <1>16. CASE CleanUp
    BY <1>16 DEF CleanUp, Finish, frameInstall, programVars
  <1>17. CASE UNCHANGED vars
    BY <1>17 DEF vars, diskVars, programVars, attemptVars
  <1>18. CASE \E v \in Release : ManagerEnds(v)
    BY <1>18 DEF ManagerEnds, programVars, attemptVars
  <1> QED
    BY <1>1, <1>2, <1>3, <1>4, <1>5, <1>6, <1>7, <1>8, <1>9, <1>10, <1>11,
       <1>12, <1>13, <1>14, <1>15, <1>16, <1>17, <1>18 DEF Next

LEMMA InitIInv == Init => IInv
  BY Phases, ReleasesAreFiles
     DEF Init, IInv, TypeOK, AttemptRuns, Verified, CancelSeen, OnlyAppImages,
         EmptyBetweenRenames, Survives

\* IInv holds in every reachable state.
THEOREM Invariance == Spec => []IInv
  <1>1. IInv /\ [Next]_vars => IInv'
    BY TypeStep, PhaseStep, FileStep DEF IInv
  <1> QED
    BY <1>1, InitIInv, PTL DEF Spec

\* Every variable keeps its type: no file ever holds what no release published.
THEOREM TypeCorrect == Spec => []TypeOK
  <1>1. IInv => TypeOK
    BY DEF IInv
  <1> QED
    BY <1>1, Invariance, PTL

\* There is always an image to run, or to give its name back, unless nothing is in
\* place since a restore failed.
THEOREM SomethingSurvives == Spec => []Survives
  <1>1. IInv => Survives
    BY DEF IInv
  <1> QED
    BY <1>1, Invariance, PTL

-----------------------------------------------------------------------------
(* What a step may do to the program *)

\* What can be run changes only by installing, to the release asked for, or when
\* a package manager that was left the release is done.
LEMMA UsableStep ==
    ASSUME IInv, [Next]_vars
    PROVE  /\ \/ stuck \/ Usable' = Usable
              \/ Usable' = release /\ phase \in Installing
              \/ Usable' \in unattended \ unattended'
           /\ \/ unattended' \subseteq unattended
              \/ unattended' = unattended \cup {release} /\ phase \in Installing
  <1> USE Phases, ReleasesAreFiles
  <1> USE DEF IInv, TypeOK, AttemptRuns, Verified, OnlyAppImages, EmptyBetweenRenames,
              Survives, Usable
  <1>1. CASE Launch
    BY <1>1 DEF Launch, diskVars, attemptVars
  <1>2. CASE Die
    BY <1>2 DEF Die, AtWork, attemptVars
  <1>3. CASE UserRestores
    BY <1>3 DEF UserRestores, programVars, attemptVars
  <1>4. CASE UserReinstalls
    BY <1>4 DEF UserReinstalls, programVars, attemptVars
  <1>5. CASE \E v \in Release : Start(v)
    BY <1>5 DEF Start, Supported, Finish, programVars
  <1>6. CASE PackageArrives
    BY <1>6 DEF PackageArrives, Proceed, Finish, programVars
  <1>7. CASE SumsArrive
    BY <1>7 DEF SumsArrive, programVars, attemptVars
  <1>8. CASE DownloadFails
    BY <1>8 DEF DownloadFails, CutShort, Finish, programVars
  <1>9. CASE Cancel
    BY <1>9 DEF Cancel, CancelDownload, CancelVerify, programVars, CutShort,
                Finish
  <1>10. CASE Verify
    BY <1>10 DEF Verify, Matches, Proceed, Finish, programVars
  <1>11. CASE InstallPackage
    BY <1>11 DEF InstallPackage, Finish, frameInstall, programVars
  <1>12. CASE RemoveBackup
    BY <1>12 DEF RemoveBackup, Proceed, frameInstall, programVars
  <1>13. CASE MoveAside
    BY <1>13 DEF MoveAside, Proceed, Finish, frameInstall, programVars
  <1>14. CASE Place
    BY <1>14 DEF Place, Proceed, frameInstall, programVars
  <1>15. CASE Restore
    BY <1>15 DEF Restore, Finish, frameInstall, programVars
  <1>16. CASE CleanUp
    BY <1>16 DEF CleanUp, Finish, frameInstall, programVars
  <1>17. CASE UNCHANGED vars
    BY <1>17 DEF vars, diskVars, programVars, attemptVars
  <1>18. CASE \E v \in Release : ManagerEnds(v)
    BY <1>18 DEF ManagerEnds, programVars, attemptVars
  <1> QED
    BY <1>1, <1>2, <1>3, <1>4, <1>5, <1>6, <1>7, <1>8, <1>9, <1>10, <1>11,
       <1>12, <1>13, <1>14, <1>15, <1>16, <1>17, <1>18 DEF Next

\* What the user can run changes only to the whole, verified package of the
\* requested release, in one step; and only such a package is ever left to a
\* package manager that nobody waits for.
THEOREM OnlyVerifiedInstalled == Spec => ChangesOnlyToVerified
  <1>1. IInv /\ [Next]_vars =>
          [/\ \/ stuck \/ Usable' = Usable
              \/ Usable' = release /\ phase \in Installing
              \/ Usable' \in unattended \ unattended'
           /\ \/ unattended' \subseteq unattended
              \/ unattended' = unattended \cup {release} /\ phase \in Installing]_vars
    BY UsableStep
  <1> QED
    BY <1>1, Invariance, PTL DEF Spec, ChangesOnlyToVerified

\* A Cancel that comes in time is obeyed: nothing is installed after it.
THEOREM CancelObeyed == Spec => CancelInTime
  <1>1. ASSUME IInv, [Next]_vars
        PROVE  Takes /\ ~stuck => ~cancelled \/ late
    BY <1>1, UsableStep DEF Takes, IInv, CancelSeen
  <1>2. IInv /\ [Next]_vars => [Takes /\ ~stuck => ~cancelled \/ late]_vars
    BY <1>1
  <1> QED
    BY <1>2, Invariance, PTL DEF Spec, CancelInTime

\* "Updated to ..." is said only with the release in place.
THEOREM SaysWhatIsSo == Spec => SaidTruly
  <1>1. ASSUME IInv, Next, told # "updated", told' = "updated"
        PROVE  target' = release
    <2> USE Phases, ReleasesAreFiles
    <2> USE DEF IInv, Verified
    <2>1. CASE Launch
      BY <1>1, <2>1 DEF Launch, diskVars, attemptVars
    <2>2. CASE Die
      BY <1>1, <2>2 DEF Die, AtWork, attemptVars
    <2>3. CASE UserRestores
      BY <1>1, <2>3 DEF UserRestores, programVars, attemptVars
    <2>4. CASE UserReinstalls
      BY <1>1, <2>4 DEF UserReinstalls, programVars, attemptVars
    <2>5. CASE \E v \in Release : Start(v)
      BY <1>1, <2>5 DEF Start, Supported, Finish, programVars
    <2>6. CASE PackageArrives
      BY <1>1, <2>6 DEF PackageArrives, Proceed, Finish, programVars
    <2>7. CASE SumsArrive
      BY <1>1, <2>7 DEF SumsArrive, programVars, attemptVars
    <2>8. CASE DownloadFails
      BY <1>1, <2>8 DEF DownloadFails, CutShort, Finish, programVars
    <2>9. CASE Cancel
      BY <1>1, <2>9 DEF Cancel, CancelDownload, CancelVerify, programVars,
                        CutShort, Finish
    <2>10. CASE Verify
      BY <1>1, <2>10 DEF Verify, Matches, Proceed, Finish, programVars
    <2>11. CASE InstallPackage
      BY <1>1, <2>11 DEF InstallPackage, Finish, frameInstall, programVars
    <2>12. CASE RemoveBackup
      BY <1>1, <2>12 DEF RemoveBackup, Proceed, frameInstall, programVars
    <2>13. CASE MoveAside
      BY <1>1, <2>13 DEF MoveAside, Proceed, Finish, frameInstall, programVars
    <2>14. CASE Place
      BY <1>1, <2>14 DEF Place, Proceed, frameInstall, programVars
    <2>15. CASE Restore
      BY <1>1, <2>15 DEF Restore, Finish, frameInstall, programVars
    <2>16. CASE CleanUp
      BY <1>1, <2>16 DEF CleanUp, Finish, frameInstall, programVars
    <2>17. CASE \E v \in Release : ManagerEnds(v)
      BY <1>1, <2>17 DEF ManagerEnds
    <2> QED
      BY <1>1, <2>1, <2>2, <2>3, <2>4, <2>5, <2>6, <2>7, <2>8, <2>9, <2>10,
               <2>11, <2>12, <2>13, <2>14, <2>15, <2>16, <2>17 DEF Next
  <1>2. IInv /\ [Next]_vars => [told # "updated" /\ told' = "updated" => target' = release]_vars
    BY <1>1
  <1> QED
    BY <1>2, Invariance, PTL DEF Spec, SaidTruly

-----------------------------------------------------------------------------
(* The promise *)

\* Every step of the updater, of the user and of the machine is a step of the
\* promise, or changes nothing the promise speaks of.
LEMMA PromiseStep ==
    ASSUME IInv, [Next]_vars
    PROVE  [Promise!Next]_(Promise!vars)
  <1> USE Phases, ReleasesAreFiles
  <1> USE DEF IInv, TypeOK, AttemptRuns, Verified, OnlyAppImages, EmptyBetweenRenames,
              Survives, Usable, Finish, Proceed, programVars
  <1>0. ASSUME UNCHANGED <<Usable, stuck, phase, release, told, appImage, unattended>>
        PROVE  UNCHANGED Promise!vars
    BY <1>0 DEF Promise!vars
  <1>1. CASE Launch
    BY <1>0, <1>1 DEF Launch, diskVars, attemptVars
  <1>2. CASE Die
    <2>1. /\ phase' = "idle" /\ UNCHANGED <<Usable, stuck, release, told, appImage>>
          /\ \/ UNCHANGED unattended
             \/ AtWork /\ unattended' = unattended \cup {pkg}
      BY <1>2 DEF Die, attemptVars
    <2>2. CASE UNCHANGED unattended
      BY <2>1, <2>2 DEF Promise!Next, Promise!Die, Promise!vars
    <2>3. CASE AtWork /\ unattended' = unattended \cup {pkg}
      BY <2>1, <2>3 DEF AtWork, Promise!Next, Promise!Abandon
    <2> QED
      BY <2>1, <2>2, <2>3
  <1>3. CASE UserRestores \/ UserReinstalls
    <2>1. /\ phase = "idle" /\ UNCHANGED <<phase, release, told, appImage, unattended>>
          /\ stuck' = FALSE
      BY <1>3 DEF UserRestores, UserReinstalls, attemptVars
    <2>2. CASE stuck
      <3>1. Usable' \in (IF Usable = None THEN Image ELSE {Usable})
        BY <1>3 DEF UserRestores, UserReinstalls
      <3> QED
        BY <2>1, <2>2, <3>1 DEF Promise!Next, Promise!Repair
    <2>3. CASE ~stuck
      <3>1. UNCHANGED Usable
        BY <1>3, <2>3 DEF UserRestores, UserReinstalls
      <3> QED
        BY <1>0, <2>1, <2>3, <3>1
    <2> QED
      BY <2>2, <2>3
  <1>4. CASE \E v \in Release : Start(v)
    <2>1. PICK v \in Release : Start(v)
      BY <1>4
    <2>2. /\ phase = "idle" /\ release' = v
          /\ UNCHANGED <<Usable, stuck, appImage, unattended>>
          /\ \/ phase' = "package" /\ told' = "nothing"
             \/ phase' = "idle" /\ told' = "failed"
      BY <2>1 DEF Start, programVars
    <2> QED
      BY <2>2 DEF Promise!Next, Promise!Begin
  <1>5. ASSUME phase \notin {"idle", "cleanup"}, phase' = "idle", told' = "failed",
               stuck' \in {stuck, TRUE},
               UNCHANGED <<Usable, release, appImage, unattended>>
        PROVE  Promise!Next
    BY <1>5 DEF Promise!Next, Promise!Fail
  <1>6. ASSUME phase \notin {"idle", "cleanup"}, phase' \notin {"idle", "cleanup"},
               UNCHANGED <<Usable, stuck, release, told, appImage, unattended>>
        PROVE  UNCHANGED Promise!vars
    BY <1>6 DEF Promise!vars
  <1>7. CASE PackageArrives \/ SumsArrive \/ DownloadFails
    BY <1>5, <1>6, <1>7 DEF PackageArrives, SumsArrive, DownloadFails, attemptVars
  <1>8. CASE Cancel
    BY <1>5, <1>6, <1>8 DEF Cancel, CancelDownload, CancelVerify
  <1>9. CASE Verify
    BY <1>5, <1>6, <1>9 DEF Verify
  <1>10. CASE InstallPackage
    <2>1. /\ phase = "install" /\ phase' = "idle" /\ ~appImage /\ ~stuck
          /\ UNCHANGED <<stuck, release, appImage>>
          /\ \/ /\ Usable' = release /\ UNCHANGED unattended
                /\ told' \in {"updated", "failed"}
             \/ /\ UNCHANGED Usable /\ unattended' = unattended \cup {release}
                /\ told' = "failed"
             \/ UNCHANGED <<Usable, unattended>> /\ told' = "failed"
      BY <1>10 DEF InstallPackage, frameInstall
    <2>2. CASE Usable' = release /\ UNCHANGED unattended /\ told' = "updated"
      BY <2>1, <2>2 DEF Promise!Next, Promise!Install
    <2>3. CASE Usable' = release /\ UNCHANGED unattended /\ told' = "failed"
      BY <2>1, <2>3 DEF Promise!Next, Promise!FailInstalled
    <2>4. CASE /\ UNCHANGED Usable /\ unattended' = unattended \cup {release}
               /\ told' = "failed"
      BY <2>1, <2>4 DEF Promise!Next, Promise!Abandon
    <2>5. CASE UNCHANGED <<Usable, unattended>> /\ told' = "failed"
      BY <1>5, <2>1, <2>5
    <2> QED
      BY <2>1, <2>2, <2>3, <2>4, <2>5
  <1>11. CASE RemoveBackup
    <2>1. CASE UNCHANGED Usable
      BY <1>6, <1>11, <2>1 DEF RemoveBackup, frameInstall
    <2>2. CASE Usable' # Usable
      <3>1. /\ stuck /\ phase = "install" /\ phase' = "aside" /\ Usable' = None
            /\ UNCHANGED <<stuck, release, told, appImage, unattended>>
        BY <1>11, <2>2 DEF RemoveBackup, frameInstall
      <3> QED
        BY <3>1 DEF Promise!Next, Promise!Lose
    <2> QED
      BY <2>1, <2>2
  <1>12. CASE MoveAside
    BY <1>5, <1>6, <1>12 DEF MoveAside, frameInstall
  <1>13. CASE Place
    <2>1. CASE phase' = "restore"
      BY <1>6, <1>13, <2>1 DEF Place, frameInstall
    <2>2. CASE phase' # "restore"
      <3>1. /\ phase = "place" /\ phase' = "cleanup" /\ Usable' = release
            /\ stuck' = FALSE /\ UNCHANGED <<release, told, appImage, unattended>>
        BY <1>13, <2>2 DEF Place, frameInstall
      <3> QED
        BY <3>1 DEF Promise!Next, Promise!Install
    <2> QED
      BY <2>1, <2>2
  <1>14. CASE Restore
    BY <1>5, <1>14 DEF Restore, frameInstall
  <1>15. CASE CleanUp
    <2>1. /\ phase = "cleanup" /\ phase' = "idle" /\ told' = "updated"
          /\ UNCHANGED <<Usable, stuck, release, appImage, unattended>>
      BY <1>15 DEF CleanUp, frameInstall
    <2> QED
      BY <2>1 DEF Promise!Next, Promise!Confirm
  <1>16. CASE UNCHANGED vars
    BY <1>0, <1>16 DEF vars, diskVars, attemptVars
  <1>17. CASE \E v \in Release : ManagerEnds(v)
    <2>1. PICK v \in Release : ManagerEnds(v)
      BY <1>17
    <2>2. /\ v \in unattended /\ unattended' = unattended \ {v}
          /\ Usable' \in {Usable, v}
          /\ UNCHANGED <<stuck, phase, release, told, appImage>>
      BY <2>1 DEF ManagerEnds, attemptVars
    <2> QED
      BY <2>2 DEF Promise!Next, Promise!ManagerEnds
  <1> QED
    BY <1>1, <1>2, <1>3, <1>4, <1>7, <1>8, <1>9, <1>10, <1>11, <1>12, <1>13, <1>14,
       <1>15, <1>16, <1>17 DEF Next

\* The updater implements its promise: one change per attempt, to the release
\* asked for; "failed" is said of no AppImage's attempt that changed something, and
\* of a package's only if what changed, or still may, is the release; and no image
\* is lost but by an attempt that follows a failed restore.
THEOREM UpdaterKeepsPromise == Spec => KeepsPromise
  <1>1. Init => Promise!Init
    BY ReleasesAreFiles DEF Init, Promise!Init, Usable
  <1> QED
    BY <1>1, Invariance, PromiseStep, PTL
       DEF Spec, KeepsPromise, Promise!Spec

-----------------------------------------------------------------------------
(* Liveness *)

DownloadEnds == PackageArrives \/ SumsArrive \/ DownloadFails
HandlerRuns ==
    Verify \/ InstallPackage \/ RemoveBackup \/ MoveAside \/ Place \/ Restore \/ CleanUp

Handling == {"verify"} \cup Installing

\* ENABLED is beyond the provers: that a phase has what its handler needs stays a
\* hypothesis.  (Every handler has an outcome for every file it may find.)
GuardsTell ==
    /\ phase \in Downloading => ENABLED <<DownloadEnds>>_vars
    /\ phase \in Handling => ENABLED <<HandlerRuns>>_vars

Answered == told # "nothing" \/ ~app

\* The handlers that may be due after each, if the attempt is not over.
After == [package |-> {"sums", "verify"}, sums |-> {"verify"}, verify |-> {"install"},
          install |-> {"aside"}, aside |-> {"place"}, place |-> {"restore", "cleanup"},
          restore |-> {}, cleanup |-> {}]

\* An attempt only goes on: its phase stays, moves to one that may follow, or the
\* attempt has been answered or has gone with the program.
LEMMA OnwardOnly ==
    ASSUME IInv, [Next]_vars, phase # "idle"
    PROVE  phase' = phase \/ phase' \in After[phase] \/ Answered'
  <1> USE Phases
  <1> USE DEF IInv, TypeOK, AttemptRuns, Answered, After, Finish, Proceed
  <1>1. ~Launch /\ ~UserRestores /\ ~UserReinstalls /\ ~(\E v \in Release : Start(v))
    BY DEF Launch, UserRestores, UserReinstalls, Start
  <1>2. CASE Die
    BY <1>2 DEF Die
  <1>3. CASE PackageArrives \/ SumsArrive \/ DownloadFails
    BY <1>3 DEF PackageArrives, SumsArrive, DownloadFails
  <1>4. CASE Cancel
    BY <1>4 DEF Cancel, CancelDownload, CancelVerify
  <1>5. CASE Verify
    BY <1>5 DEF Verify
  <1>6. CASE InstallPackage \/ RemoveBackup
    BY <1>6 DEF InstallPackage, RemoveBackup
  <1>7. CASE MoveAside
    BY <1>7 DEF MoveAside
  <1>8. CASE Place
    BY <1>8 DEF Place
  <1>9. CASE Restore \/ CleanUp
    BY <1>9 DEF Restore, CleanUp
  <1>10. CASE UNCHANGED vars \/ \E v \in Release : ManagerEnds(v)
    BY <1>10 DEF vars, ManagerEnds
  <1> QED
    BY <1>1, <1>2, <1>3, <1>4, <1>5, <1>6, <1>7, <1>8, <1>9, <1>10 DEF Next

\* Every handler leaves its phase.
LEMMA HandlersMoveOn ==
    /\ IInv /\ <<DownloadEnds>>_vars => phase' # phase
    /\ IInv /\ <<HandlerRuns>>_vars => phase' # phase
  <1>1. DownloadEnds => phase' # phase
    BY Phases DEF DownloadEnds, PackageArrives, SumsArrive, DownloadFails, Finish, Proceed
  <1>2. HandlerRuns => phase' # phase
    BY Phases DEF HandlerRuns, Verify, InstallPackage, RemoveBackup, MoveAside, Place,
                  Restore, CleanUp, Finish, Proceed
  <1> QED
    BY <1>1, <1>2

\* Phase s is left for one that may follow it, or the attempt is answered.
Leaves(s) == phase = s ~> phase \in After[s] \/ Answered

LEMMA EveryPhaseIsLeft ==
    ASSUME NEW s \in Downloading \cup Handling
    PROVE  FairSpec /\ []GuardsTell => Leaves(s)
  <1>1. IInv /\ [Next]_vars /\ phase = s =>
          (phase = s)' \/ (phase \in After[s] \/ Answered)'
    <2>1. s # "idle"
      BY Phases DEF Handling
    <2> QED
      BY <2>1, OnwardOnly
  <1>2. FairSpec => Spec /\ WF_vars(DownloadEnds) /\ WF_vars(HandlerRuns)
    BY PTL DEF FairSpec, Fairness, DownloadEnds, HandlerRuns
  <1>3. CASE s \in Downloading
    <2>1. GuardsTell => (phase = s => ENABLED <<DownloadEnds>>_vars)
      BY <1>3 DEF GuardsTell
    <2>2. IInv /\ phase = s /\ <<DownloadEnds>>_vars => ~(phase = s)'
      BY HandlersMoveOn
    <2>3. Spec /\ WF_vars(DownloadEnds) /\ []GuardsTell =>
            (phase = s ~> phase \in After[s] \/ Answered)
      BY <1>1, <2>1, <2>2, Invariance, PTL DEF Spec
    <2> QED
      BY <1>2, <2>3, PTL DEF Leaves
  <1>4. CASE s \in Handling
    <2>1. GuardsTell => (phase = s => ENABLED <<HandlerRuns>>_vars)
      BY <1>4 DEF GuardsTell
    <2>2. IInv /\ phase = s /\ <<HandlerRuns>>_vars => ~(phase = s)'
      BY HandlersMoveOn
    <2>3. Spec /\ WF_vars(HandlerRuns) /\ []GuardsTell =>
            (phase = s ~> phase \in After[s] \/ Answered)
      BY <1>1, <2>1, <2>2, Invariance, PTL DEF Spec
    <2> QED
      BY <1>2, <2>3, PTL DEF Leaves
  <1> QED
    BY <1>3, <1>4

\* Every attempt is answered or goes with the program, if due handlers run and
\* downloads come to an end (FairSpec): no path through start(), the replies,
\* the verification and the renames is without its finished().
THEOREM EveryAttemptAnswered == FairSpec /\ []GuardsTell => AlwaysAnswered
  <1>1. FairSpec /\ []GuardsTell =>
          /\ Leaves("package") /\ Leaves("sums") /\ Leaves("verify") /\ Leaves("install")
          /\ Leaves("aside") /\ Leaves("place") /\ Leaves("restore") /\ Leaves("cleanup")
    <2>1. {"package", "sums", "verify", "install", "aside", "place", "restore", "cleanup"}
            \subseteq Downloading \cup Handling
      BY Phases DEF Handling
    <2> QED
      BY <2>1, EveryPhaseIsLeft
  <1>2. /\ phase \in After["package"] => phase = "sums" \/ phase = "verify"
        /\ phase \in After["sums"] => phase = "verify"
        /\ phase \in After["verify"] => phase = "install"
        /\ phase \in After["install"] => phase = "aside"
        /\ phase \in After["aside"] => phase = "place"
        /\ phase \in After["place"] => phase = "restore" \/ phase = "cleanup"
        /\ ~(phase \in After["restore"]) /\ ~(phase \in After["cleanup"])
    BY DEF After
  <1>3. TypeOK /\ phase # "idle" =>
          \/ phase = "package" \/ phase = "sums" \/ phase = "verify" \/ phase = "install"
          \/ phase = "aside" \/ phase = "place" \/ phase = "restore" \/ phase = "cleanup"
    BY Phases DEF TypeOK
  <1>4. FairSpec /\ []GuardsTell =>
          (phase = "restore" ~> Answered) /\ (phase = "cleanup" ~> Answered)
    BY <1>1, <1>2, PTL DEF Leaves
  <1>5. FairSpec /\ []GuardsTell => (phase = "place" ~> Answered)
    BY <1>1, <1>2, <1>4, PTL DEF Leaves
  <1>6. FairSpec /\ []GuardsTell => (phase = "aside" ~> Answered)
    BY <1>1, <1>2, <1>5, PTL DEF Leaves
  <1>7. FairSpec /\ []GuardsTell => (phase = "install" ~> Answered)
    BY <1>1, <1>2, <1>6, PTL DEF Leaves
  <1>8. FairSpec /\ []GuardsTell => (phase = "verify" ~> Answered)
    BY <1>1, <1>2, <1>7, PTL DEF Leaves
  <1>9. FairSpec /\ []GuardsTell => (phase = "sums" ~> Answered)
    BY <1>1, <1>2, <1>8, PTL DEF Leaves
  <1>10. FairSpec /\ []GuardsTell => (phase = "package" ~> Answered)
    BY <1>1, <1>2, <1>8, <1>9, PTL DEF Leaves
  <1>11. FairSpec => []TypeOK
    BY TypeCorrect, PTL DEF FairSpec
  <1>12. FairSpec /\ []GuardsTell => (phase # "idle" ~> Answered)
    BY <1>3, <1>4, <1>5, <1>6, <1>7, <1>8, <1>9, <1>10, <1>11, PTL
  <1> QED
    BY <1>12, PTL DEF AlwaysAnswered, Answered
=============================================================================
