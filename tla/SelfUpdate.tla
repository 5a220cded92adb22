------------------------------ MODULE SelfUpdate ------------------------------
(***************************************************************************)
(* The in-app updater: download a release's package and its SHA256SUMS,    *)
(* verify one against the other, and install it; an AppImage is replaced   *)
(* by renaming files, anything else is handed to the package manager.      *)
(*                                                                         *)
(* Actors: the GUI thread, the network, the file system (any open, write   *)
(* or rename may fail), the user's Cancel, which is also delivered while   *)
(* the progress dialog spins the event loop in the middle of a handler, a  *)
(* crash between any two of these steps, and root's package manager, which *)
(* neither a crash of the program nor its giving up after ten minutes ends.*)
(*                                                                         *)
(* Abstractions.  A release is its number, 0 is the version one starts     *)
(* with.  A file is what it holds.  SHA-256 has no collisions.  One        *)
(* attempt runs at a time.  The program is started from its own path.  A   *)
(* package manager puts its package in place in one step, or does not.     *)
(***************************************************************************)
EXTENDS Integers

CONSTANT MaxRelease    \* the newest release considered

ASSUME ReleaseAssumption == MaxRelease \in Nat \ {0}

Release == 1 .. MaxRelease
Image   == 0 .. MaxRelease
None    == -1              \* there is no such file
Partial == -2              \* a file that is not what its release published

VARIABLES
    (* on disk *)
    target,      \* the program: $APPIMAGE, or the installed package
    backup,      \* $APPIMAGE.old
    pkg,         \* m_pkgPath
    sums,        \* m_sumsPath, by the release whose lines it has
    unattended,  \* what root's package managers install though nobody waits
    (* the program *)
    app,         \* does it run?
    version,     \* APP_VERSION, the image it was started from
    appImage,    \* is it an AppImage (or else a .deb or .rpm package)?
    (* the attempt *)
    phase,       \* the handler due next; "idle" when there is no SelfUpdater
    release,     \* m_version
    own,         \* is m_asset the package this install wants?
    sumsUrl,     \* m_sumsUrl is not empty
    cancelled,   \* m_cancelled
    (* observability *)
    told,        \* the last finished(): "nothing" yet, "failed" or "updated"
    late,        \* was Cancel pressed when the downloads were over?
    stuck        \* is nothing at the program's path since a restore failed?

diskVars    == <<target, backup, pkg, sums, unattended>>
programVars == <<app, version, appImage>>
attemptVars == <<release, own, sumsUrl, cancelled, late>>
vars == <<diskVars, programVars, phase, attemptVars, told, stuck>>

Downloading == {"package", "sums"}
Installing  == {"install", "aside", "place", "restore", "cleanup"}

TypeOK ==
    /\ target \in Image \cup {None} /\ backup \in Image \cup {None}
    /\ pkg \in Release \cup {None, Partial}
    /\ sums \in Release \cup {None}
    /\ unattended \subseteq Release
    /\ app \in BOOLEAN /\ version \in Image /\ appImage \in BOOLEAN
    /\ phase \in {"idle", "verify"} \cup Downloading \cup Installing
    /\ release \in Image
    /\ own \in BOOLEAN /\ sumsUrl \in BOOLEAN /\ cancelled \in BOOLEAN
    /\ told \in {"nothing", "failed", "updated"}
    /\ late \in BOOLEAN /\ stuck \in BOOLEAN

-----------------------------------------------------------------------------
Init ==
    /\ target = 0 /\ backup = None /\ pkg = None /\ sums = None
    /\ unattended = {}
    /\ app = FALSE /\ version = 0 /\ appImage \in BOOLEAN
    /\ phase = "idle" /\ release = 0
    /\ own = FALSE /\ sumsUrl = FALSE /\ cancelled = FALSE
    /\ told = "nothing" /\ late = FALSE /\ stuck = FALSE

Launch ==
    /\ ~app /\ target # None
    /\ app' = TRUE /\ version' = target
    /\ UNCHANGED <<diskVars, appImage, phase, attemptVars, told, stuck>>

\* May root's package manager be at work on the downloaded package?
AtWork == phase = "install" /\ ~appImage /\ own

\* The program goes away, at any point of any handler; root's package manager
\* does not go with it.
Die ==
    /\ app
    /\ app' = FALSE /\ phase' = "idle"
    /\ unattended' \in {unattended} \cup (IF AtWork THEN {unattended \cup {pkg}} ELSE {})
    /\ UNCHANGED <<target, backup, pkg, sums, version, appImage, attemptVars, told, stuck>>

\* A package manager nobody waits for comes to its end, one way or the other.
ManagerEnds(r) ==
    /\ r \in unattended
    /\ target' \in {target, r}
    /\ unattended' = unattended \ {r}
    /\ UNCHANGED <<backup, pkg, sums, programVars, phase, attemptVars, told, stuck>>

\* The user gives the file set aside its name back.
UserRestores ==
    /\ ~app /\ target = None /\ backup # None
    /\ target' = backup /\ backup' = None /\ stuck' = FALSE
    /\ UNCHANGED <<pkg, sums, unattended, programVars, phase, attemptVars, told>>

\* With no image left, the user gets one by other means.
UserReinstalls ==
    /\ ~app /\ target = None /\ backup = None
    /\ target' \in Image /\ stuck' = FALSE
    /\ UNCHANGED <<backup, pkg, sums, unattended, programVars, phase, attemptVars, told>>

-----------------------------------------------------------------------------
(* start() and the downloads *)

\* What installMethod() may answer, each time it is asked: a query of the
\* package database that times out says "unsupported".
Supported == IF appImage THEN {TRUE} ELSE BOOLEAN

\* finished(): the page closes the dialog, which cancels a finished updater.
Finish(result) == phase' = "idle" /\ told' = result /\ cancelled' = TRUE

\* On to the next handler.
Proceed(next) == phase' = next /\ UNCHANGED <<cancelled, told>>

\* downloadAndInstall() and start() for a release newer than the running one.
\* installMethod() is asked twice: for the extension to look for, and whether
\* an automatic install is possible at all; without an extension any asset fits.
Start(v) ==
    /\ app /\ phase = "idle" /\ v > version
    /\ release' = v
    /\ sumsUrl' \in BOOLEAN
    /\ late' = FALSE
    /\ \E known, able \in Supported :
         /\ own' \in {TRUE, known}
         /\ \/ /\ able
               /\ pkg' = Partial
               /\ phase' = "package" /\ cancelled' = FALSE /\ told' = "nothing"
            \/ UNCHANGED pkg /\ Finish("failed")    \* unable, no asset or no file
    /\ UNCHANGED <<target, backup, sums, unattended, programVars, stuck>>

\* The package is on disk, whole or damaged; its checksums are next, if they
\* are published.  The file of an earlier attempt is truncated only then.
PackageArrives ==
    /\ phase = "package"
    /\ pkg' \in {release, Partial}
    /\ \/ sumsUrl /\ sums' = None /\ Proceed("sums")
       \/ sumsUrl /\ UNCHANGED sums /\ Finish("failed")    \* no file
       \/ ~sumsUrl /\ UNCHANGED sums /\ Proceed("verify")
    /\ UNCHANGED <<target, backup, unattended, programVars, release, own, sumsUrl, late, stuck>>

SumsArrive ==
    /\ phase = "sums"
    /\ sums' \in {release, None}
    /\ phase' = "verify"
    /\ UNCHANGED <<target, backup, pkg, unattended, programVars, attemptVars, told, stuck>>

\* What a reply that ends early leaves of its file: it may have been complete.
CutShort ==
    /\ pkg' \in (IF phase = "package" THEN {release, Partial} ELSE {pkg})
    /\ sums' \in (IF phase = "sums" THEN {release, None} ELSE {sums})

DownloadFails ==
    /\ phase \in Downloading
    /\ CutShort
    /\ Finish("failed")
    /\ UNCHANGED <<target, backup, unattended, programVars, release, own, sumsUrl, late, stuck>>

\* Mistake: the reply is aborted and its handler goes on as if it had ended.
CancelDownloadGoingOn ==
    /\ CutShort
    /\ cancelled' = TRUE /\ phase' = "verify"
    /\ UNCHANGED <<late, told>>

\* abort() ends the reply, whose handler looks at m_cancelled.
CancelDownload ==
    /\ CutShort
    /\ Finish("failed")
    /\ UNCHANGED late

\* Cancel while progress(100, "Verifying") spins the event loop: there is no
\* reply to abort, and nothing reads m_cancelled any more.
CancelVerify ==
    /\ cancelled' = TRUE /\ late' = TRUE
    /\ UNCHANGED <<phase, pkg, sums, told>>

Cancel ==
    /\ ~cancelled
    /\ \/ phase \in Downloading /\ CancelDownload
       \/ phase = "verify" /\ CancelVerify
    /\ UNCHANGED <<target, backup, unattended, programVars, release, own, sumsUrl, stuck>>

-----------------------------------------------------------------------------
(* afterSumsDownloaded() and installFile() *)

\* Mistake: without published checksums there is nothing to compare.
MatchesIfPublished == sums = None \/ (sums = release /\ pkg = release)

\* The digest is the one the checksum file has for the asset.  A file left by an
\* attempt for another release either has no line for it or another digest.
Matches == sums = release /\ pkg = release

\* Mistake: an early return without finished().
VerifySilently ==
    /\ phase = "verify"
    /\ IF Matches THEN UNCHANGED pkg /\ Proceed("install")
                  ELSE pkg' = None /\ Proceed("idle")
    /\ UNCHANGED <<target, backup, sums, unattended, programVars, release, own, sumsUrl,
                  late, stuck>>

Verify ==
    /\ phase = "verify"
    /\ IF Matches THEN UNCHANGED pkg /\ Proceed("install")
                  ELSE pkg' = None /\ Finish("failed")
    /\ UNCHANGED <<target, backup, sums, unattended, programVars, release, own, sumsUrl,
                  late, stuck>>

frameInstall == <<sums, programVars, release, own, sumsUrl, late>>

\* Mistake: a package manager that is still at work will make it.
InstallPackageTrusting ==
    /\ phase = "install" /\ ~appImage
    /\ pkg' = None
    /\ \/ own /\ target' \in {target, pkg} /\ UNCHANGED unattended /\ Finish("failed")
       \/ own /\ UNCHANGED target /\ unattended' = unattended \cup {pkg} /\ Finish("updated")
       \/ own /\ target' = pkg /\ UNCHANGED unattended /\ Finish("updated")
    /\ UNCHANGED <<frameInstall, backup, stuck>>

\* pkexec and the package manager, which only takes a package of its own kind,
\* and may put it in place and yet fail.  One that is not done within ten minutes
\* is given up, but it is root's and cannot be killed.  The downloaded file is
\* removed in any case.
InstallPackage ==
    /\ phase = "install" /\ ~appImage
    /\ pkg' = None
    /\ \/ own /\ target' = pkg /\ UNCHANGED unattended /\ Finish("updated")
       \/ own /\ target' = pkg /\ UNCHANGED unattended /\ Finish("failed")
       \/ own /\ UNCHANGED target /\ unattended' = unattended \cup {pkg} /\ Finish("failed")
       \/ UNCHANGED <<target, unattended>> /\ Finish("failed")
    /\ UNCHANGED <<frameInstall, backup, stuck>>

\* QFile::remove(backup)
RemoveBackup ==
    /\ phase = "install" /\ appImage
    /\ backup' \in {None, backup}
    /\ Proceed("aside")
    /\ UNCHANGED <<frameInstall, unattended, target, pkg, stuck>>

\* Mistake: the file in the way is removed.
MoveAsideRemoving ==
    /\ phase = "aside"
    /\ target' = None
    /\ Proceed("place")
    /\ UNCHANGED <<frameInstall, unattended, backup, pkg, stuck>>

\* rename(target, backup), which does not overwrite.
MoveAside ==
    /\ phase = "aside"
    /\ \/ /\ target = None
          /\ Proceed("place")
          /\ UNCHANGED <<target, backup>>
       \/ /\ target # None /\ backup = None
          /\ backup' = target /\ target' = None
          /\ Proceed("place")
       \/ /\ target # None
          /\ Finish("failed")
          /\ UNCHANGED <<target, backup>>
    /\ UNCHANGED <<frameInstall, unattended, pkg, stuck>>

\* rename(file, target)
Place ==
    /\ phase = "place"
    /\ \/ target' = pkg /\ pkg' = None /\ stuck' = FALSE /\ Proceed("cleanup")
       \/ UNCHANGED <<target, pkg, stuck>> /\ Proceed("restore")
    /\ UNCHANGED <<frameInstall, unattended, backup>>

\* rename(backup, target), whose result nobody looks at.
Restore ==
    /\ phase = "restore"
    /\ \/ backup # None /\ target' = backup /\ backup' = None /\ UNCHANGED stuck
       \/ UNCHANGED <<target, backup>> /\ stuck' = TRUE
    /\ Finish("failed")
    /\ UNCHANGED <<frameInstall, unattended, pkg>>

\* remove(backup) once more, and success.
CleanUp ==
    /\ phase = "cleanup"
    /\ backup' \in {None, backup}
    /\ Finish("updated")
    /\ UNCHANGED <<frameInstall, unattended, target, pkg, stuck>>

-----------------------------------------------------------------------------
Next ==
    \/ Launch \/ Die \/ UserRestores \/ UserReinstalls
    \/ \E v \in Release : Start(v) \/ ManagerEnds(v)
    \/ PackageArrives \/ SumsArrive \/ DownloadFails \/ Cancel
    \/ Verify
    \/ InstallPackage \/ RemoveBackup \/ MoveAside \/ Place \/ Restore \/ CleanUp

Spec == Init /\ [][Next]_vars

\* Handlers that are due run, and every download ends in one way or another.
\* Nothing is assumed of the user or of what a reply or a rename results in.
Fairness ==
    /\ WF_vars(PackageArrives \/ SumsArrive \/ DownloadFails)
    /\ WF_vars(Verify \/ InstallPackage \/ RemoveBackup \/ MoveAside
               \/ Place \/ Restore \/ CleanUp)

FairSpec == Spec /\ Fairness

-----------------------------------------------------------------------------
(* Safety *)

\* The image a user can run or give its name back: the two renames of an
\* AppImage count as one replacement.
Usable == IF target # None THEN target ELSE backup

\* What the user can run changes only to the whole, verified package of the
\* requested release, in one step, whatever was damaged, cut short, left behind
\* by an earlier attempt or interrupted on the way (afterSumsDownloaded), be it
\* that the package manager which was given it is done only later.
ChangesOnlyToVerified ==
    [][/\ \/ stuck \/ Usable' = Usable
          \/ Usable' = release /\ phase \in Installing
          \/ Usable' \in unattended \ unattended'
       /\ \/ unattended' \subseteq unattended
          \/ unattended' = unattended \cup {release} /\ phase \in Installing]_vars

\* There is always an image to run, unless nothing is in place since the rename
\* that was to restore the old one failed (installFile, self_updater.cpp:213-222).
Survives == target # None \/ backup # None \/ stuck

\* "Updated to ..." is said only when the release is in place.
SaidTruly == [][told # "updated" /\ told' = "updated" => target' = release]_vars

\* The program puts a release in place, or leaves it to a package manager.
Takes ==
    \/ Usable' # Usable /\ unattended' = unattended
    \/ ~(unattended' \subseteq unattended)

\* Cancel keeps the release from being installed, unless it comes when the
\* downloads are over and m_cancelled is not read any more.
CancelInTime == [][Takes /\ ~stuck => ~cancelled \/ late]_vars

\* As much of this as the user may rely on: the updater keeps UpdatePromise.
Promise == INSTANCE UpdatePromise
             WITH image   <- Usable,
                  broken  <- stuck,
                  packaged <- ~appImage,
                  abandoned <- unattended,
                  attempt <- CASE phase = "idle" -> "none"
                               [] phase = "cleanup" -> "placed"
                               [] OTHER -> "open"

\* The image changes once per attempt, to the release asked for; "updated" is said
\* only then; an AppImage is told "failed" only of an attempt that changed nothing,
\* and a package only of one that changed nothing, installed the release or left it
\* to root's package manager, which is not waited for any more; and an image is lost
\* only when an earlier restore failed (installFile).
KeepsPromise == Promise!Spec

(* Liveness *)

\* Every attempt is answered, "exactly once" (self_updater.h:32): the dialog does
\* not stay up for good, whichever check, write or rename fails on the way.
AlwaysAnswered == phase # "idle" ~> told # "nothing" \/ ~app
=============================================================================
