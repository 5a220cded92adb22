---------------------------- MODULE UpdatePromise ----------------------------
(***************************************************************************)
(* What the updater promises of the program it replaces: the image changes *)
(* once per attempt, in one step, from the old one to the release asked    *)
(* for, and "updated" is said only of that.                                *)
(*                                                                         *)
(* "Failed" means less for a package than for an AppImage.  Of an AppImage *)
(* it is said only of an attempt that changed nothing.  A package is put   *)
(* in place by root's package manager, which may do it and yet fail, or do *)
(* it after it was abandoned, by a program that gave up or died.           *)
(*                                                                         *)
(* A restore that fails leaves the program broken; only then can the image *)
(* be lost, and only by another attempt.                                   *)
(***************************************************************************)
EXTENDS Integers

CONSTANTS Release, Image, None

VARIABLES
    packaged,   \* is it for a package manager to install?
    image,      \* what the user can run or give its name back, if anything
    broken,     \* has a restore failed, and nothing been put in place since?
    attempt,    \* "none", "open", or "placed" once the release is in place
    abandoned,  \* the releases package managers may still put in place
    release,    \* the one the latest attempt is for
    told        \* how it ended, as far as the user was told

vars == <<packaged, image, broken, attempt, abandoned, release, told>>

Init ==
    /\ packaged \in BOOLEAN
    /\ image = 0 /\ broken = FALSE
    /\ attempt = "none" /\ release = 0 /\ told = "nothing"
    /\ abandoned = {}

\* An attempt begins, or is refused.
Begin(v) ==
    /\ attempt = "none"
    /\ release' = v
    /\ \/ attempt' = "open" /\ told' = "nothing"
       \/ attempt' = "none" /\ told' = "failed"
    /\ UNCHANGED <<packaged, image, broken, abandoned>>

\* The release is put in place, in the last step of the attempt or before it.
Install ==
    /\ attempt = "open"
    /\ image' = release /\ broken' = FALSE
    /\ \/ attempt' = "placed" /\ UNCHANGED told
       \/ attempt' = "none" /\ told' = "updated"
    /\ UNCHANGED <<packaged, abandoned, release>>

Confirm ==
    /\ attempt = "placed"
    /\ attempt' = "none" /\ told' = "updated"
    /\ UNCHANGED <<packaged, image, broken, abandoned, release>>

Fail ==
    /\ attempt = "open"
    /\ attempt' = "none" /\ told' = "failed"
    /\ broken' \in {broken, TRUE}
    /\ UNCHANGED <<packaged, image, abandoned, release>>

\* A package is put in place by a package manager that then fails.
FailInstalled ==
    /\ packaged /\ attempt = "open"
    /\ image' = release
    /\ attempt' = "none" /\ told' = "failed"
    /\ UNCHANGED <<packaged, broken, abandoned, release>>

\* The package manager is left to itself: it takes too long, or the program dies.
Abandon ==
    /\ packaged /\ attempt = "open"
    /\ abandoned' = abandoned \cup {release}
    /\ attempt' = "none" /\ told' \in {told, "failed"}
    /\ UNCHANGED <<packaged, image, broken, release>>

ManagerEnds(r) ==
    /\ r \in abandoned
    /\ abandoned' = abandoned \ {r}
    /\ image' \in {image, r}
    /\ UNCHANGED <<packaged, broken, attempt, release, told>>

\* The program dies in the middle, and nobody is told.
Die ==
    /\ attempt # "none" /\ attempt' = "none"
    /\ UNCHANGED <<packaged, image, broken, abandoned, release, told>>

Lose ==
    /\ attempt = "open" /\ broken
    /\ image' = None
    /\ UNCHANGED <<packaged, broken, attempt, abandoned, release, told>>

\* The user puts an image back in place, the one there is if there is one.
Repair ==
    /\ attempt = "none" /\ broken
    /\ broken' = FALSE
    /\ image' \in (IF image = None THEN Image ELSE {image})
    /\ UNCHANGED <<packaged, attempt, abandoned, release, told>>

Next ==
    \/ \E v \in Release : Begin(v) \/ ManagerEnds(v)
    \/ Install \/ Confirm \/ Fail \/ FailInstalled \/ Abandon
    \/ Die \/ Lose \/ Repair

Spec == Init /\ [][Next]_vars
=============================================================================
