----------------------------- MODULE BatchPromise -----------------------------
(***************************************************************************)
(* What the log window of a batch promises the page that opened it: it     *)
(* tells once how the batch ended, and only when no command of it runs;    *)
(* "finished" only if every command went well and nobody pressed Stop; and *)
(* after a failure or Stop no command is started.  A window dismissed over *)
(* its batch may tell it still, or be deleted without a word, and may      *)
(* leave a root command behind.                                            *)
(***************************************************************************)
VARIABLES
    window,   \* "none", "running" a batch, "lost" over one, or "shown" after it
    work,     \* is a command of the batch alive?
    well,     \* has everything gone well, and nobody pressed Stop?
    heard,    \* what the page was told of the latest batch
    stray     \* does a root command run on whose window is gone?

vars == <<window, work, well, heard, stray>>

Init == window = "none" /\ work = FALSE /\ well = TRUE /\ heard = <<>> /\ stray = FALSE

\* A batch with nothing to run is over when it begins.
Begin ==
    /\ window = "none"
    /\ well' = TRUE /\ UNCHANGED stray
    /\ \/ window' = "running" /\ work' = TRUE /\ heard' = <<>>
       \/ window' = "shown" /\ work' = FALSE /\ heard' = <<TRUE>>

\* A command that ends well is followed by the next: the page sees nothing of it.

\* A command does not start, or Stop is pressed and the command may go on a while.
GoWrong ==
    /\ window \in {"running", "lost"} /\ well' = FALSE
    /\ work' \in {work, FALSE}
    /\ UNCHANGED <<window, heard, stray>>

Tell(ok) ==
    /\ window \in {"running", "lost"}
    /\ ok => well /\ work
    /\ window' = IF window = "running" THEN "shown" ELSE "none"
    /\ work' = FALSE /\ well' = ok /\ heard' = <<ok>>
    /\ UNCHANGED stray

Close == window = "shown" /\ window' = "none" /\ UNCHANGED <<work, well, heard, stray>>

Dismiss == window = "running" /\ window' = "lost" /\ UNCHANGED <<work, well, heard, stray>>

\* The dismissed window is deleted, and its command with it if it can be.
EndUntold ==
    /\ window = "lost"
    /\ window' = "none" /\ work' = FALSE /\ well' \in {well, FALSE}
    /\ stray' \in (IF work THEN {stray, TRUE} ELSE {stray})
    /\ UNCHANGED heard

StrayEnds == stray /\ stray' = FALSE /\ UNCHANGED <<window, work, well, heard>>

Next ==
    \/ Begin \/ GoWrong \/ (\E ok \in BOOLEAN : Tell(ok))
    \/ Close \/ Dismiss \/ EndUntold \/ StrayEnds

Spec == Init /\ [][Next]_vars
=============================================================================
