---------------------------- MODULE MCSelfUpdate ----------------------------
(* The updater over a few releases, as an AppImage and as a package. *)
EXTENDS SelfUpdate
=============================================================================
