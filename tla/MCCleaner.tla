------------------------------ MODULE MCCleaner ------------------------------
(* The cleaner on a category of the user's and one or two of root's. *)
EXTENDS Cleaner, TLC

\* Worker threads differ only by their job.
Symmetry == Permutations(Job)
=============================================================================
