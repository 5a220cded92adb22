--------------------------- MODULE MCPackageTables ---------------------------
(* The package page on one package, one manual application, two managers. *)
EXTENDS PackageTables, TLC

CONSTANTS m1, m2, p1, p2

\* Loads and operations differ only by what they are for.
Symmetry == Permutations(Load) \cup Permutations(Job)

Known == p1 :> m1 @@ p2 :> Manual
=============================================================================
