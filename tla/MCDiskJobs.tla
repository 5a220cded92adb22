----------------------------- MODULE MCDiskJobs -----------------------------
(* The two pages with a disk of each naming and two partitions on each. *)
EXTENDS DiskJobs
=============================================================================
