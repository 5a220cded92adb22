---------------------------- MODULE ReliefPromise ----------------------------
(***************************************************************************)
(* What System Relief promises: while it runs it may hold some processes   *)
(* stopped, it lets go of all of them at once, and it leaves none held     *)
(* when it exits.  Other parties may release or end a held process.  Only  *)
(* a crash loses the ones held at that moment, and those it never touches  *)
(* again.                                                                  *)
(***************************************************************************)
CONSTANT Pid

VARIABLES
    alive,    \* is the program running?
    held,     \* processes it holds stopped
    lost      \* processes left stopped by a crash

vars == <<alive, held, lost>>

Init == alive = FALSE /\ held = {} /\ lost = {}

Start == ~alive /\ alive' = TRUE /\ UNCHANGED <<held, lost>>

Freeze ==
    /\ alive
    /\ \E S \in SUBSET (Pid \ (held \cup lost)) : held' = held \cup S
    /\ UNCHANGED <<alive, lost>>

Thaw == alive /\ held' = {} /\ UNCHANGED <<alive, lost>>

Exit == alive /\ alive' = FALSE /\ held' = {} /\ UNCHANGED lost

Crash == alive /\ alive' = FALSE /\ held' = {} /\ lost' = lost \cup held

\* Another party continues or ends a stopped process.
LetGo(p) == held' = held \ {p} /\ lost' = lost \ {p} /\ UNCHANGED alive

Next == Start \/ Freeze \/ Thaw \/ Exit \/ Crash \/ \E p \in Pid : LetGo(p)

Spec == Init /\ [][Next]_vars
=============================================================================
