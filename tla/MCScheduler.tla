---------------------------- MODULE MCScheduler ----------------------------
(* Small instances of Scheduler for TLC. *)
EXTENDS Scheduler, TLC

Symmetry == Permutations(Actors) \cup Permutations(Workers) \cup Permutations(Senders)

NoActor == {}
Runs == {"processed", "preempted"}
Ends == {"processed", "exception"}
All == {"processed", "preempted", "exception"}
Waits == {"processed", "suspended"}
=============================================================================
