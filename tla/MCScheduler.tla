---------------------------- MODULE MCScheduler ----------------------------
(* Small instances of Scheduler. *)
EXTENDS Scheduler, TLC

Symmetric == Permutations(CPU) \cup Permutations(Node)
=============================================================================
