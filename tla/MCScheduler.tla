---------------------------- MODULE MCScheduler ----------------------------
(* Instances of Scheduler for TLC. *)
EXTENDS Scheduler

(* Workers, fibers and callbacks are interchangeable in the safety runs:   *)
(* Pins is empty or all of Threads there.                                  *)
Interchangeable ==
  Permutations(Workers) \cup Permutations(Fibers) \cup Permutations(Cbs)
=============================================================================
