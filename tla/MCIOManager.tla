---------------------------- MODULE MCIOManager ----------------------------
(***************************************************************************)
(* Instances of IOManager for TLC.                                         *)
(***************************************************************************)
EXTENDS IOManager, TLC

Interchangeable ==
  Permutations(Threads) \cup Permutations(Fds) \cup Permutations(Callbacks \ ({Main} \cup Recurring))

=============================================================================
