------------------------------ MODULE MCTimer ------------------------------
(***************************************************************************)
(* Instances of Timer for TLC.  Clients and pollers have no order;         *)
(* timers do, by their addresses.                                          *)
(***************************************************************************)
EXTENDS Timer, TLC

Interchangeable == Permutations(Clients) \cup Permutations(Pollers)

=============================================================================
