------------------------------ MODULE Executor ------------------------------
(***************************************************************************)
(* What wille::Scheduler promises the program that owns it: a callback it  *)
(* accepts is started once, by a scheduler that is up, and the scheduler   *)
(* goes down only when it has started everything it accepted.  Threads,    *)
(* fibers, the task list and the counters are not part of the promise.     *)
(***************************************************************************)
EXTENDS Naturals

CONSTANT Cbs

VARIABLES
  pending,  \* callbacks accepted and not started
  started,  \* callbacks started
  up        \* between start() and the return of stop()

vars == <<pending, started, up>>

Init == pending = {} /\ started = {} /\ ~up

(* Callbacks are accepted one at a time or as a range, up or not. *)
Accept ==
  /\ \E C \in (SUBSET Cbs) \ {{}} :
       /\ C \cap (pending \cup started) = {}
       /\ pending' = pending \cup C
  /\ UNCHANGED <<started, up>>

Run ==
  /\ up
  /\ \E c \in pending :
       /\ pending' = pending \ {c}
       /\ started' = started \cup {c}
  /\ UNCHANGED up

GoUp ==
  /\ ~up /\ up'
  /\ UNCHANGED <<pending, started>>

GoDown ==
  /\ up /\ pending = {} /\ ~up'
  /\ UNCHANGED <<pending, started>>

Next == Accept \/ Run \/ GoUp \/ GoDown

Spec == Init /\ [][Next]_vars

=============================================================================
