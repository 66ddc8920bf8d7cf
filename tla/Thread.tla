------------------------------- MODULE Thread -------------------------------
(***************************************************************************)
(* wille::Thread (wille/thread.h, wille/thread.cpp) and the Semaphore      *)
(* (wille/mutex.cpp) on which its constructor waits until the new thread   *)
(* has taken what it needs out of the object.  The actions of run() are    *)
(* the thread's, the others those of the thread that owns the object.      *)
(***************************************************************************)
EXTENDS Naturals

CONSTANTS Threads, None

VARIABLES
  object,      \* the Thread object: "none", "alive" or "deleted"
  m_id,        \* Thread::m_id, or None
  m_thread,    \* Thread::m_thread is set: the thread can be joined
  m_semaphore, \* Thread::m_semaphore
  run          \* where Thread::run() is

objectVars == <<object, m_id, m_thread, m_semaphore>>
threadVars == <<objectVars, run>>

ThreadTypeOK ==
  /\ object \in [Threads -> {"none", "alive", "deleted"}]
  /\ m_id \in [Threads -> Threads \cup {None}] /\ m_thread \in [Threads -> BOOLEAN]
  /\ m_semaphore \in [Threads -> 0..1]
  /\ run \in [Threads -> {"none", "begin", "named", "callback", "ended"}]

ThreadInit ==
  /\ object = [t \in Threads |-> "none"] /\ m_id = [t \in Threads |-> None]
  /\ m_thread = [t \in Threads |-> FALSE] /\ m_semaphore = [t \in Threads |-> 0]
  /\ run = [t \in Threads |-> "none"]

(* Thread::Thread() up to m_semaphore.wait() *)
Create(t) ==
  /\ object[t] = "none" /\ object' = [object EXCEPT ![t] = "alive"]
  /\ m_thread' = [m_thread EXCEPT ![t] = TRUE]
  /\ run' = [run EXCEPT ![t] = "begin"]
  /\ UNCHANGED <<m_id, m_semaphore>>

Wait(t) ==
  /\ m_semaphore[t] > 0 /\ m_semaphore' = [m_semaphore EXCEPT ![t] = @ - 1]
  /\ UNCHANGED <<object, m_id, m_thread, run>>

Name_NotifiesFirst(t) ==
  /\ run[t] = "begin" /\ run' = [run EXCEPT ![t] = "named"]
  /\ m_semaphore' = [m_semaphore EXCEPT ![t] = @ + 1]
  /\ UNCHANGED <<object, m_id, m_thread>>

(* run() stores t_thread and the thread's id, and swaps the callback out, ... *)
Name(t) ==
  /\ run[t] = "begin" /\ run' = [run EXCEPT ![t] = "named"]
  /\ m_id' = [m_id EXCEPT ![t] = t]
  /\ UNCHANGED <<object, m_thread, m_semaphore>>

Notify_Late(t) ==
  /\ run[t] = "named" /\ run' = [run EXCEPT ![t] = "callback"]
  /\ UNCHANGED objectVars

(* ... notifies, and calls the callback, which is its own copy. *)
Notify(t) ==
  /\ run[t] = "named" /\ run' = [run EXCEPT ![t] = "callback"]
  /\ m_semaphore' = [m_semaphore EXCEPT ![t] = @ + 1]
  /\ UNCHANGED <<object, m_id, m_thread>>

Return(t) ==
  /\ run[t] = "callback" /\ run' = [run EXCEPT ![t] = "ended"]
  /\ UNCHANGED objectVars

Join_NoWait(t) ==
  /\ m_thread[t]
  /\ m_thread' = [m_thread EXCEPT ![t] = FALSE]
  /\ UNCHANGED <<object, m_id, m_semaphore, run>>

Join(t) ==
  /\ m_thread[t] /\ run[t] = "ended"
  /\ m_thread' = [m_thread EXCEPT ![t] = FALSE]
  /\ UNCHANGED <<object, m_id, m_semaphore, run>>

(* ~Thread() detaches a thread that was not joined, and leaves it running. *)
Destroy(set) ==
  /\ object' = [t \in Threads |-> IF t \in set THEN "deleted" ELSE object[t]]
  /\ m_thread' = [t \in Threads |-> m_thread[t] /\ t \notin set]
  /\ UNCHANGED <<m_id, m_semaphore, run>>

(* run() uses the object, or leaves a pointer to it in t_thread, which     *)
(* SetName() writes through when the callback calls it.                    *)
UsesObject(t) == run[t] \in {"begin", "named", "callback"}

=============================================================================
