------------------------------- MODULE Fiber -------------------------------
(***************************************************************************)
(* wille::Fiber (wille/fiber.h, wille/fiber.cpp): stackful coroutines on   *)
(* ucontext.  A thread is either on its own scheduling stack (its main     *)
(* fiber, or the root fiber of a use_caller scheduler; written NoFiber) or *)
(* on the stack of one Fiber.  The operators below are action fragments:   *)
(* each says what one Fiber operation does to the variables of this module *)
(* when thread t performs it, and module Scheduler conjoins them with the  *)
(* code around the call.                                                   *)
(*                                                                         *)
(* m_ctx is not a variable: it holds the fiber's whole context exactly     *)
(* when no thread is on the fiber's stack.                                 *)
(***************************************************************************)
CONSTANTS
  Threads,   \* the threads that execute Scheduler::run
  Fibers,    \* Fiber objects the run may allocate
  Cbs,       \* user callbacks (std::function<void()>)
  NoFiber,   \* a null Fiber::ptr
  NoCb       \* an empty std::function

ASSUME NullAssumption == NoFiber \notin Fibers /\ NoCb \notin Cbs

VARIABLES
  m_state,   \* Fiber::m_state, "none" for an object not constructed yet
  m_cb,      \* Fiber::m_cb
  t_fiber,   \* thread_local t_fiber: the fiber whose stack the thread is on
  entered    \* history: the callbacks MainFunc has entered

fiberVars == <<m_state, m_cb, t_fiber, entered>>

State == {"INIT", "HOLD", "EXEC", "TERM", "READY", "EXCEPT"}

FiberTypeOK ==
  /\ m_state \in [Fibers -> State \cup {"none"}]
  /\ m_cb \in [Fibers -> Cbs \cup {NoCb}]
  /\ t_fiber \in [Threads -> Fibers \cup {NoFiber}]
  /\ entered \in SUBSET Cbs

FiberInit ==
  /\ m_state = [f \in Fibers |-> "none"]
  /\ m_cb = [f \in Fibers |-> NoCb]
  /\ t_fiber = [t \in Threads |-> NoFiber]
  /\ entered = {}

-----------------------------------------------------------------------------

stateTermOrExcept(f) == m_state[f] \in {"TERM", "EXCEPT"}

(* new Fiber(cb): an unused object becomes a fiber with a fresh context. *)
NewFiber(f, cb) ==
  /\ m_state[f] = "none"
  /\ m_state' = [m_state EXCEPT ![f] = "INIT"]
  /\ m_cb' = [m_cb EXCEPT ![f] = cb]
  /\ UNCHANGED <<t_fiber, entered>>

swapIn_NotExec(t, f) ==
  /\ t_fiber' = [t_fiber EXCEPT ![t] = f]
  /\ entered' = IF m_state[f] = "INIT" THEN entered \cup {m_cb[f]} ELSE entered
  /\ UNCHANGED <<m_state, m_cb>>

(* swapIn() on a suspended fiber: SetThis, m_state = EXEC, swapcontext.    *)
(* The first switch into a fresh context enters MainFunc, which calls      *)
(* m_cb.                                                                   *)
swapIn(t, f) ==
  /\ t_fiber' = [t_fiber EXCEPT ![t] = f]
  /\ m_state' = [m_state EXCEPT ![f] = "EXEC"]
  /\ entered' = IF m_state[f] = "INIT" THEN entered \cup {m_cb[f]} ELSE entered
  /\ UNCHANGED m_cb

(* reset(cb) or new Fiber(cb), directly followed by swapIn(): what run()   *)
(* does with a callback task.  The context is fresh, so MainFunc enters cb.*)
ResetAndSwapIn(t, f, cb) ==
  /\ m_cb' = [m_cb EXCEPT ![f] = cb]
  /\ t_fiber' = [t_fiber EXCEPT ![t] = f]
  /\ m_state' = [m_state EXCEPT ![f] = "EXEC"]
  /\ entered' = entered \cup {cb}

ResetToNull_StateKept(f) ==
  /\ m_cb' = [m_cb EXCEPT ![f] = NoCb]
  /\ UNCHANGED <<m_state, t_fiber, entered>>

(* reset(nullptr): a finished fiber is kept for the next callback. *)
ResetToNull(f) ==
  /\ m_state' = [m_state EXCEPT ![f] = "INIT"]
  /\ m_cb' = [m_cb EXCEPT ![f] = NoCb]
  /\ UNCHANGED <<t_fiber, entered>>

(* setState(s), and the assignments of YieldToReady and YieldToHold: the   *)
(* state is published before the context is saved.                         *)
setState(f, s) ==
  /\ m_state' = [m_state EXCEPT ![f] = s]
  /\ UNCHANGED <<m_cb, t_fiber, entered>>

(* MainFunc after m_cb returned: the callback is dropped, then TERM is     *)
(* published.  The fiber is still on its stack.                            *)
MainFuncReturn(f) ==
  /\ m_cb' = [m_cb EXCEPT ![f] = NoCb]
  /\ m_state' = [m_state EXCEPT ![f] = "TERM"]
  /\ UNCHANGED <<t_fiber, entered>>

(* MainFunc's catch blocks: EXCEPT is published and m_cb is kept. *)
MainFuncExcept(f) == setState(f, "EXCEPT")

(* swapOut(): the thread leaves the fiber's stack, which saves m_ctx. *)
swapOut(t) ==
  /\ t_fiber' = [t_fiber EXCEPT ![t] = NoFiber]
  /\ UNCHANGED <<m_state, m_cb, entered>>

=============================================================================
