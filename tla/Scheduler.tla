----------------------------- MODULE Scheduler -----------------------------
(***************************************************************************)
(* wille::Scheduler (wille/scheduler.h, wille/scheduler.cpp): an N:M       *)
(* scheduler.  Every thread of Threads executes run(): it takes a task (a  *)
(* fiber or a callback, maybe pinned to a thread) from the shared list     *)
(* m_tasks, swaps into it, and decides by the fiber's published state what *)
(* to do with it when it swaps out.  The thread that owns the scheduler    *)
(* (the caller) calls start(), schedules work, and calls stop(); with      *)
(* use_caller it runs the loop itself inside stop(), as thread Root.       *)
(*                                                                         *)
(* A step of a thread is the code between two accesses to state that other *)
(* threads touch: the sections under m_mutex are atomic, the increments of *)
(* the atomic counters, the publication of a fiber's state and the switch  *)
(* of stacks that follows it are separate steps.                           *)
(*                                                                         *)
(* tickle() only logs in this class; stopping() and idle() are the virtual *)
(* functions as Scheduler itself defines them.                             *)
(***************************************************************************)
EXTENDS Fiber, Integers, SequencesExt, FiniteSets

CONSTANTS
  Root,         \* m_rootThread: the caller's thread id, AnyThread without use_caller
  AnyThread,    \* thread id -1: a task that any thread may take
  Pins,         \* the thread ids that clients name in schedule(fc, thread)
  PinOther,     \* may a callback pin a task to a thread it does not run on?
  WakeRunning,  \* may a client schedule a fiber that its thread has not parked yet?
  MaxYields,    \* bound: yields and reschedules of finished fibers, over all clients
  MaxStarts     \* bound: calls of start()

Workers == Threads \ {Root}

ASSUME ThreadsAssumption ==
  /\ Threads # {} /\ IsFiniteSet(Threads)
  /\ AnyThread \notin Threads
  /\ Root \in Threads \cup {AnyThread}
  /\ Pins \subseteq Threads

ASSUME ClientAssumption ==
  /\ PinOther \in BOOLEAN /\ WakeRunning \in BOOLEAN
  /\ MaxYields \in Nat /\ MaxStarts \in Nat

VARIABLES
  m_tasks,              \* std::list<Task>
  m_activeThreadCount,  \* atomic<size_t>
  m_idleThreadCount,    \* atomic<size_t>
  m_stopping,
  m_autoStop,
  pc,                   \* where each thread is in run()
  tk,                   \* the local variable tk of run()
  cb_fiber,             \* the local variable cb_fiber of run()
  idle_fiber,           \* the state of the local idle fiber of run()
  caller,               \* where the owner is: start(), its own code, stop()
  waiting,              \* fibers that arranged to be woken, then yield to HOLD
  posted,               \* history: callbacks handed to schedule()
  yields,               \* how much of MaxYields is used
  starts                \* how much of MaxStarts is used

queueVars  == <<m_tasks, m_activeThreadCount, m_idleThreadCount>>
stopVars   == <<m_stopping, m_autoStop, caller, starts>>
localVars  == <<tk, cb_fiber, idle_fiber>>
clientVars == <<waiting, posted, yields>>
vars == <<fiberVars, queueVars, stopVars, pc, localVars, clientVars>>

Task == [fiber : Fibers \cup {NoFiber}, cb : Cbs \cup {NoCb},
         thread : Threads \cup {AnyThread}]

FiberTask(f, p) == [fiber |-> f, cb |-> NoCb, thread |-> p]
CbTask(c, p) == [fiber |-> NoFiber, cb |-> c, thread |-> p]
NoTask == [fiber |-> NoFiber, cb |-> NoCb, thread |-> AnyThread]

(* Steps of run() during which the thread is on a fiber's stack, and those *)
(* during which it is counted in m_activeThreadCount or m_idleThreadCount. *)
OnFiber   == {"user", "armed", "swapout"}
ActivePcs == {"dispatch", "back"} \cup OnFiber
IdlePcs   == {"idle", "idleback"}
Pcs == {"none", "scan", "took", "post", "notask", "exit"} \cup ActivePcs \cup IdlePcs

(* The fiber that thread t swapped into. *)
Current(t) == IF tk[t].fiber # NoFiber THEN tk[t].fiber ELSE cb_fiber[t]

TypeOK ==
  /\ FiberTypeOK
  /\ m_tasks \in Seq(Task)
  /\ m_activeThreadCount \in Nat
  /\ m_idleThreadCount \in Nat
  /\ m_stopping \in BOOLEAN
  /\ m_autoStop \in BOOLEAN
  /\ pc \in [Threads -> Pcs]
  /\ tk \in [Threads -> Task]
  /\ cb_fiber \in [Threads -> Fibers \cup {NoFiber}]
  /\ idle_fiber \in [Threads -> {"INIT", "EXEC", "HOLD", "TERM"}]
  /\ caller \in {"new", "run", "stop", "signalled", "root", "join", "done"}
  /\ waiting \in SUBSET Fibers
  /\ posted \in SUBSET Cbs
  /\ yields \in 0..MaxYields
  /\ starts \in 0..MaxStarts

Init ==
  /\ FiberInit
  /\ m_tasks = <<>>
  /\ m_activeThreadCount = 0
  /\ m_idleThreadCount = 0
  /\ m_stopping = TRUE
  /\ m_autoStop = FALSE
  /\ pc = [t \in Threads |-> "none"]
  /\ tk = [t \in Threads |-> NoTask]
  /\ cb_fiber = [t \in Threads |-> NoFiber]
  /\ idle_fiber = [t \in Threads |-> "INIT"]
  /\ caller = "new"
  /\ waiting = {}
  /\ posted = {}
  /\ yields = 0
  /\ starts = 0

-----------------------------------------------------------------------------
(* Helpers of the class. *)

Goto(t, l) == pc' = [pc EXCEPT ![t] = l]

NoWork_IgnoresTasks == m_activeThreadCount = 0

NoWork == m_tasks = <<>> /\ m_activeThreadCount = 0

stopping == m_autoStop /\ m_stopping /\ NoWork

Eligible_UnpinnedSkipped(t, i) == m_tasks[i].thread = t

(* The test run() makes on a list entry while it holds m_mutex. *)
Eligible(t, i) ==
  /\ m_tasks[i].thread \in {AnyThread, t}
  /\ m_tasks[i].fiber # NoFiber => m_state[m_tasks[i].fiber] # "EXEC"

(* The list position of the task that run() takes on thread t. *)
FirstEligible(t, i) ==
  /\ i \in 1..Len(m_tasks)
  /\ Eligible(t, i)
  /\ \A k \in 1..(i - 1) : ~Eligible(t, k)

-----------------------------------------------------------------------------
(* Client code.  It runs inside a callback on thread t, or in the owner    *)
(* before it calls stop().  Every operation it may perform on the          *)
(* scheduler is one of these; each callback is scheduled at most once.     *)

(* schedule(cb, p) *)
ScheduleCb(c, p) ==
  /\ c \notin posted
  /\ m_tasks' = Append(m_tasks, CbTask(c, p))
  /\ posted' = posted \cup {c}
  /\ UNCHANGED <<fiberVars, waiting, yields>>

(* schedule(begin, end): all of the range under one lock, never pinned *)
ScheduleRange(c, d) ==
  /\ c # d /\ {c, d} \cap posted = {}
  /\ m_tasks' = m_tasks \o <<CbTask(c, AnyThread), CbTask(d, AnyThread)>>
  /\ posted' = posted \cup {c, d}
  /\ UNCHANGED <<fiberVars, waiting, yields>>

(* schedule(Fiber::ptr(new Fiber(cb)), p) *)
ScheduleFiber(f, c, p) ==
  /\ c \notin posted
  /\ NewFiber(f, c)
  /\ m_tasks' = Append(m_tasks, FiberTask(f, p))
  /\ posted' = posted \cup {c}
  /\ UNCHANGED <<waiting, yields>>

(* schedule(fiber, p) of a fiber that waits to be woken.  Unless           *)
(* WakeRunning, the client does so only when the fiber is on HOLD and the  *)
(* thread it ran on has let go of it.                                      *)
Parked(f) == m_state[f] = "HOLD" /\ \A t \in Threads : Current(t) # f

Wake(f, p) ==
  /\ f \in waiting
  /\ WakeRunning \/ Parked(f)
  /\ m_tasks' = Append(m_tasks, FiberTask(f, p))
  /\ waiting' = waiting \ {f}
  /\ UNCHANGED <<fiberVars, posted, yields>>

(* schedule(fiber, p) of a fiber the client still points to although it    *)
(* has finished (a thread's own cb_fiber is never handed out).             *)
ScheduleFinished(f, p) ==
  /\ stateTermOrExcept(f)
  /\ \A t \in Threads : cb_fiber[t] # f
  /\ yields < MaxYields
  /\ yields' = yields + 1
  /\ m_tasks' = Append(m_tasks, FiberTask(f, p))
  /\ UNCHANGED <<fiberVars, waiting, posted>>

Schedules(p) ==
  \/ \E c \in Cbs : ScheduleCb(c, p)
  \/ \E c, d \in Cbs : ScheduleRange(c, d)
  \/ \E f \in Fibers, c \in Cbs : ScheduleFiber(f, c, p)
  \/ \E f \in Fibers : Wake(f, p)
  \/ \E f \in Fibers : ScheduleFinished(f, p)

UserSchedules(t) ==
  /\ pc[t] = "user"
  /\ \E p \in {AnyThread} \cup (Pins \cap (IF PinOther THEN Threads ELSE {t})) :
       Schedules(p)
  /\ UNCHANGED <<m_activeThreadCount, m_idleThreadCount, stopVars, pc, localVars>>

CallerSchedules ==
  /\ caller \in {"new", "run"}
  /\ \E p \in {AnyThread} \cup (Pins \cap (IF caller = "run" THEN Threads ELSE {Root})) :
       Schedules(p)
  /\ UNCHANGED <<m_activeThreadCount, m_idleThreadCount, stopVars, pc, localVars>>

(* A callback hands its own fiber to whoever will wake it; all it does     *)
(* after that is YieldToHold().                                            *)
UserArms(t) ==
  /\ pc[t] = "user"
  /\ yields < MaxYields
  /\ yields' = yields + 1
  /\ waiting' = waiting \cup {t_fiber[t]}
  /\ Goto(t, "armed")
  /\ UNCHANGED <<fiberVars, queueVars, stopVars, localVars, posted>>

YieldToHold(t) ==
  /\ pc[t] = "armed"
  /\ setState(t_fiber[t], "HOLD")
  /\ Goto(t, "swapout")
  /\ UNCHANGED <<queueVars, stopVars, localVars, clientVars>>

YieldToReady(t) ==
  /\ pc[t] = "user"
  /\ yields < MaxYields
  /\ yields' = yields + 1
  /\ setState(t_fiber[t], "READY")
  /\ Goto(t, "swapout")
  /\ UNCHANGED <<queueVars, stopVars, localVars, waiting, posted>>

UserReturns(t) ==
  /\ pc[t] = "user"
  /\ MainFuncReturn(t_fiber[t])
  /\ Goto(t, "swapout")
  /\ UNCHANGED <<queueVars, stopVars, localVars, clientVars>>

UserThrows(t) ==
  /\ pc[t] = "user"
  /\ MainFuncExcept(t_fiber[t])
  /\ Goto(t, "swapout")
  /\ UNCHANGED <<queueVars, stopVars, localVars, clientVars>>

-----------------------------------------------------------------------------
(* Scheduler::run() on thread t. *)

Erase_Nothing(i) == m_tasks
Erase_Front(i) == Tail(m_tasks)

(* m_tasks.erase(it) *)
Erase(i) == RemoveAt(m_tasks, i)

(* The locked scan: the first eligible task leaves the list. *)
TakeTask(t) ==
  /\ pc[t] = "scan"
  /\ \E i \in 1..Len(m_tasks) :
       /\ FirstEligible(t, i)
       /\ tk' = [tk EXCEPT ![t] = m_tasks[i]]
       /\ m_tasks' = Erase(i)
  /\ Goto(t, "took")
  /\ UNCHANGED <<fiberVars, m_activeThreadCount, m_idleThreadCount, stopVars,
                 cb_fiber, idle_fiber, clientVars>>

FindNoTask(t) ==
  /\ pc[t] = "scan"
  /\ \A i \in 1..Len(m_tasks) : ~Eligible(t, i)
  /\ Goto(t, "notask")
  /\ UNCHANGED <<fiberVars, queueVars, stopVars, localVars, clientVars>>

CountActive_Forgotten(t) ==
  /\ pc[t] = "took"
  /\ Goto(t, "dispatch")
  /\ UNCHANGED <<fiberVars, queueVars, stopVars, localVars, clientVars>>

(* ++m_activeThreadCount, after the lock is released *)
CountActive(t) ==
  /\ pc[t] = "took"
  /\ m_activeThreadCount' = m_activeThreadCount + 1
  /\ Goto(t, "dispatch")
  /\ UNCHANGED <<fiberVars, m_tasks, m_idleThreadCount, stopVars, localVars, clientVars>>

DispatchFiber(t) ==
  /\ pc[t] = "dispatch"
  /\ tk[t].fiber # NoFiber /\ ~stateTermOrExcept(tk[t].fiber)
  /\ swapIn(t, tk[t].fiber)
  /\ Goto(t, "user")
  /\ UNCHANGED <<queueVars, stopVars, localVars, clientVars>>

(* A callback runs on the thread's cb_fiber, allocated if there is none. *)
DispatchCb(t) ==
  /\ pc[t] = "dispatch"
  /\ tk[t].cb # NoCb
  /\ \E f \in Fibers :
       /\ IF cb_fiber[t] # NoFiber THEN f = cb_fiber[t] ELSE m_state[f] = "none"
       /\ ResetAndSwapIn(t, f, tk[t].cb)
       /\ cb_fiber' = [cb_fiber EXCEPT ![t] = f]
  /\ tk' = [tk EXCEPT ![t] = NoTask]
  /\ Goto(t, "user")
  /\ UNCHANGED <<queueVars, stopVars, idle_fiber, clientVars>>

DropTask_StaysActive(t) ==
  /\ pc[t] = "dispatch"
  /\ tk[t].fiber # NoFiber /\ stateTermOrExcept(tk[t].fiber)
  /\ tk' = [tk EXCEPT ![t] = NoTask]
  /\ Goto(t, "scan")
  /\ UNCHANGED <<fiberVars, queueVars, stopVars, cb_fiber, idle_fiber, clientVars>>

(* The task is a fiber that has finished meanwhile. *)
DropTask(t) ==
  /\ pc[t] = "dispatch"
  /\ tk[t].fiber # NoFiber /\ stateTermOrExcept(tk[t].fiber)
  /\ m_activeThreadCount' = m_activeThreadCount - 1
  /\ tk' = [tk EXCEPT ![t] = NoTask]
  /\ Goto(t, "scan")
  /\ UNCHANGED <<fiberVars, m_tasks, m_idleThreadCount, stopVars, cb_fiber,
                 idle_fiber, clientVars>>

SwapOut(t) ==
  /\ pc[t] = "swapout"
  /\ swapOut(t)
  /\ Goto(t, "back")
  /\ UNCHANGED <<queueVars, stopVars, localVars, clientVars>>

(* --m_activeThreadCount, before the fiber's state is looked at *)
UncountActive(t) ==
  /\ pc[t] = "back"
  /\ m_activeThreadCount' = m_activeThreadCount - 1
  /\ Goto(t, "post")
  /\ UNCHANGED <<fiberVars, m_tasks, m_idleThreadCount, stopVars, localVars, clientVars>>

LetGo_Keeps(t) == UNCHANGED cb_fiber

(* cb_fiber.reset(), if it is the fiber that was run *)
LetGo(t) ==
  cb_fiber' = IF tk[t].fiber # NoFiber THEN cb_fiber
              ELSE [cb_fiber EXCEPT ![t] = NoFiber]

(* The fiber yielded to READY: it goes to the back of the list, without    *)
(* the pin of the task it came from.  run() keeps no pointer to it.        *)
PostReady(t) ==
  /\ pc[t] = "post"
  /\ m_state[Current(t)] = "READY"
  /\ m_tasks' = Append(m_tasks, FiberTask(Current(t), AnyThread))
  /\ LetGo(t)
  /\ tk' = [tk EXCEPT ![t] = NoTask]
  /\ Goto(t, "scan")
  /\ UNCHANGED <<fiberVars, m_activeThreadCount, m_idleThreadCount, stopVars,
                 idle_fiber, clientVars>>

(* The fiber finished.  cb_fiber is kept for the next callback. *)
PostFinished(t) ==
  /\ pc[t] = "post"
  /\ stateTermOrExcept(Current(t))
  /\ IF tk[t].fiber # NoFiber THEN UNCHANGED fiberVars ELSE ResetToNull(cb_fiber[t])
  /\ tk' = [tk EXCEPT ![t] = NoTask]
  /\ Goto(t, "scan")
  /\ UNCHANGED <<queueVars, stopVars, cb_fiber, idle_fiber, clientVars>>

(* Any other state: the fiber is put on HOLD and run() lets go of it. *)
PostHold(t) ==
  /\ pc[t] = "post"
  /\ m_state[Current(t)] \notin {"READY", "TERM", "EXCEPT"}
  /\ setState(Current(t), "HOLD")
  /\ LetGo(t)
  /\ tk' = [tk EXCEPT ![t] = NoTask]
  /\ Goto(t, "scan")
  /\ UNCHANGED <<queueVars, stopVars, idle_fiber, clientVars>>

(* No task: the loop ends once the idle fiber has, else it is entered. *)
EnterIdle(t) ==
  /\ pc[t] = "notask"
  /\ idle_fiber[t] # "TERM"
  /\ m_idleThreadCount' = m_idleThreadCount + 1
  /\ idle_fiber' = [idle_fiber EXCEPT ![t] = "EXEC"]
  /\ Goto(t, "idle")
  /\ UNCHANGED <<fiberVars, m_tasks, m_activeThreadCount, stopVars, tk, cb_fiber,
                 clientVars>>

(* idle(): it ends when stopping() holds, and yields to HOLD otherwise. *)
Idle(t) ==
  /\ pc[t] = "idle"
  /\ idle_fiber' = [idle_fiber EXCEPT ![t] = IF stopping THEN "TERM" ELSE "HOLD"]
  /\ Goto(t, "idleback")
  /\ UNCHANGED <<fiberVars, queueVars, stopVars, tk, cb_fiber, clientVars>>

LeaveIdle(t) ==
  /\ pc[t] = "idleback"
  /\ m_idleThreadCount' = m_idleThreadCount - 1
  /\ Goto(t, "scan")
  /\ UNCHANGED <<fiberVars, m_tasks, m_activeThreadCount, stopVars, localVars, clientVars>>

(* run() returns: its locals are destroyed. *)
ExitRun(t) ==
  /\ pc[t] = "notask"
  /\ idle_fiber[t] = "TERM"
  /\ cb_fiber' = [cb_fiber EXCEPT ![t] = NoFiber]
  /\ Goto(t, "exit")
  /\ UNCHANGED <<fiberVars, queueVars, stopVars, tk, idle_fiber, clientVars>>

-----------------------------------------------------------------------------
(* start() and stop(), called by the owner. *)

(* m_mutex is held throughout, so no thread scans before start() returns.  *)
(* A scheduler with use_caller is started once: its root fiber cannot be   *)
(* entered again after it has finished.                                    *)
Start ==
  /\ caller \in (IF Root \in Threads THEN {"new"} ELSE {"new", "done"})
  /\ starts < MaxStarts
  /\ starts' = starts + 1
  /\ m_stopping
  /\ m_stopping' = FALSE
  /\ pc' = [t \in Threads |-> IF t \in Workers THEN "scan" ELSE pc[t]]
  /\ idle_fiber' = [t \in Threads |-> "INIT"]
  /\ caller' = "run"
  /\ UNCHANGED <<fiberVars, queueVars, m_autoStop, tk, cb_fiber, clientVars>>

(* stop(): m_autoStop = true.  A scheduler without threads of its own that *)
(* has nothing to do returns at once.                                      *)
Stop ==
  /\ caller = "run"
  /\ m_autoStop' = TRUE
  /\ caller' = "stop"
  /\ UNCHANGED <<fiberVars, queueVars, m_stopping, starts, pc, localVars, clientVars>>

StopAtOnce ==
  /\ caller = "stop"
  /\ Workers = {} /\ NoWork
  /\ m_stopping' = TRUE
  /\ caller' = "done"
  /\ UNCHANGED <<fiberVars, queueVars, m_autoStop, starts, pc, localVars, clientVars>>

SignalStop_Forgotten ==
  /\ caller = "stop"
  /\ Workers # {} \/ ~NoWork
  /\ caller' = "signalled"
  /\ UNCHANGED <<fiberVars, queueVars, m_stopping, m_autoStop, starts, pc, localVars, clientVars>>

SignalStop ==
  /\ caller = "stop"
  /\ Workers # {} \/ ~NoWork
  /\ m_stopping' = TRUE
  /\ caller' = "signalled"
  /\ UNCHANGED <<fiberVars, queueVars, m_autoStop, starts, pc, localVars, clientVars>>

(* With use_caller the owner runs the loop too, unless stopping() holds. *)
EnterRoot ==
  /\ caller = "signalled"
  /\ Root \in Threads /\ ~stopping
  /\ pc' = [pc EXCEPT ![Root] = "scan"]
  /\ caller' = "root"
  /\ UNCHANGED <<fiberVars, queueVars, m_stopping, m_autoStop, starts, localVars, clientVars>>

SkipRoot ==
  /\ caller = "signalled"
  /\ Root \notin Threads \/ stopping
  /\ caller' = "join"
  /\ UNCHANGED <<fiberVars, queueVars, m_stopping, m_autoStop, starts, pc, localVars, clientVars>>

LeaveRoot ==
  /\ caller = "root"
  /\ pc[Root] = "exit"
  /\ caller' = "join"
  /\ UNCHANGED <<fiberVars, queueVars, m_stopping, m_autoStop, starts, pc, localVars, clientVars>>

Join_NoWait ==
  /\ caller = "join"
  /\ caller' = "done"
  /\ UNCHANGED <<fiberVars, queueVars, m_stopping, m_autoStop, starts, pc, localVars, clientVars>>

Join ==
  /\ caller = "join"
  /\ \A t \in Workers : pc[t] = "exit"
  /\ caller' = "done"
  /\ UNCHANGED <<fiberVars, queueVars, m_stopping, m_autoStop, starts, pc, localVars, clientVars>>

(* The owner has stopped the scheduler for the last time. *)
Finished ==
  /\ caller = "done"
  /\ Root \in Threads \/ starts = MaxStarts
  /\ UNCHANGED vars

-----------------------------------------------------------------------------

User(t) ==
  \/ UserSchedules(t) \/ UserArms(t)
  \/ YieldToHold(t) \/ YieldToReady(t)
  \/ UserReturns(t) \/ UserThrows(t)

run(t) ==
  \/ TakeTask(t) \/ FindNoTask(t) \/ CountActive(t)
  \/ DispatchFiber(t) \/ DispatchCb(t) \/ DropTask(t)
  \/ SwapOut(t) \/ UncountActive(t)
  \/ PostReady(t) \/ PostFinished(t) \/ PostHold(t)
  \/ EnterIdle(t) \/ Idle(t) \/ LeaveIdle(t) \/ ExitRun(t)

StopProceeds ==
  \/ StopAtOnce \/ SignalStop \/ EnterRoot \/ SkipRoot \/ LeaveRoot \/ Join

Next ==
  \/ \E t \in Threads : User(t) \/ run(t)
  \/ CallerSchedules \/ Start \/ Stop \/ StopProceeds
  \/ Finished

(* The operating system runs every thread, and a callback does not block:  *)
(* it keeps taking steps until it yields or ends.  The owner need not call *)
(* stop(), but stop() itself proceeds.                                     *)
Fairness ==
  /\ \A t \in Threads : WF_vars(User(t) \/ run(t))
  /\ WF_vars(StopProceeds)

Spec == Init /\ [][Next]_vars
FairSpec == Spec /\ Fairness

-----------------------------------------------------------------------------
(* Safety. *)

Queued(f) == {i \in 1..Len(m_tasks) : m_tasks[i].fiber = f}
NumberAt(L) == Cardinality({t \in Threads : pc[t] \in L})
Holders(f) == {t \in Threads : pc[t] # "exit" /\ Current(t) = f}

(* The atomic counters say how many threads run a task and how many are in *)
(* the idle fiber, at every step: each ++ of run() is matched by one -- on *)
(* every path (task run, task dropped, idle), so that stopping() cannot    *)
(* miss a running task for good and the size_t never wraps below zero.     *)
CountersExact ==
  /\ m_activeThreadCount = NumberAt(ActivePcs)
  /\ m_idleThreadCount = NumberAt(IdlePcs)

(* Two threads are never on the stack of the same fiber, although fibers   *)
(* move between threads through m_tasks and are requeued by the thread     *)
(* they leave.                                                             *)
FiberExclusive ==
  \A t, u \in Threads : t_fiber[t] = t_fiber[u] /\ t_fiber[t] # NoFiber => t = u

(* The fiber whose code runs is in state EXEC: what YieldToReady() and     *)
(* YieldToHold() assert of the current fiber (fiber.cpp:149, 156).         *)
RunningFiberIsExec ==
  \A t \in Threads : pc[t] \in {"user", "armed"} => m_state[t_fiber[t]] = "EXEC"

(* The asserts of swapIn() and reset(), and of the destructor that runs    *)
(* when run() drops cb_fiber: a task's fiber is not EXEC when its thread   *)
(* swaps into it, and a cb_fiber that runs nothing is INIT.                *)
SuspendedFiberStates ==
  \A t \in Threads :
    /\ pc[t] = "dispatch" /\ tk[t].fiber # NoFiber => m_state[tk[t].fiber] # "EXEC"
    /\ /\ cb_fiber[t] # NoFiber
       /\ pc[t] \notin OnFiber \cup {"back", "post"} \/ tk[t].fiber # NoFiber
       => m_state[cb_fiber[t]] = "INIT"

(* A fiber that still has code to run is in exactly one place: one entry   *)
(* of m_tasks, one thread, or with the client that will wake it.  A second *)
(* entry would run it twice, none would lose it.                           *)
FiberOwnedOnce ==
  \A f \in Fibers :
    LET places == Cardinality(Queued(f)) + Cardinality(Holders(f))
    IN  CASE m_state[f] \in {"READY", "EXEC"} -> places = 1
          [] m_state[f] = "INIT" /\ m_cb[f] # NoCb -> places = 1
          [] m_state[f] = "HOLD" -> places <= 1 /\ (places = 0 => f \in waiting)
          [] OTHER -> TRUE

(* The callbacks of a list entry or of a taken task that are to be started *)
(* by it: its cb, or the m_cb of a fiber that was never swapped into.      *)
Starts(k) ==
  IF k.fiber = NoFiber THEN {k.cb} \ {NoCb}
  ELSE IF m_state[k.fiber] = "INIT" THEN {m_cb[k.fiber]} ELSE {}

Pending ==
  UNION ({Starts(m_tasks[i]) : i \in 1..Len(m_tasks)} \cup {Starts(tk[t]) : t \in Threads})

(* Every callback handed to schedule() is still to be started or has been  *)
(* entered, and never both: none is lost between m_tasks, tk and MainFunc, *)
(* and none runs twice.                                                    *)
NoCallbackLost ==
  /\ posted = entered \cup Pending
  /\ entered \cap Pending = {}
  /\ \A i, j \in 1..Len(m_tasks) :
       Starts(m_tasks[i]) \cap Starts(m_tasks[j]) # {} => i = j

(* A task pinned to a thread that will not look at the list again: it has  *)
(* left run(), or is the owner's and stop() is past it.  Only a callback   *)
(* that pins a task to another thread than its own can get there, when     *)
(* that thread saw stopping() before the callback was counted.             *)
Stranded ==
  PinOther /\ \E i \in 1..Len(m_tasks), t \in Threads :
    /\ m_tasks[i].thread = t
    /\ pc[t] = "exit" \/ (t = Root /\ caller \in {"join", "done"})

(* When stop() has returned, every callback has been started, the list is  *)
(* empty, no thread is left in run() and no counter is left raised, unless *)
(* a task is stranded: threads may see stopping() and end their idle       *)
(* fibers while a task is taken but not yet counted, but whatever that     *)
(* task schedules is still run.                                            *)
StopDrains ==
  caller = "done" =>
    /\ Stranded \/ (m_tasks = <<>> /\ posted = entered)
    /\ \A t \in Threads : pc[t] \in {"none", "exit"} /\ t_fiber[t] = NoFiber
    /\ m_activeThreadCount = 0 /\ m_idleThreadCount = 0

-----------------------------------------------------------------------------
(* The inductive strengthening of the safety properties, for clients that  *)
(* wake parked fibers only (~WakeRunning).                                 *)

Attached == OnFiber \cup {"back", "post"}
Resumable == {"INIT", "READY", "HOLD", "TERM", "EXCEPT"}

(* A thread's locals and the stack it is on agree with where it is. *)
LocalsInv ==
  \A t \in Threads :
    /\ t_fiber[t] = IF pc[t] \in OnFiber THEN Current(t) ELSE NoFiber
    /\ pc[t] \in Attached => Current(t) \in Fibers /\ tk[t].cb = NoCb
    /\ pc[t] \notin Attached \cup {"took", "dispatch"} => tk[t] = NoTask
    /\ pc[t] \in {"took", "dispatch"} => (tk[t].fiber = NoFiber <=> tk[t].cb # NoCb)

(* A fiber's state agrees with what its thread is doing with it. *)
StatesInv ==
  \A t \in Threads :
    /\ pc[t] \in {"user", "armed"} => m_state[Current(t)] = "EXEC"
    /\ pc[t] \in {"swapout", "back", "post"} =>
         m_state[Current(t)] \in {"READY", "HOLD", "TERM", "EXCEPT"}
    /\ pc[t] \in {"took", "dispatch"} /\ tk[t].fiber # NoFiber =>
         /\ m_state[tk[t].fiber] \in Resumable
         /\ m_state[tk[t].fiber] = "INIT" => m_cb[tk[t].fiber] \in Cbs
    /\ cb_fiber[t] # NoFiber /\ (pc[t] \notin Attached \/ tk[t].fiber # NoFiber) =>
         m_state[cb_fiber[t]] = "INIT"

(* A list entry is a callback or a fiber that can be swapped into. *)
QueueInv ==
  \A i \in 1..Len(m_tasks) :
    /\ m_tasks[i].fiber = NoFiber <=> m_tasks[i].cb # NoCb
    /\ m_tasks[i].fiber # NoFiber =>
         /\ m_state[m_tasks[i].fiber] \in Resumable
         /\ m_state[m_tasks[i].fiber] = "INIT" => m_cb[m_tasks[i].fiber] \in Cbs

(* No fiber has two owners, except finished ones that clients reschedule;  *)
(* a thread's cb_fiber has no other owner even then.                       *)
ThreadsOwn ==
  \A t, u \in Threads :
    /\ t # u /\ cb_fiber[t] # NoFiber => cb_fiber[t] # cb_fiber[u]
    /\ tk[t].fiber # NoFiber => tk[t].fiber # cb_fiber[u]
    /\ t # u /\ tk[t].fiber # NoFiber /\ tk[t].fiber = tk[u].fiber =>
         stateTermOrExcept(tk[t].fiber)

QueueOwns ==
  \A i \in 1..Len(m_tasks) : m_tasks[i].fiber # NoFiber =>
    /\ \A t \in Threads : m_tasks[i].fiber # cb_fiber[t]
    /\ \A t \in Threads : m_tasks[i].fiber = tk[t].fiber =>
         stateTermOrExcept(m_tasks[i].fiber)
    /\ \A j \in 1..Len(m_tasks) : i # j /\ m_tasks[i].fiber = m_tasks[j].fiber =>
         stateTermOrExcept(m_tasks[i].fiber)

(* A fiber that waits to be woken is parked, or its thread parks it next. *)
WaitingInv ==
  \A f \in waiting :
    /\ m_state[f] \in {"EXEC", "HOLD"}
    /\ \A i \in 1..Len(m_tasks) : m_tasks[i].fiber # f
    /\ \A t \in Threads : f \in {tk[t].fiber, cb_fiber[t]} =>
         f = Current(t) /\ pc[t] \in Attached \ {"user"}

(* No thread is in run() before start() or after stop(), and the owner     *)
(* enters it from stop() only.                                             *)
CallerInv ==
  /\ caller \in {"new", "done"} => \A t \in Threads : pc[t] \in {"none", "exit"}
  /\ caller \in {"new", "run", "stop", "signalled"} /\ Root \in Threads => pc[Root] = "none"
  /\ caller = "join" /\ Root \in Threads => pc[Root] \in {"none", "exit"}

OwnershipInv ==
  LocalsInv /\ StatesInv /\ QueueInv /\ ThreadsOwn /\ QueueOwns /\ WaitingInv

IInv == TypeOK /\ CountersExact /\ FiberExclusive /\ CallerInv /\ OwnershipInv

-----------------------------------------------------------------------------
(* What conservation and draining need on top of IInv.                     *)

(* No callback is about to be started in two places: not by two entries,   *)
(* two threads, or an entry and a thread.                                  *)
StartsInv ==
  /\ NoCallbackLost
  /\ \A t \in Threads, i \in 1..Len(m_tasks) : Starts(m_tasks[i]) \cap Starts(tk[t]) = {}
  /\ \A t, u \in Threads : Starts(tk[t]) \cap Starts(tk[u]) # {} => t = u

HasCode(f) ==
  m_state[f] \in {"READY", "EXEC"} \/ (m_state[f] = "INIT" /\ m_cb[f] # NoCb)

Somewhere(f) ==
  \/ \E i \in 1..Len(m_tasks) : m_tasks[i].fiber = f
  \/ \E t \in Threads : pc[t] # "exit" /\ Current(t) = f

(* A fiber with code to run is somewhere, and so is one on HOLD that no    *)
(* client will wake.                                                       *)
PlacesInv ==
  \A f \in Fibers :
    HasCode(f) \/ (m_state[f] = "HOLD" /\ f \notin waiting) => Somewhere(f)

(* A fiber has told its waker when it yields to HOLD, and a kept cb_fiber  *)
(* has no code.                                                            *)
YieldInv ==
  \A t \in Threads :
    /\ pc[t] = "armed" => Current(t) \in waiting
    /\ pc[t] \in {"swapout", "back", "post"} /\ m_state[Current(t)] = "HOLD" =>
         Current(t) \in waiting
    /\ cb_fiber[t] # NoFiber /\ (pc[t] \notin Attached \/ tk[t].fiber # NoFiber) =>
         m_cb[cb_fiber[t]] = NoCb

(* Thread t scans the list again, or scans it for the first time.  After   *)
(* its idle fiber has ended, the scan that finds nothing is the last.      *)
LooksAgain(t) ==
  /\ pc[t] # "exit"
  /\ ~(pc[t] = "notask" /\ idle_fiber[t] = "TERM")
  /\ pc[t] = "none" => caller \in {"new", "run", "stop", "signalled"}

(* Idle fibers end only once stop() has signalled, and threads leave run() *)
(* only after that.                                                        *)
EndInv ==
  /\ ~m_stopping => \A t \in Threads : idle_fiber[t] # "TERM"
  /\ caller \in {"run", "stop"} => ~m_stopping
  /\ \A t \in Threads : pc[t] = "exit" => idle_fiber[t] = "TERM"
  /\ caller = "new" => \A t \in Threads : pc[t] = "none"
  /\ caller # "new" => \A t \in Workers : pc[t] # "none"
  /\ caller = "root" => Root \in Threads /\ pc[Root] # "none"

(* Whatever is in the list will be seen by a thread that may take it.      *)
SeenInv ==
  \A i \in 1..Len(m_tasks) :
    /\ m_tasks[i].thread = AnyThread => \E t \in Threads : LooksAgain(t)
    /\ m_tasks[i].thread \in Threads => PinOther \/ LooksAgain(m_tasks[i].thread)

ConservationInv ==
  IInv /\ StartsInv /\ PlacesInv /\ YieldInv /\ EndInv /\ SeenInv

-----------------------------------------------------------------------------
(* Liveness. *)

(* stop() returns: the idle loops of all threads see stopping() at last,   *)
(* and a stranded task is the only thing that can keep them from it.       *)
StopReturns == caller = "stop" ~> caller = "done" \/ Stranded

(* The owner has not called stop() yet, and c waits for the owner's thread.*)
WaitsForOwner(c) ==
  caller = "run" /\ \E i \in 1..Len(m_tasks) :
    m_tasks[i].thread = Root /\ c \in Starts(m_tasks[i])

(* A started scheduler starts every callback it is given, whether stop()   *)
(* is called or not, unless a task is stranded.  What is pinned to the     *)
(* owner's thread waits for stop().                                        *)
EveryCallbackStarts ==
  \A c \in Cbs :
    (c \in posted /\ caller # "new" /\ ~WaitsForOwner(c)) ~> (c \in entered \/ Stranded)

-----------------------------------------------------------------------------
(* The scheduler keeps the promise of Executor: what is pending there is   *)
(* what the list and the tasks taken from it will start.                   *)
Promise == INSTANCE Executor WITH
  pending <- Pending, started <- entered, up <- caller \notin {"new", "done"}

(* Every step of a thread, of a callback or of the owner is a step of      *)
(* Executor or invisible there: no callback is started twice, lost, or     *)
(* started by a scheduler that is down, and stop() returns with nothing    *)
(* pending, also after a restart.                                          *)
ImplementsExecutor == Promise!Spec

=============================================================================
