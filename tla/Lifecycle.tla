----------------------------- MODULE Lifecycle -----------------------------
(***************************************************************************)
(* The life of an IOManager (wille/iomanager.cpp, wille/scheduler.cpp):    *)
(* the constructor makes the table of contexts and starts the threads, the *)
(* threads call addEvent(), cancelAll() and idle(), and the destructor     *)
(* stops them, joins them and deletes the contexts.  Thread and FdTable    *)
(* are composed; what makes a thread return from run() is the shutdown of  *)
(* IOManager.tla, reduced to its conditions.                               *)
(***************************************************************************)
EXTENDS Thread, FdTable, SequencesExt

(* The threads of the pool make the calls. *)
ASSUME LifecycleAssumption == Callers = Threads

VARIABLES
  owner,       \* where the constructor or the destructor is
  m_threads,   \* Scheduler::m_threads
  m_threadIds, \* Scheduler::m_threadIds
  m_stopping

ownerVars == <<owner, m_threads, m_threadIds, m_stopping>>
vars == <<threadVars, fdTableVars, ownerVars>>

TypeOK ==
  /\ ThreadTypeOK /\ FdTableTypeOK
  /\ owner \in {"construct", "start", "wait", "up", "stop", "delete", "gone"}
  /\ m_threads \in Seq(Threads) /\ m_threadIds \in Seq(Threads \cup {None})
  /\ m_stopping \in BOOLEAN

Init ==
  /\ ThreadInit /\ FdTableInit
  /\ owner = "construct" /\ m_threads = <<>> /\ m_threadIds = <<>> /\ m_stopping = TRUE

(* IOManager() makes the first contexts; start() follows. *)
Construct ==
  /\ owner = "construct" /\ ContextResize(InitSize)
  /\ owner' = "start" /\ m_stopping' = FALSE
  /\ UNCHANGED <<threadVars, registered, epoll, deleted, call, dropped, m_threads, m_threadIds>>

(* start() makes a Thread, whose constructor waits, ... *)
StartThread ==
  /\ owner = "start" /\ owner' = "wait"
  /\ \E t \in Threads : Create(t) /\ m_threads' = Append(m_threads, t)
  /\ UNCHANGED <<fdTableVars, m_threadIds, m_stopping>>

(* ... and asks it for its id. *)
ThreadStarted ==
  LET t == Last(m_threads)
  IN  /\ owner = "wait" /\ Wait(t)
      /\ m_threadIds' = Append(m_threadIds, m_id[t])
      /\ owner' = IF Threads \subseteq ToSet(m_threads) THEN "up" ELSE "start"
      /\ UNCHANGED <<fdTableVars, m_threads, m_stopping>>

(* ~IOManager() calls stop(), ... *)
Stop ==
  /\ owner = "up" /\ owner' = "stop" /\ m_stopping' = TRUE
  /\ UNCHANGED <<threadVars, fdTableVars, m_threads, m_threadIds>>

(* ... which joins one thread after the other ... *)
JoinThread ==
  /\ owner = "stop"
  /\ \E i \in DOMAIN m_threads :
       (\A j \in 1..(i - 1) : ~m_thread[m_threads[j]]) /\ Join(m_threads[i])
  /\ UNCHANGED <<fdTableVars, ownerVars>>

(* ... and lets go of them; ... *)
Joined ==
  /\ owner = "stop" /\ \A t \in ToSet(m_threads) : ~m_thread[t]
  /\ owner' = "delete" /\ m_threads' = <<>> /\ Destroy(ToSet(m_threads))
  /\ UNCHANGED <<fdTableVars, m_threadIds, m_stopping>>

(* ... the contexts go last. *)
Delete ==
  /\ owner = "delete" /\ owner' = "gone" /\ DeleteContexts
  /\ UNCHANGED <<threadVars, m_threads, m_threadIds, m_stopping>>

(* start() holds Scheduler::m_mutex, which run() takes first of all. *)
InRun(t) == run[t] = "callback" /\ owner \notin {"start", "wait"}

(* A thread runs callbacks and idle(), and returns after stop() when       *)
(* nothing is pending and no callback is running.                          *)
Work(t) == InRun(t) /\ Caller(t) /\ UNCHANGED <<threadVars, ownerVars>>

Leave(t) ==
  /\ InRun(t) /\ Return(t) /\ m_stopping /\ registered = {} /\ \A u \in Threads : call[u] = NoCall
  /\ UNCHANGED <<fdTableVars, ownerVars>>

BeginRun(t) == (Name(t) \/ Notify(t)) /\ UNCHANGED <<fdTableVars, ownerVars>>

Next ==
  \/ Construct \/ StartThread \/ ThreadStarted \/ Stop \/ JoinThread \/ Joined \/ Delete
  \/ \E t \in Threads : BeginRun(t) \/ Work(t) \/ Leave(t)

Spec == Init /\ [][Next]_vars

(* A thread is never suspended forever. *)
FairSpec ==
  /\ Spec
  /\ WF_vars(Construct) /\ WF_vars(StartThread) /\ WF_vars(ThreadStarted)
  /\ \A t \in Threads : WF_vars(BeginRun(t))

-----------------------------------------------------------------------------

(* start() takes the id of a thread out of its object only after the       *)
(* thread has stored it there: m_threadIds has the id of every thread that *)
(* was started, in their order.                                            *)
IdsKnown ==
  owner \in {"start", "up", "stop"} => m_threadIds = m_threads

(* The constructor returns: a new thread notifies before it calls run(),   *)
(* and so before it waits for the mutex that start() holds.                *)
StartReturns == <>(owner = "up")

(* Nothing is used after it was deleted: a thread's object is alive while  *)
(* run() or the thread's t_thread may lead to it, and no thread holds a    *)
(* context that the destructor has deleted, from the table or from epoll.  *)
NoUseAfterDelete ==
  \A t \in Threads :
    /\ UsesObject(t) => object[t] = "alive"
    /\ call[t].ctx # 0 => Context(t) \notin deleted

(* A context with an event can be found through the table, so that         *)
(* delEvent() and cancelAll() reach it, unless its entry was cut off by an *)
(* addEvent() that chose the new size before another one had grown the     *)
(* table.                                                                  *)
RegisteredReachable ==
  \A c \in registered : table[c[1]] = c[2] \/ c[1] \in dropped

(* Even where an entry was cut off and made again, a descriptor has events *)
(* in one context only, the one that epoll's reports lead to: epoll        *)
(* refuses the second.  And no look-up leaves the table.                   *)
OneContextPerFd ==
  /\ \A fd \in Fds : {c \in registered : c[1] = fd} = {<<fd, epoll[fd]>>} \ {<<fd, 0>>}
  /\ \A t \in Threads : call[t].op \in {"cancelAll", "idle"} => call[t].ctx # 0

=============================================================================
