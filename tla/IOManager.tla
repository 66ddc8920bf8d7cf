----------------------------- MODULE IOManager -----------------------------
(***************************************************************************)
(* wille::IOManager (wille/iomanager.h, wille/iomanager.cpp): callbacks    *)
(* that wait for a descriptor, the epoll instance, and the threads that    *)
(* run the callbacks and poll when there is nothing to run.                *)
(*                                                                         *)
(* The calls on a descriptor hold its FdContext::mutex from the check to   *)
(* the end; they are split where another thread can see the difference: at *)
(* epoll_ctl(), which epoll_wait() observes, at schedule() and at          *)
(* m_pendingEventCount, which stopping() observes.  The scheduler is the   *)
(* part of Scheduler::run() that stopping() depends on, and a timer is     *)
(* armed until it is due, or cancelled: Scheduler.tla and Timer.tla have   *)
(* all of them.                                                            *)
(*                                                                         *)
(* epoll is external: it is edge-triggered, it reports what is ready among *)
(* the interest, it forgets what it has reported, and epoll_ctl() looks at *)
(* the descriptor again.  It forgets a descriptor that is closed, and      *)
(* epoll_ctl() fails when the descriptor is closed, or is (not) in the set *)
(* already.  A call on a descriptor that fails at epoll_ctl() returns      *)
(* false and changes nothing, except where an action says otherwise.       *)
(***************************************************************************)
EXTENDS Integers, FiniteSets

CONSTANTS
  Threads,    \* the threads of the pool
  Fds,        \* descriptors
  Callbacks,  \* bound: one for each addEvent() and addTimer(), and Main
  Main,       \* the callback that is scheduled at the start
  Recurring,  \* the callbacks whose timers may be recurring
  Directions, \* which of READ and WRITE the callbacks wait for
  Ops,        \* which of the calls below the callbacks make; "fiberWait" is
              \* addEvent() without a callback, followed by YieldToHold()
  None

READ == "READ"
WRITE == "WRITE"
HUP == "HUP"    \* EPOLLERR or EPOLLHUP

ASSUME IOAssumption ==
  /\ Main \in Callbacks /\ Recurring \subseteq Callbacks
  /\ None \notin Callbacks \cup Fds \cup Threads
  /\ Directions \subseteq {READ, WRITE}
  /\ Ops \subseteq {"addEvent", "delEvent", "cancelEvent", "cancelAll", "fiberWait",
                     "addTimer", "cancelTimer", "close"}

ASSUME PoolAssumption == Threads # {} /\ IsFiniteSet(Threads) /\ IsFiniteSet(Fds)

VARIABLES
  open,        \* the descriptors that are open
  interest,    \* epoll: the events asked for; empty when fd is not in the set
  armed,       \* epoll: fd is on the ready list
  ready,       \* the descriptor: what epoll finds when it looks
  events,      \* FdContext::events
  ctx,         \* FdContext::read and ::write: the callback, or None
  holder,      \* who holds FdContext::mutex
  m_pendingEventCount,
  m_timers,    \* TimerManager::m_timers: the callbacks of timers that are armed
  due,         \* those of them whose time has come
  m_recurring, \* those that were given to addTimer() as recurring, armed or not
  m_tasks,     \* Scheduler::m_tasks
  m_activeThreadCount,
  m_stopping,
  ended,       \* the threads whose idle_fiber is in TERM
  pc,          \* where each thread is
  cb,          \* the callback it runs
  op,          \* the call it is in: descriptor, events, callback
  got,         \* what epoll_wait() gave it: pairs of a descriptor and events
  cbs,         \* the callbacks of expired timers it has taken
  given,       \* history: callbacks that addEvent() or addTimer() has accepted
  done,        \* history: callbacks that have run
  removed,     \* history: callbacks that delEvent() or cancel() dropped
  orphaned,    \* history: callbacks that wait for a descriptor that was closed
  late         \* history: callbacks last accepted from a thread whose idle fiber had ended

epollVars == <<interest, armed>>
timerVars == <<m_timers, due, m_recurring, cbs>>
worldVars == <<open, ready, timerVars>>
fdVars == <<events, ctx, holder>>
schedVars == <<m_tasks, m_activeThreadCount, m_stopping, ended>>
threadVars == <<pc, cb, op, got>>
historyVars == <<given, done, removed, orphaned, late>>
vars == <<worldVars, epollVars, fdVars, m_pendingEventCount, schedVars, threadVars, historyVars>>

NoOp == <<None, {}, None>>

TypeOK ==
  /\ open \subseteq Fds /\ due \subseteq m_timers /\ m_timers \subseteq Callbacks
  /\ cbs \in [Threads -> SUBSET Callbacks]
  /\ interest \in [Fds -> SUBSET Directions] /\ armed \in [Fds -> BOOLEAN]
  /\ ready \in [Fds -> SUBSET (Directions \cup {HUP})]
  /\ events \in [Fds -> SUBSET Directions]
  /\ ctx \in [Fds -> [Directions -> Callbacks \cup {None}]]
  /\ holder \in [Fds -> Threads \cup {None}]
  /\ m_pendingEventCount \in Nat
  /\ m_tasks \subseteq Callbacks /\ m_activeThreadCount \in Nat /\ m_stopping \in BOOLEAN
  /\ pc \in [Threads -> {"run", "taken", "callback", "yield", "timers", "stopping", "pending",
                         "wait", "expired", "schedule", "events", "add", "del", "trigger",
                         "uncount", "gone"}]
  /\ cb \in [Threads -> Callbacks \cup {None}]
  /\ op \in [Threads -> {NoOp} \cup (Fds \X (SUBSET Directions) \X (Callbacks \cup {None}))]
  /\ got \in [Threads -> SUBSET (Fds \X (SUBSET (Directions \cup {HUP})))]
  /\ ended \subseteq Threads /\ m_recurring \subseteq Recurring \cap given
  /\ given \cup done \cup removed \cup orphaned \cup late \subseteq Callbacks

Init ==
  /\ open = Fds /\ m_timers = {} /\ due = {} /\ m_recurring = {} /\ cbs = [t \in Threads |-> {}]
  /\ interest = [fd \in Fds |-> {}] /\ armed = [fd \in Fds |-> FALSE]
  /\ ready = [fd \in Fds |-> {}]
  /\ events = [fd \in Fds |-> {}] /\ ctx = [fd \in Fds |-> [ev \in Directions |-> None]]
  /\ holder = [fd \in Fds |-> None]
  /\ m_pendingEventCount = 0
  /\ m_tasks = {Main} /\ m_activeThreadCount = 0 /\ m_stopping = FALSE
  /\ pc = [t \in Threads |-> "run"] /\ ended = {} /\ cb = [t \in Threads |-> None]
  /\ op = [t \in Threads |-> NoOp] /\ got = [t \in Threads |-> {}]
  /\ given = {Main} /\ done = {} /\ removed = {} /\ orphaned = {} /\ late = {}

-----------------------------------------------------------------------------
(* The descriptors and epoll *)

(* Something happens on fd: it is ready for ev, or is so again. *)
Edge(fd, ev) ==
  /\ fd \in open
  /\ ready' = [ready EXCEPT ![fd] = @ \cup {ev}]
  /\ armed' = [armed EXCEPT ![fd] = @ \/ ev \in interest[fd]
                                      \/ (ev = HUP /\ interest[fd] # {})]
  /\ UNCHANGED <<open, interest, timerVars, fdVars, m_pendingEventCount, schedVars,
                 threadVars, historyVars>>

(* A new file gets the number of a closed one. *)
Reopen(fd) ==
  /\ fd \notin open /\ open' = open \cup {fd}
  /\ UNCHANGED <<epollVars, timerVars, ready, fdVars, m_pendingEventCount, schedVars,
                 threadVars, historyVars>>

(* epoll_ctl() succeeds: EPOLL_CTL_ADD, or MOD and DEL. *)
Accepts(fd, add) == fd \in open /\ (add <=> interest[fd] = {})

(* epoll_ctl() with EPOLLET | set, and EPOLL_CTL_DEL when set is empty *)
EpollCtl(fd, add, set) ==
  IF Accepts(fd, add)
  THEN /\ interest' = [interest EXCEPT ![fd] = set]
       /\ armed' = [armed EXCEPT ![fd] =
                      set # {} /\ (@ \/ ready[fd] \cap (set \cup {HUP}) # {})]
  ELSE UNCHANGED epollVars

Reports(fd) == IF armed[fd] THEN ready[fd] \cap (interest[fd] \cup {HUP}) ELSE {}

-----------------------------------------------------------------------------
(* The calls on a descriptor, made by a callback *)

Goto(t, l) == pc' = [pc EXCEPT ![t] = l]

Waiting == {ctx[fd][ev] : fd \in Fds, ev \in Directions} \ {None}

Enter_NoLock(t, fd, add, set, evs, c, l) ==
  /\ holder' = [holder EXCEPT ![fd] = t]
  /\ EpollCtl(fd, add, set)
  /\ op' = [op EXCEPT ![t] = <<fd, evs, c>>]
  /\ Goto(t, l)

(* The call locks the mutex and is past its checks; epoll will want set. *)
Enter(t, fd, add, set, evs, c, l) ==
  /\ holder[fd] = None
  /\ holder' = [holder EXCEPT ![fd] = t]
  /\ EpollCtl(fd, add, set)
  /\ op' = [op EXCEPT ![t] = <<fd, evs, c>>]
  /\ Goto(t, l)

Leave(t, fd) ==
  /\ holder' = [holder EXCEPT ![fd] = None]
  /\ op' = [op EXCEPT ![t] = NoOp]
  /\ Goto(t, CASE cb[t] = None -> "events"
               [] cb[t] # None /\ op[t][3] = cb[t] -> "yield"
               [] OTHER -> "callback")

(* A call by t accepts the callback c, maybe too late. *)
Accept(t, c) ==
  /\ given' = given \cup {c}
  /\ late' = IF t \in ended THEN late \cup {c} ELSE late \ {c}

AddInterest_Only(fd, ev) == {ev}

AddInterest(fd, ev) == events[fd] \cup {ev}

(* addEvent() up to epoll_ctl().  Its first assertion is the caller's      *)
(* obligation: the event is not registered.  Without a callback it is the  *)
(* fiber that calls which is to be resumed.  (The callback of a recurring  *)
(* timer runs in another fiber each time, which has no name here.)         *)
AddEvent(t, fd, ev, c) ==
  /\ pc[t] = "callback"
  /\ \/ "addEvent" \in Ops /\ c \notin given
     \/ "fiberWait" \in Ops /\ c = cb[t] /\ c \notin m_recurring
  /\ ev \notin events[fd] /\ Accepts(fd, events[fd] = {})
  /\ Enter(t, fd, events[fd] = {}, AddInterest(fd, ev), {ev}, c, "add")
  /\ Accept(t, c)
  /\ UNCHANGED <<worldVars, events, ctx, m_pendingEventCount, schedVars, cb, got,
                 done, removed, orphaned>>

(* ... and the rest of it *)
AddContext(t) ==
  LET fd == op[t][1]
      ev == CHOOSE e \in op[t][2] : TRUE
  IN  /\ pc[t] = "add"
      /\ m_pendingEventCount' = m_pendingEventCount + 1
      /\ events' = [events EXCEPT ![fd] = @ \cup {ev}]
      /\ ctx' = [ctx EXCEPT ![fd][ev] = op[t][3]]
      /\ Leave(t, fd)
      /\ UNCHANGED <<epollVars, worldVars, schedVars, cb, got, historyVars>>

(* delEvent() goes on when epoll_ctl() fails. *)
DelEvent(t, fd, ev) ==
  /\ "delEvent" \in Ops /\ pc[t] = "callback"
  /\ ev \in events[fd]
  /\ Enter(t, fd, FALSE, events[fd] \ {ev}, {ev}, None, "del")
  /\ UNCHANGED <<worldVars, events, ctx, m_pendingEventCount, schedVars, cb, got, historyVars>>

CountAfterDel_Kept == m_pendingEventCount

CountAfterDel_Both == m_pendingEventCount - 2

CountAfterDel == m_pendingEventCount - 1

(* ... and the rest of delEvent(), with resetContext() *)
DelContext(t) ==
  LET fd == op[t][1]
      ev == CHOOSE e \in op[t][2] : TRUE
  IN  /\ pc[t] = "del"
      /\ m_pendingEventCount' = CountAfterDel
      /\ events' = [events EXCEPT ![fd] = @ \ {ev}]
      /\ ctx' = [ctx EXCEPT ![fd][ev] = None]
      /\ removed' = removed \cup {ctx[fd][ev]} /\ orphaned' = orphaned \ {ctx[fd][ev]}
      /\ Leave(t, fd)
      /\ UNCHANGED <<epollVars, worldVars, schedVars, cb, got, given, done, late>>

(* cancelEvent() asks whether any event is registered, not whether ev is. *)
CancelEvent(t, fd, ev) ==
  /\ "cancelEvent" \in Ops /\ pc[t] = "callback"
  /\ events[fd] # {} /\ Accepts(fd, FALSE)
  /\ Enter(t, fd, FALSE, events[fd] \ {ev}, {ev}, None, "trigger")
  /\ UNCHANGED <<worldVars, events, ctx, m_pendingEventCount, schedVars, cb, got, historyVars>>

(* cancelAll() tests each event before it triggers it. *)
CancelAll(t, fd) ==
  /\ "cancelAll" \in Ops /\ pc[t] = "callback"
  /\ events[fd] # {} /\ Accepts(fd, FALSE)
  /\ Enter(t, fd, FALSE, {}, events[fd], None, "trigger")
  /\ UNCHANGED <<worldVars, events, ctx, m_pendingEventCount, schedVars, cb, got, historyVars>>

(* READ comes before WRITE. *)
First(evs) == IF READ \in evs THEN READ ELSE WRITE

Taken_Kept(fd, ev) == ctx[fd][ev]

(* schedule(&ctx.cb) swaps the callback out of the context. *)
Taken(fd, ev) == None

(* triggerEvent(); where its assertion fails the program ends. *)
TriggerEvent(t) ==
  LET fd == op[t][1]
      ev == First(op[t][2])
  IN  /\ pc[t] = "trigger"
      /\ ev \in events[fd]
      /\ events' = [events EXCEPT ![fd] = @ \ {ev}]
      /\ m_tasks' = m_tasks \cup {ctx[fd][ev]}
      /\ ctx' = [ctx EXCEPT ![fd][ev] = Taken(fd, ev)]
      /\ orphaned' = orphaned \ {ctx[fd][ev]}
      /\ Goto(t, "uncount")
      /\ UNCHANGED <<epollVars, worldVars, holder, m_pendingEventCount, m_activeThreadCount,
                     m_stopping, ended, cb, op, got, given, done, removed, late>>

(* --m_pendingEventCount, and on to the next event or out of the call *)
Uncount(t) ==
  LET fd == op[t][1]
      left == op[t][2] \ {First(op[t][2])}
  IN  /\ pc[t] = "uncount"
      /\ m_pendingEventCount' = m_pendingEventCount - 1
      /\ IF left = {}
         THEN Leave(t, fd)
         ELSE /\ op' = [op EXCEPT ![t][2] = left]
              /\ Goto(t, "trigger")
              /\ UNCHANGED holder
      /\ UNCHANGED <<epollVars, worldVars, events, ctx, schedVars, cb, got, historyVars>>

(* A callback reads or writes until the descriptor would block. *)
Consume(t, fd, ev) ==
  /\ pc[t] = "callback" /\ ev \in ready[fd]
  /\ ready' = [ready EXCEPT ![fd] = @ \ {ev}]
  /\ UNCHANGED <<open, timerVars, epollVars, fdVars, m_pendingEventCount, schedVars,
                 threadVars, historyVars>>

(* A callback closes a descriptor, maybe with events registered or while   *)
(* another thread is in a call on it.  Nothing tells the IOManager.        *)
Close(t, fd) ==
  /\ "close" \in Ops /\ pc[t] = "callback" /\ fd \in open
  /\ open' = open \ {fd} /\ ready' = [ready EXCEPT ![fd] = {}]
  /\ interest' = [interest EXCEPT ![fd] = {}] /\ armed' = [armed EXCEPT ![fd] = FALSE]
  /\ orphaned' = orphaned \cup
       (({ctx[fd][ev] : ev \in Directions} \cup {op[u][3] : u \in {v \in Threads : op[v][1] = fd}})
          \ {None})
  /\ UNCHANGED <<timerVars, fdVars, m_pendingEventCount, schedVars, threadVars, given, done,
                 removed, late>>

(* addTimer(); the timer's time comes when it does. *)
AddTimer(t, c, recurring) ==
  /\ "addTimer" \in Ops /\ pc[t] = "callback"
  /\ c \notin given /\ (recurring => c \in Recurring)
  /\ m_timers' = m_timers \cup {c} /\ Accept(t, c)
  /\ m_recurring' = IF recurring THEN m_recurring \cup {c} ELSE m_recurring
  /\ UNCHANGED <<open, ready, due, cbs, epollVars, fdVars, m_pendingEventCount, schedVars,
                 threadVars, done, removed, orphaned>>

(* Timer::cancel() of an armed timer.  A callback that was taken still runs.*)
CancelTimer(t, c) ==
  /\ "cancelTimer" \in Ops /\ pc[t] = "callback" /\ c \in m_timers
  /\ m_timers' = m_timers \ {c} /\ due' = due \ {c} /\ removed' = removed \cup {c}
  /\ UNCHANGED <<open, ready, m_recurring, cbs, epollVars, fdVars, m_pendingEventCount,
                 schedVars, threadVars, given, done, orphaned, late>>

Expire(c) ==
  /\ c \in m_timers \ due /\ due' = due \cup {c}
  /\ UNCHANGED <<open, ready, m_timers, m_recurring, cbs, epollVars, fdVars,
                 m_pendingEventCount, schedVars, threadVars, historyVars>>

-----------------------------------------------------------------------------
(* Scheduler::run() and stop() *)

(* A task is erased from m_tasks under the lock, by a thread whose idle    *)
(* fiber has ended as well, ...                                            *)
TakeTask(t) ==
  /\ pc[t] = "run"
  /\ \E c \in m_tasks : m_tasks' = m_tasks \ {c} /\ cb' = [cb EXCEPT ![t] = c]
  /\ Goto(t, "taken")
  /\ UNCHANGED <<epollVars, worldVars, fdVars, m_pendingEventCount, m_activeThreadCount,
                 m_stopping, ended, op, got, historyVars>>

(* ... and counted after it. *)
CountActive(t) ==
  /\ pc[t] = "taken"
  /\ m_activeThreadCount' = m_activeThreadCount + 1
  /\ Goto(t, "callback")
  /\ UNCHANGED <<epollVars, worldVars, fdVars, m_pendingEventCount, m_tasks, m_stopping,
                 ended, cb, op, got, historyVars>>

FinishCallback(t) ==
  /\ pc[t] = "callback"
  /\ m_activeThreadCount' = m_activeThreadCount - 1
  /\ done' = done \cup {cb[t]} /\ cb' = [cb EXCEPT ![t] = None]
  /\ Goto(t, "run")
  /\ UNCHANGED <<epollVars, worldVars, fdVars, m_pendingEventCount, m_tasks, m_stopping,
                 ended, op, got, given, removed, orphaned, late>>

(* The fiber that waits is let go of (with one thread: see Scheduler.tla). *)
YieldToHold(t) ==
  /\ pc[t] = "yield"
  /\ m_activeThreadCount' = m_activeThreadCount - 1
  /\ cb' = [cb EXCEPT ![t] = None]
  /\ Goto(t, "run")
  /\ UNCHANGED <<epollVars, worldVars, fdVars, m_pendingEventCount, m_tasks, m_stopping,
                 ended, op, got, historyVars>>

(* Without a task the thread enters idle() ... *)
EnterIdle(t) ==
  /\ pc[t] = "run" /\ m_tasks = {} /\ t \notin ended
  /\ Goto(t, "timers")
  /\ UNCHANGED <<epollVars, worldVars, fdVars, m_pendingEventCount, schedVars, cb, op, got,
                 historyVars>>

(* ... or, if its idle fiber has ended, leaves run().                      *)
ExitRun(t) ==
  /\ pc[t] = "run" /\ m_tasks = {} /\ t \in ended
  /\ Goto(t, "gone")
  /\ UNCHANGED <<epollVars, worldVars, fdVars, m_pendingEventCount, schedVars, cb, op, got,
                 historyVars>>

Stop ==
  /\ ~m_stopping /\ m_stopping' = TRUE
  /\ UNCHANGED <<epollVars, worldVars, fdVars, m_pendingEventCount, m_tasks, m_activeThreadCount,
                 ended, threadVars, historyVars>>

-----------------------------------------------------------------------------
(* IOManager::idle() *)

NoTimer_Any == TRUE

NoTimer == m_timers = {}

(* stopping() asks for the next timer first, ... *)
StoppingTimers(t) ==
  /\ pc[t] = "timers"
  /\ Goto(t, IF NoTimer THEN "stopping" ELSE "wait")
  /\ UNCHANGED <<epollVars, worldVars, fdVars, m_pendingEventCount, schedVars, cb, op, got,
                 historyVars>>

(* ... then Scheduler::stopping() ... *)
Stopping(t) ==
  /\ pc[t] = "stopping"
  /\ Goto(t, IF m_stopping /\ m_tasks = {} /\ m_activeThreadCount = 0 THEN "pending" ELSE "wait")
  /\ UNCHANGED <<epollVars, worldVars, fdVars, m_pendingEventCount, schedVars, cb, op, got,
                 historyVars>>

NothingPending_Any == TRUE

NothingPending == m_pendingEventCount = 0

(* ... and m_pendingEventCount last.  If all three agree the idle fiber    *)
(* ends, and run() looks at the tasks once more.                           *)
StoppingPending(t) ==
  /\ pc[t] = "pending"
  /\ IF NothingPending
     THEN Goto(t, "run") /\ ended' = ended \cup {t}
     ELSE Goto(t, "wait") /\ UNCHANGED ended
  /\ UNCHANGED <<epollVars, worldVars, fdVars, m_pendingEventCount, m_tasks, m_activeThreadCount,
                 m_stopping, cb, op, got, historyVars>>

(* epoll_wait() returns with everything there is to report, or with        *)
(* nothing at its timeout or because of the tickle pipe.                   *)
EpollWait(t) ==
  /\ pc[t] = "wait"
  /\ got' = [got EXCEPT ![t] = {<<fd, Reports(fd)>> : fd \in {f \in Fds : Reports(f) # {}}}]
  /\ armed' = [fd \in Fds |-> FALSE]
  /\ Goto(t, "expired")
  /\ UNCHANGED <<interest, worldVars, fdVars, m_pendingEventCount, schedVars, cb, op, historyVars>>

(* listExpiredCb() takes the callbacks of expired timers and arms the      *)
(* recurring ones again, ...                                               *)
ListExpiredCb(t) ==
  /\ pc[t] = "expired"
  /\ m_timers' = m_timers \ (due \ m_recurring) /\ cbs' = [cbs EXCEPT ![t] = due] /\ due' = {}
  /\ Goto(t, IF due = {} THEN "events" ELSE "schedule")
  /\ UNCHANGED <<open, ready, m_recurring, epollVars, fdVars, m_pendingEventCount, schedVars,
                 cb, op, got, historyVars>>

ScheduledCbs_Lost(t) == m_tasks

ScheduledCbs(t) == m_tasks \cup cbs[t]

(* ... which are in no list until they are scheduled. *)
ScheduleCbs(t) ==
  /\ pc[t] = "schedule"
  /\ m_tasks' = ScheduledCbs(t) /\ cbs' = [cbs EXCEPT ![t] = {}]
  /\ Goto(t, "events")
  /\ UNCHANGED <<open, ready, m_timers, due, m_recurring, epollVars, fdVars, m_pendingEventCount,
                 m_activeThreadCount, m_stopping, ended, cb, op, got, historyVars>>

(* real_events: an error or a hang-up stands for all registered events. *)
RealEvents(fd, evs) == (evs \ {HUP}) \cup (IF HUP \in evs THEN events[fd] ELSE {})

(* Nothing of what was reported is registered any more. *)
Skipped(fd, real) == events[fd] \cap real = {}

LeftEvents_None(fd, real) == {}

LeftEvents(fd, real) == events[fd] \ real

(* One event of the loop, under the lock of its descriptor.  What is       *)
(* triggered is real_events, whether or not all of it is registered.  The  *)
(* report is dropped if epoll_ctl() fails.                                 *)
HandleEvent(t) ==
  /\ pc[t] = "events"
  /\ \E e \in got[t] :
       LET fd == e[1]
           real == RealEvents(fd, e[2])
       IN  /\ got' = [got EXCEPT ![t] = @ \ {e}]
           /\ IF Skipped(fd, real) \/ ~Accepts(fd, FALSE)
              THEN /\ holder[fd] = None
                   /\ UNCHANGED <<epollVars, holder, op, pc>>
              ELSE Enter(t, fd, FALSE, LeftEvents(fd, real), real, None, "trigger")
  /\ UNCHANGED <<worldVars, events, ctx, m_pendingEventCount, schedVars, cb, historyVars>>

(* The idle fiber swaps out. *)
LeaveIdle(t) ==
  /\ pc[t] = "events" /\ got[t] = {}
  /\ Goto(t, "run")
  /\ UNCHANGED <<epollVars, worldVars, fdVars, m_pendingEventCount, schedVars, cb, op, got,
                 historyVars>>

-----------------------------------------------------------------------------

Callback(t) ==
  \/ \E fd \in Fds, ev \in Directions :
       \/ \E c \in Callbacks : AddEvent(t, fd, ev, c)
       \/ DelEvent(t, fd, ev) \/ CancelEvent(t, fd, ev) \/ Consume(t, fd, ev)
  \/ \E fd \in Fds : CancelAll(t, fd) \/ Close(t, fd)
  \/ \E c \in Callbacks : CancelTimer(t, c) \/ \E recurring \in BOOLEAN : AddTimer(t, c, recurring)

Run(t) ==
  \/ AddContext(t) \/ DelContext(t) \/ TriggerEvent(t) \/ Uncount(t)
  \/ TakeTask(t) \/ CountActive(t) \/ FinishCallback(t) \/ YieldToHold(t)
  \/ EnterIdle(t) \/ ExitRun(t) \/ StoppingTimers(t) \/ Stopping(t) \/ StoppingPending(t)
  \/ EpollWait(t)
  \/ ListExpiredCb(t) \/ ScheduleCbs(t) \/ HandleEvent(t) \/ LeaveIdle(t)

Next ==
  \/ \E t \in Threads : Callback(t) \/ Run(t)
  \/ \E fd \in Fds : Reopen(fd) \/ \E ev \in Directions \cup {HUP} : Edge(fd, ev)
  \/ \E c \in Callbacks : Expire(c)
  \/ Stop

Spec == Init /\ [][Next]_vars

(* A thread is never suspended forever, and no callback runs forever. *)
FairSpec == Spec /\ \A t \in Threads : WF_vars(Run(t))

(* Besides, an open descriptor that is not ready becomes so at last, and   *)
(* time passes.  A descriptor that is ready need not raise a second edge.  *)
LiveSpec ==
  /\ FairSpec
  /\ \A fd \in Fds, ev \in Directions : WF_vars(ev \notin ready[fd] /\ Edge(fd, ev))
  /\ \A c \in Callbacks : WF_vars(Expire(c))

-----------------------------------------------------------------------------

(* triggerEvent()'s assertion: an event that is about to be triggered is   *)
(* still registered, although epoll reported it before the lock was taken. *)
TriggerAssert ==
  \A t \in Threads : pc[t] = "trigger" => First(op[t][2]) \in events[op[t][1]]

(* While no call is in progress on a descriptor, epoll watches it for what *)
(* is registered, and a context is in use exactly while its event is       *)
(* registered: the assertion of addEvent() on an empty context holds, and  *)
(* every MOD, ADD and DEL finds the descriptor as it expects it.  Only     *)
(* what was registered when the descriptor was closed is not watched, and  *)
(* delEvent() brings the context back into line.                           *)
FdConsistent ==
  \A fd \in Fds : holder[fd] = None =>
    /\ interest[fd] = {ev \in events[fd] : ctx[fd][ev] \notin orphaned}
    /\ \A ev \in Directions : ctx[fd][ev] = None <=> ev \notin events[fd]

(* m_pendingEventCount is the number of registered events, plus one for    *)
(* each thread between triggerEvent() and the decrement: it never wraps,   *)
(* and it is never zero while a callback waits.                            *)
PendingExact ==
  m_pendingEventCount =
    Cardinality({e \in Fds \X Directions : e[2] \in events[e[1]]})
      + Cardinality({t \in Threads : pc[t] = "uncount"})

(* The places where a callback is: *)
WaitsAt(c) == {e \in Fds \X Directions : ctx[e[1]][e[2]] = c}
RunsAt(c) == {t \in Threads : cb[t] = c /\ pc[t] # "yield"}
AddedAt(c) == {t \in Threads : op[t][3] = c /\ c # cb[t]}
ExpiredAt(c) == {t \in Threads : c \in cbs[t]}
ListsOf(c) ==
  {l \in {"timers", "tasks", "done", "removed"} :
     \/ l = "timers" /\ c \in m_timers
     \/ l = "tasks" /\ c \in m_tasks
     \/ l = "done" /\ c \in done
     \/ l = "removed" /\ c \in removed}

(* Every callback that was accepted is in one place: it waits, for a       *)
(* descriptor or for its time, or is scheduled, or runs or has run, or was *)
(* removed.  None is lost, run twice, or run after delEvent() or cancel()  *)
(* took it back.  That of a recurring timer, which runs again and again,   *)
(* stays armed until cancel().                                             *)
CallbackOnce ==
  \A c \in Callbacks :
    IF c \in m_recurring
    THEN c \in m_timers <=> c \notin removed
    ELSE Cardinality(WaitsAt(c)) + Cardinality(RunsAt(c)) + Cardinality(AddedAt(c))
           + Cardinality(ExpiredAt(c)) + Cardinality(ListsOf(c))
         = IF c \in given THEN 1 ELSE 0

(* When the last thread has left no callback is scheduled or in the hands  *)
(* of a thread, and none waits, for a descriptor or for its time, although *)
(* stopping() reads its conditions one after another, a task is counted    *)
(* after it is taken, and the callbacks of expired timers are for a while  *)
(* in no list.  Excepted are callbacks accepted from a thread that runs a  *)
(* last task after its idle fiber has ended: nobody may be left to poll.   *)
StopKeepsCallbacks ==
  (\A t \in Threads : pc[t] = "gone") =>
    m_tasks = {} /\ Waiting \cup m_timers \subseteq late /\ \A t \in Threads : cbs[t] = {}

(* An event that is ready while a callback waits for it is triggered, or   *)
(* stops being ready or waited for: no edge is lost between epoll_wait(),  *)
(* epoll_ctl() and the calls of other threads, and idle() drops a report   *)
(* only where the descriptor was closed under the callback.  When the idle *)
(* fibers of all threads have ended, there are late callbacks only.        *)
ReadyIsServed ==
  \A fd \in Fds, ev \in Directions :
    (ctx[fd][ev] \notin {None} \cup orphaned /\ ev \in ready[fd])
      ~> \/ ctx[fd][ev] = None \/ ev \notin ready[fd]
         \/ ctx[fd][ev] \in late /\ ended = Threads

(* After stop() every thread ends, unless time and again a recurring timer *)
(* is armed, as nobody cancels it, or a callback waits for a descriptor    *)
(* that was closed under it, as nobody calls delEvent().                   *)
StopEnds ==
  \/ []<>(m_timers \cap m_recurring # {} \/ Waiting \cap orphaned # {})
  \/ m_stopping ~> \A t \in Threads : pc[t] = "gone"

=============================================================================
