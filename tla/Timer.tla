------------------------------- MODULE Timer -------------------------------
(***************************************************************************)
(* wille::Timer and wille::TimerManager (wille/timer.h, wille/timer.cpp),  *)
(* driven as IOManager::idle() drives them.  Clients add, cancel, refresh  *)
(* and reset timers from any thread; pollers (threads in the idle fiber)   *)
(* sleep until the earliest timer, collect the expired callbacks and       *)
(* schedule them.  Each section under TimerManager::m_mutex is one step.   *)
(*                                                                         *)
(* m_timers is a std::set keyed by (m_next, address): an entry is the pair *)
(* of the key a timer was inserted under and the timer, so that a timer    *)
(* whose m_next changed while it was in the set would not be found.        *)
(***************************************************************************)
EXTENDS Integers, FiniteSets

CONSTANTS
  Timers,      \* timer objects, identified by their addresses
  Clients,     \* threads that call the timer API
  Pollers,     \* threads that execute IOManager::idle()
  Periods,     \* the values of ms that clients pass
  Recurring,   \* the timers that clients make recurring
  MaxTimeout,  \* MAX_TIMEOUT of idle(), 3000 ms
  IntBits,     \* the width of int, 32: idle() casts the uint64_t timeout to it
  Hour,        \* the hour of detectClockRollover()
  MaxTicks,    \* bound: how far the clock advances
  Setbacks,    \* by how much the system clock may be set back
  MaxSetbacks, \* bound: how often the system clock is set back
  MaxOps,      \* bound: calls of cancel(), refresh() and reset()
  MaxSignals   \* bound: signals that interrupt one sleep

ASSUME TimerAssumption ==
  /\ Timers \subseteq Nat /\ Periods \subseteq Nat /\ Recurring \subseteq Timers
  /\ IntBits \in Nat \ {0} /\ MaxTimeout \in 0..(2^(IntBits - 1) - 1)
  /\ 2^IntBits = 2 * 2^(IntBits - 1)
  /\ Hour \in Nat \ {0} /\ MaxTicks \in Nat /\ MaxSignals \in Nat
  /\ Setbacks \subseteq Nat /\ MaxSetbacks \in Nat /\ MaxOps \in Nat

(* Scheduler() asserts that it has a thread. *)
ASSUME PollersAssumption == Pollers # {}

VARIABLES
  clock,          \* GetCurrentMS()
  ticks,          \* how much of MaxTicks is used
  setbacks,       \* how much of MaxSetbacks is used
  m_timers,       \* std::set<Timer::ptr, Timer::Comparator>
  m_tickled,
  m_previousTime,
  m_cb,           \* Timer::m_cb is not empty
  m_ms,           \* Timer::m_ms
  m_next,         \* Timer::m_next
  m_recurring,    \* Timer::m_recurring
  client,         \* where each client is: its own code, addTimer(), tickle()
  ops,            \* how much of MaxOps is used
  poller,         \* where each poller is: outside of idle(), or in it
  timeout,        \* the timeout that idle() passes to epoll_wait()
  wake,           \* when the epoll_wait() of a poller times out
  signals,        \* how often a signal has interrupted the poller's sleep
  now_ms,         \* the local variable of listExpiredCb()
  cbs,            \* the local variable of idle(): timers whose callbacks were taken
  saw,            \* epoll reported the pipe to the poller
  pipe,           \* a byte is in the tickle pipe
  edge,           \* epoll has not reported it yet
  shared,         \* history: timers that addTimer() has returned
  fired,          \* history: callbacks taken from each one-shot timer
  cancelled       \* history: timers whose cancel() returned true

clockVars == <<clock, ticks, setbacks>>
setVars == <<m_timers, m_tickled, m_previousTime>>
timerVars == <<m_cb, m_ms, m_next, m_recurring>>
pollVars == <<poller, timeout, wake, signals, now_ms, cbs, saw>>
sleepVars == <<timeout, wake, signals>>
pipeVars == <<pipe, edge>>
historyVars == <<shared, fired, cancelled>>
vars == <<clockVars, setVars, timerVars, client, ops, pollVars, pipeVars, historyVars>>

None == -1
(* The clock starts more than an hour after its epoch. *)
Boot == Hour + 1
Instants == 0..(Boot + MaxTicks)
(* The end of a sleep with a negative timeout: only a tickle ends it. *)
Never == 2 * (Boot + MaxTicks + MaxTimeout)
(* A client is in its own code, or has a timer to insert or to tickle for. *)
ClientStates == {<<"own", None>>} \cup ({"insert", "tickle"} \X Timers)

TypeOK ==
  /\ clock \in Instants /\ ticks \in 0..MaxTicks /\ setbacks \in 0..MaxSetbacks
  /\ m_timers \subseteq Nat \X Timers
  /\ m_tickled \in BOOLEAN /\ m_previousTime \in Nat
  /\ m_cb \in [Timers -> BOOLEAN]
  /\ m_ms \in [Timers -> Nat] /\ m_next \in [Timers -> Nat]
  /\ \A i \in Timers : m_next[i] - m_ms[i] \in Instants
  /\ m_recurring \in [Timers -> BOOLEAN]
  /\ client \in [Clients -> ClientStates]
  /\ ops \in 0..MaxOps
  /\ poller \in [Pollers -> {"outside", "next", "asleep", "woken", "list", "schedule"}]
  /\ timeout \in [Pollers -> Int] /\ wake \in [Pollers -> Nat]
  /\ signals \in [Pollers -> 0..MaxSignals] /\ now_ms \in [Pollers -> Nat]
  /\ cbs \in [Pollers -> SUBSET Timers] /\ saw \in [Pollers -> BOOLEAN]
  /\ pipe \in BOOLEAN /\ edge \in BOOLEAN
  /\ shared \subseteq Timers /\ cancelled \subseteq Timers
  /\ fired \in [Timers -> Nat]

Init ==
  /\ clock = Boot /\ ticks = 0 /\ setbacks = 0
  /\ m_timers = {} /\ m_tickled = FALSE /\ m_previousTime = Boot
  /\ m_cb = [i \in Timers |-> FALSE]
  /\ m_ms = [i \in Timers |-> 0] /\ m_next = [i \in Timers |-> 0]
  /\ m_recurring = [i \in Timers |-> FALSE]
  /\ client = [c \in Clients |-> <<"own", None>>] /\ ops = 0
  /\ poller = [p \in Pollers |-> "outside"]
  /\ timeout = [p \in Pollers |-> 0] /\ wake = [p \in Pollers |-> 0]
  /\ signals = [p \in Pollers |-> 0] /\ now_ms = [p \in Pollers |-> 0]
  /\ cbs = [p \in Pollers |-> {}] /\ saw = [p \in Pollers |-> FALSE]
  /\ pipe = FALSE /\ edge = FALSE
  /\ shared = {} /\ cancelled = {} /\ fired = [i \in Timers |-> 0]

-----------------------------------------------------------------------------

Tick ==
  /\ ticks < MaxTicks
  /\ ticks' = ticks + 1 /\ clock' = clock + 1
  /\ UNCHANGED <<setbacks, setVars, timerVars, client, ops, pollVars, pipeVars, historyVars>>

(* The system clock is set back.  The timeout of epoll_wait() does not     *)
(* depend on it: what is left of a sleep stays.                            *)
SetBack ==
  /\ setbacks < MaxSetbacks
  /\ setbacks' = setbacks + 1
  /\ \E by \in Setbacks :
       /\ by <= clock
       /\ clock' = clock - by
       /\ wake' = [p \in Pollers |-> IF wake[p] = Never THEN Never
                                     ELSE IF wake[p] >= by THEN wake[p] - by ELSE 0]
  /\ UNCHANGED <<ticks, setVars, timerVars, client, ops, poller, timeout, signals, now_ms,
                 cbs, saw, pipeVars, historyVars>>

-----------------------------------------------------------------------------

(* Timer::Comparator on entries: by m_next, then by address. *)
Before(a, b) == a[1] < b[1] \/ (a[1] = b[1] /\ a[2] < b[2])

Entry(i) == <<m_next[i], i>>

(* addTimer(val, lock): insert, and claim the tickle if the timer is first *)
(* and no other insertion has claimed it.  Without it the call returns.    *)
AtFront(i, rest, next) == (\A e \in rest : Before(<<next, i>>, e)) /\ ~m_tickled

Insert(c, i, rest, next) ==
  LET at_front == AtFront(i, rest, next)
  IN  /\ m_timers' = rest \cup {<<next, i>>}
      /\ m_tickled' = (m_tickled \/ at_front)
      /\ client' = [client EXCEPT ![c] = IF at_front THEN <<"tickle", i>> ELSE <<"own", None>>]
      /\ shared' = IF at_front THEN shared ELSE shared \cup {i}
      /\ UNCHANGED m_previousTime

(* addTimer(ms, cb, recurring): the timer is constructed outside the lock. *)
NewTimer(c, i, ms) ==
  /\ client[c] = <<"own", None>>
  /\ i \notin shared /\ ~m_cb[i] /\ \A d \in Clients : client[d][2] # i
  /\ m_cb' = [m_cb EXCEPT ![i] = TRUE]
  /\ m_ms' = [m_ms EXCEPT ![i] = ms]
  /\ m_next' = [m_next EXCEPT ![i] = clock + ms]
  /\ m_recurring' = [m_recurring EXCEPT ![i] = (i \in Recurring)]
  /\ client' = [client EXCEPT ![c] = <<"insert", i>>]
  /\ UNCHANGED <<clockVars, setVars, ops, pollVars, pipeVars, historyVars>>

AddTimer(c) ==
  /\ client[c][1] = "insert"
  /\ Insert(c, client[c][2], m_timers, m_next[client[c][2]])
  /\ UNCHANGED <<clockVars, timerVars, ops, pollVars, pipeVars, fired, cancelled>>

(* onTimerInsertedAtFront(), after the lock is released: IOManager::tickle *)
(* writes to the pipe if hasIdleThreads().                                 *)
OnTimerInsertedAtFront(c) ==
  /\ client[c][1] = "tickle"
  /\ IF \E p \in Pollers : poller[p] # "outside"
     THEN pipe' = TRUE /\ edge' = TRUE
     ELSE UNCHANGED pipeVars
  /\ client' = [client EXCEPT ![c] = <<"own", None>>]
  /\ shared' = shared \cup {client[c][2]}
  /\ UNCHANGED <<clockVars, setVars, timerVars, ops, pollVars, fired, cancelled>>

(* The calls on a timer below return false, and change nothing, when m_cb  *)
(* is empty or the timer is not found.                                     *)
Calls(c, i) ==
  /\ client[c] = <<"own", None>> /\ i \in shared
  /\ ops < MaxOps /\ ops' = ops + 1

Erased_NotFound(i) == m_timers

(* m_timers.find(shared_from_this()) and erase(): looked up by the key. *)
Erased(i) == m_timers \ {Entry(i)}

(* cancel(): the entry is looked up by its key and erased. *)
Cancel(c, i) ==
  /\ Calls(c, i)
  /\ m_cb[i]
  /\ m_cb' = [m_cb EXCEPT ![i] = FALSE]
  /\ m_timers' = Erased(i)
  /\ cancelled' = cancelled \cup {i}
  /\ UNCHANGED <<clockVars, m_tickled, m_previousTime, m_ms, m_next, m_recurring, client,
                 pollVars, pipeVars, shared, fired>>

(* refresh(): erased, given a new key, inserted again, without a tickle. *)
Refresh(c, i) ==
  /\ Calls(c, i)
  /\ m_cb[i] /\ Entry(i) \in m_timers
  /\ m_next' = [m_next EXCEPT ![i] = clock + m_ms[i]]
  /\ m_timers' = Erased(i) \cup {<<clock + m_ms[i], i>>}
  /\ UNCHANGED <<clockVars, m_tickled, m_previousTime, m_cb, m_ms, m_recurring, client,
                 pollVars, pipeVars, historyVars>>

Start_AtOldEnd(i, from_now) == IF from_now THEN clock ELSE m_next[i]

(* reset() counts from now or from where the old period started. *)
Start(i, from_now) == IF from_now THEN clock ELSE m_next[i] - m_ms[i]

(* reset(ms, from_now).  A call that would change nothing returns at once. *)
(* The code tests this before it takes the lock; a call that passes the    *)
(* test and then finds m_ms equal to ms inserts the timer where it was.    *)
Reset(c, i, ms, from_now) ==
  LET next == Start(i, from_now) + ms
  IN  /\ Calls(c, i)
      /\ ms # m_ms[i] \/ from_now
      /\ m_cb[i] /\ Entry(i) \in m_timers
      /\ m_ms' = [m_ms EXCEPT ![i] = ms]
      /\ m_next' = [m_next EXCEPT ![i] = next]
      /\ Insert(c, i, Erased(i), next)
      /\ UNCHANGED <<clockVars, m_cb, m_recurring, pollVars, pipeVars, fired, cancelled>>

-----------------------------------------------------------------------------
(* A thread in IOManager::idle().  Its locals return to their initial      *)
(* values when they are dead.                                              *)

GotoP(p, l) == poller' = [poller EXCEPT ![p] = l]

EnterIdle(p) ==
  /\ poller[p] = "outside"
  /\ GotoP(p, "next")
  /\ UNCHANGED <<clockVars, setVars, timerVars, client, ops, sleepVars, now_ms, cbs, saw,
                 pipeVars, historyVars>>

(* getNextTimer(): how long until the first timer; without one it is ~0.   *)
Delay ==
  LET first == CHOOSE t \in {e[1] : e \in m_timers} : \A e \in m_timers : t <= e[1]
  IN  IF first > clock THEN first - clock ELSE 0

(* (int)next_timeout *)
AsInt(n) == ((n + 2^(IntBits - 1)) % 2^IntBits) - 2^(IntBits - 1)

Timeout_Uncapped == IF m_timers = {} THEN -1 ELSE AsInt(Delay)

(* The timeout of epoll_wait(), at most MAX_TIMEOUT; a negative one never  *)
(* ends.                                                                   *)
Timeout == IF m_timers = {} \/ AsInt(Delay) > MaxTimeout THEN MaxTimeout ELSE AsInt(Delay)

SleepEnd(n) == IF n < 0 THEN Never ELSE clock + n

(* epoll_wait() starts.  The timeout is relative to the time of            *)
(* getNextTimer(); epoll_wait() is taken to start without a delay.         *)
Sleep(p) ==
  /\ timeout' = [timeout EXCEPT ![p] = Timeout]
  /\ wake' = [wake EXCEPT ![p] = SleepEnd(Timeout)]
  /\ GotoP(p, "asleep")

GetNextTimer_FlagKept(p) ==
  /\ poller[p] = "next" /\ Sleep(p)
  /\ UNCHANGED <<clockVars, setVars, timerVars, client, ops, signals, now_ms, cbs, saw, pipeVars,
                 historyVars>>

(* getNextTimer(), then epoll_wait(). *)
GetNextTimer(p) ==
  /\ poller[p] = "next" /\ Sleep(p)
  /\ m_tickled' = FALSE
  /\ UNCHANGED <<clockVars, m_timers, m_previousTime, timerVars, client, ops, signals, now_ms,
                 cbs, saw, pipeVars, historyVars>>

(* A signal interrupts a sleep that has not timed out: epoll_wait() fails  *)
(* with EINTR and idle() calls it again with the same timeout, however     *)
(* much of it was left.  What wakes a poller is never lost by this.        *)
Interrupt(p) ==
  /\ poller[p] = "asleep" /\ clock < wake[p]
  /\ signals[p] < MaxSignals
  /\ signals' = [signals EXCEPT ![p] = @ + 1]
  /\ wake' = [wake EXCEPT ![p] = SleepEnd(timeout[p])]
  /\ UNCHANGED <<clockVars, setVars, timerVars, client, ops, poller, timeout, now_ms, cbs, saw,
                 pipeVars, historyVars>>

(* epoll_wait() returns with the tickle or at its timeout. *)
WakeUp(p) ==
  /\ poller[p] = "asleep"
  /\ (pipe /\ edge) \/ clock >= wake[p]
  /\ saw' = [saw EXCEPT ![p] = (pipe /\ edge)]
  /\ edge' = FALSE
  /\ timeout' = [timeout EXCEPT ![p] = 0]
  /\ wake' = [wake EXCEPT ![p] = 0]
  /\ signals' = [signals EXCEPT ![p] = 0]
  /\ GotoP(p, "woken")
  /\ UNCHANGED <<clockVars, setVars, timerVars, client, ops, now_ms, cbs, pipe, historyVars>>

(* listExpiredCb() reads the clock before it takes the lock. *)
ReadClock(p) ==
  /\ poller[p] = "woken"
  /\ now_ms' = [now_ms EXCEPT ![p] = clock]
  /\ GotoP(p, "list")
  /\ UNCHANGED <<clockVars, setVars, timerVars, client, ops, sleepVars, cbs, saw, pipeVars,
                 historyVars>>

(* m_previousTime - Hour is unsigned: below an hour it wraps to a number   *)
(* that no clock reaches.                                                  *)
detectClockRollover(p) ==
  /\ now_ms[p] < m_previousTime
  /\ m_previousTime < Hour \/ now_ms[p] < m_previousTime - Hour

Expired_All(p) == m_timers

(* The entries from begin() up to the first that is not due. *)
Expired(p) == {e \in m_timers : detectClockRollover(p) \/ e[1] <= now_ms[p]}

CbLeft_Kept(i, taken) == m_cb[i]

(* Whether a timer still has its callback: a one-shot timer loses it. *)
CbLeft(i, taken) == m_cb[i] /\ (i \in taken => m_recurring[i])

Again_None(taken) == {}

(* The expired timers that are inserted again. *)
Again(taken) == {i \in taken : m_recurring[i]}

(* listExpiredCb() under the lock: expired timers leave the set, their     *)
(* callbacks are taken, recurring ones are inserted again and one-shot     *)
(* ones lose m_cb.                                                         *)
ListExpiredCb(p) ==
  LET taken == {e[2] : e \in Expired(p)}
      again == Again(taken)
  IN  /\ poller[p] = "list"
      /\ m_previousTime' = IF m_timers = {} THEN m_previousTime ELSE now_ms[p]
      /\ m_timers' = (m_timers \ Expired(p)) \cup {<<now_ms[p] + m_ms[i], i>> : i \in again}
      /\ m_next' = [i \in Timers |-> IF i \in again THEN now_ms[p] + m_ms[i] ELSE m_next[i]]
      /\ m_cb' = [i \in Timers |-> CbLeft(i, taken)]
      /\ cbs' = [cbs EXCEPT ![p] = taken]
      /\ now_ms' = [now_ms EXCEPT ![p] = 0]
      /\ fired' = [i \in Timers |-> IF i \in taken \ again THEN fired[i] + 1 ELSE fired[i]]
      /\ GotoP(p, "schedule")
      /\ UNCHANGED <<clockVars, m_tickled, m_ms, m_recurring, client, ops, sleepVars, saw,
                     pipeVars, shared, cancelled>>

(* schedule(cbs.begin(), cbs.end()); then the event loop reads the pipe    *)
(* empty if epoll reported it, and idle() swaps out.                       *)
ScheduleCbs(p) ==
  /\ poller[p] = "schedule"
  /\ cbs' = [cbs EXCEPT ![p] = {}]
  /\ pipe' = (pipe /\ ~saw[p]) /\ edge' = (edge /\ ~saw[p])
  /\ saw' = [saw EXCEPT ![p] = FALSE]
  /\ GotoP(p, "outside")
  /\ UNCHANGED <<clockVars, setVars, timerVars, client, ops, sleepVars, now_ms, historyVars>>

-----------------------------------------------------------------------------

Client(c) ==
  \/ \E i \in Timers, ms \in Periods : NewTimer(c, i, ms)
  \/ AddTimer(c) \/ OnTimerInsertedAtFront(c)
  \/ \E i \in Timers : Cancel(c, i) \/ Refresh(c, i)
  \/ \E i \in Timers, ms \in Periods, from_now \in BOOLEAN : Reset(c, i, ms, from_now)

Poll(p) ==
  \/ EnterIdle(p) \/ GetNextTimer(p) \/ WakeUp(p) \/ ReadClock(p)
  \/ ListExpiredCb(p) \/ ScheduleCbs(p)

Next ==
  \/ Tick \/ SetBack
  \/ \E c \in Clients : Client(c)
  \/ \E p \in Pollers : Poll(p) \/ Interrupt(p)

(* Time passes, every poller keeps running its loop, and a client that has *)
(* entered addTimer() leaves it.  Signals need not come, and only          *)
(* MaxSignals of them prolong one sleep: a signal in every MAX_TIMEOUT     *)
(* would keep a poller from ever looking at its timers.                    *)
Fairness ==
  /\ WF_vars(Tick)
  /\ \A p \in Pollers : WF_vars(Poll(p))
  /\ \A c \in Clients : WF_vars(AddTimer(c) \/ OnTimerInsertedAtFront(c))

Spec == Init /\ [][Next]_vars
FairSpec == Spec /\ Fairness

-----------------------------------------------------------------------------

(* A timer has its callback exactly while the set holds it, under the key  *)
(* it has now: cancel() never erases end(), and refresh() and reset() find *)
(* every timer that is still to fire, whatever thread moved it last.       *)
ArmedIffQueued ==
  /\ \A i \in Timers :
       Entry(i) \in m_timers <=> m_cb[i] /\ \A c \in Clients : client[c] # <<"insert", i>>
  /\ \A e \in m_timers : e = Entry(e[2])

(* A one-shot timer fires at most once, and not at all when cancel() said  *)
(* true, even if a poller was collecting expired timers meanwhile.         *)
OneShotContract ==
  \A i \in Timers :
    /\ fired[i] + (IF i \in cancelled /\ ~m_recurring[i] THEN 1 ELSE 0) <= 1
    /\ i \in cancelled /\ ~m_recurring[i] => \A p \in Pollers : i \notin cbs[p]

(* A recurring timer stays in the set until it is cancelled, whichever     *)
(* poller took its callback last.                                          *)
RecurringStaysArmed ==
  \A i \in shared : m_recurring[i] /\ i \notin cancelled => Entry(i) \in m_timers

(* While the clock is not set back, no callback is taken before the time   *)
(* its timer shows, although now_ms is read before the lock is taken,      *)
(* unless the poller was delayed in between by more than the hour that     *)
(* detectClockRollover() takes for a clock that was set back.              *)
NeverEarly ==
  [][setbacks = 0 =>
       \A p \in Pollers : \A i \in cbs'[p] \ cbs[p] :
         m_next[i] <= clock \/ clock - now_ms[p] > Hour]_vars

(* Every poller sleeps, not all of them without a timeout, and no wake-up  *)
(* is on its way.                                                          *)
Quiet ==
  /\ \A p \in Pollers : poller[p] = "asleep"
  /\ \E p \in Pollers : wake[p] # Never
  /\ ~(pipe /\ edge) /\ \A c \in Clients : client[c][1] # "tickle"

(* A poller wakes in time, or as much later as the signals that have       *)
(* interrupted its sleep can delay it, MAX_TIMEOUT each; or now, or, once  *)
(* the clock was set back, in MAX_TIMEOUT.                                 *)
InTime(p, t) ==
  /\ wake[p] # Never
  /\ \/ wake[p] <= t + signals[p] * MaxTimeout
     \/ wake[p] <= clock + (IF setbacks = 0 THEN 0 ELSE MaxTimeout)

(* While nothing else would wake a poller, one wakes in time for every     *)
(* timer: m_tickled never suppresses the tickle that a sleeping poller     *)
(* needs, and refresh(), which never tickles, needs none until the clock   *)
(* is set back.  A poller whose timeout became negative as an int waits    *)
(* for a tickle only, but then another one still wakes in time, unless it  *)
(* happened to all of them.                                                *)
NoOversleep == Quiet => \A e \in m_timers : \E p \in Pollers : InTime(p, e[1])

(* A one-shot timer fires, unless it is cancelled, or due so late that the *)
(* signals that may prolong a sleep delay it past the end of time, or the  *)
(* clock is set back: refresh(), which never tickles, may then move a      *)
(* timer to the front.                                                     *)
EveryTimerFires ==
  \A i \in Timers :
    i \in shared /\ ~m_recurring[i] ~>
      \/ fired[i] > 0 \/ i \in cancelled \/ setbacks > 0
      \/ m_next[i] + MaxSignals * MaxTimeout > Boot + MaxTicks

=============================================================================
