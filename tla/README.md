# Wille in TLA+

Wille is a small C++ server framework: loggers and configuration, threads,
fibers (stackful coroutines), an N:M fiber scheduler, timers, and an I/O manager
that puts callbacks to sleep on descriptors with epoll.  This directory holds
TLA+ models of its concurrent parts, the TLC configurations that check them on
small instances, and proofs about the scheduler, the timers, the I/O manager, the
life of threads and contexts, the pattern parser and the reconfiguration of loggers
that TLAPS checks for every instance.

To check a run: `tlc -config SchedulerCaller.cfg MCScheduler`.  To check the
proofs: `tlapm SchedulerProofs.tla`, and likewise `ConservationProofs.tla`,
`TimerProofs.tla`, `IOManagerProofs.tla`, `LifecycleProofs.tla`,
`LogFormatterProofs.tla` and `LogConfigProofs.tla`.

## The system

| component | state | operations | hard because |
|---|---|---|---|
| `Fiber` (`fiber.*`) | `m_state`, `m_cb`, saved context; the thread-local current fiber | construct, `reset`, `swapIn`, `swapOut`, `YieldToReady`, `YieldToHold`, `MainFunc` | a fiber publishes the state it leaves in before its context is saved, and other threads act on that state |
| `Scheduler` (`scheduler.*`) | `m_tasks`, the two atomic counters, `m_stopping`, `m_autoStop`; the locals of `run()` on every thread | `schedule` (one task, a range), `start`, `stop`, `run`, `idle`, `stopping` | tasks move between list, thread and client; counters change outside of the lock; `stopping()` decides from several of them |
| `Timer`, `TimerManager` (`timer.*`) | `m_timers` ordered by `m_next`, `m_tickled`, `m_previousTime`, the fields of each timer | `addTimer`, `cancel`, `refresh`, `reset`, `getNextTimer`, `listExpiredCb` | sleeping pollers must be woken for a new first timer, exactly when needed; clocks are read before locks are taken |
| `IOManager` (`iomanager.*`) | the table of `FdContext`s, `m_pendingEventCount`, epoll, the tickle pipe | `addEvent`, `delEvent`, `cancelEvent`, `cancelAll`, `idle`, `stopping` | edge-triggered reports are applied after other threads have changed the registration; shutdown must not overlook a waiting callback |
| `Logger`, `LoggerManager`, `LogIniter` (`log.*`) | per logger a level, a formatter and appenders | `log`, `setFormatter`, `addAppender`, `clearAppenders`, the listener that applies a configuration | loggers are reconfigured step by step while other threads log |
| `ConfigVar`, `Config` (`config.*`) | `m_val`, the listeners, the registry | `setValue`, `getValue`, `addListener`, `Lookup`, `LoadFromYaml` | listeners run under a read lock, the value is written later under the write lock |
| `LogFormatter` (`log.*`) | the parsed items of a pattern, `m_error` | `init`, `format` | one pass over the text with several indices and quiet error paths |
| `LexicalCast` (`config.h`, `log.cpp`) | none | YAML text to containers and back | - |
| `Thread`, `Semaphore` (`thread.*`, `mutex.*`) | the object, the thread's id, the semaphore of the start-up handshake | construct, `run`, `join`, destroy or detach | the new thread uses the object while its creator waits with a mutex held |
| `Mutex`, `RWMutex`, scoped locks (`mutex.h`) | wrappers of pthreads | | - |
| `Address`, `util`, `macro`, `singleton` | none, or unfinished | | - |

They interact by calls and shared state: `IOManager` is a `Scheduler` and a
`TimerManager`.  Its `idle()` is what the scheduler's threads execute without a
task: it sleeps in `epoll_wait()` until the first timer, a report or a tickle,
schedules expired timers and triggered callbacks, and swaps out.
`schedule()` and `addTimer()` of other threads tickle it.  Configuration changes
reach the loggers through the one listener `LogIniter` installs.

What makes each part correct:

* `Fiber`: a fiber is on one stack at a time, and its assertions on `m_state` hold.
* `Scheduler`: every scheduled callback starts exactly once; a fiber with code
  left to run is in one place; the counters are exact; `stop()` returns and
  leaves nothing behind.
* `TimerManager`: a timer has a callback exactly while it is in the set; one-shot
  timers fire once or are cancelled, never both; nothing fires early, and some
  poller wakes in time for the first timer, unless signals prolong its sleep.
* `Thread`: the creator gets a thread that has its callback and has left its id;
  the object outlives its use.
* `IOManager`: no assertion fails; no edge and no callback is lost or handled
  twice; the pending count is exact; shutdown ends, and leaves no callback except what a
  last task registers too late (see *Findings*);
  a context that has events can be found, is the only one of its descriptor, and
  is not deleted under a thread.
* `LogFormatter`: it accepts the patterns it documents and loses nothing of them.
* Loggers: once a configuration is set the loggers are what it says; no appender
  lacks a formatter; no important event is lost while it is being applied.

`PROJECT.json` lists, under `hazards`, where in the code each of these could go
wrong, with the property that would show it.

## The modules

| module | models | notes |
|---|---|---|
| `Fiber` | `fiber.h`, `fiber.cpp` | action fragments, conjoined by `Scheduler` |
| `Scheduler` | `scheduler.h`, `scheduler.cpp`, and the client code that calls them | specification, properties, inductive invariant |
| `Executor` | what `Scheduler` promises its owner | abstract specification; `Scheduler!ImplementsExecutor` is the refinement |
| `SchedulerProofs` | - | theorems about `Scheduler`: types, counters, ownership, the assertions of `Fiber` |
| `ConservationProofs` | - | theorems about `Scheduler`: nothing is lost or left behind, and it implements `Executor` |
| `Timer` | `timer.h`, `timer.cpp`, and what `IOManager::idle()` and `tickle()` do with timers | |
| `TimerProofs` | - | theorems about `Timer` |
| `IOManager` | `iomanager.h`, `iomanager.cpp`, and the part of `Scheduler::run()` that `stopping()` depends on | epoll is external |
| `IOManagerProofs` | - | theorems about `IOManager` |
| `Thread` | `thread.h`, `thread.cpp`, the `Semaphore` of `mutex.cpp` | action fragments, conjoined by `Lifecycle` |
| `FdTable` | `IOManager::m_fdContexts`: `contextResize`, and the look-up in `addEvent`, `cancelAll` and `idle` | action fragments, conjoined by `Lifecycle` |
| `Lifecycle` | `IOManager()`, `start()`, `stop()`, `~IOManager()` around `Thread` and `FdTable` | composition |
| `LifecycleProofs` | - | theorems about `Lifecycle` |
| `LogFormatter` | `LogFormatter::init` | operators: the parser, and the grammar it is compared with |
| `LogFormatterProofs` | - | theorems about the parser, for patterns of any length |
| `LogConfig` | `Config::LoadFromYaml`, the conversion to `LogDefine`s, `ConfigVar::setValue`, the listener of `LogIniter`, `Logger` | |
| `LogConfigProofs` | - | theorems about `LogConfig` |
| `MCScheduler`, `MCTimer`, `MCIOManager`, `MCLogConfig` | - | symmetry sets and values of constants for TLC |

Variables carry the names of the members or locals they stand for; `pc`,
`poller`, `client`, `setter` and `writer` say where a thread is in the code.
A definition whose name ends in `_Something`, placed before the definition it is
a variant of, is a plausible bug; each property of a run is violated when one of
them replaces the original.

### Fiber and Scheduler

A thread is on its scheduling stack (`t_fiber[t] = NoFiber`) or on that of a
fiber.  What happens under `m_mutex` is one step; the increments of the atomic
counters, the publication of a fiber's state, and the switch of stacks that
follows are separate steps, because other threads see the states between them.
So `run()` on a thread is: `TakeTask` or `FindNoTask`; `CountActive`;
`DispatchFiber`, `DispatchCb` or `DropTask`; the steps of the client's code;
`SwapOut`; `UncountActive`; `PostReady`, `PostFinished` or `PostHold`; and
`EnterIdle`, `Idle`, `LeaveIdle` or `ExitRun` when there is no task.  The
owner's `start()` is one step (it holds `m_mutex`), `stop()` is `Stop`, then
`StopAtOnce` or `SignalStop`, `EnterRoot` or `SkipRoot`, `LeaveRoot`, `Join`.

Client code is what it may be: callbacks schedule callbacks, ranges, new fibers
and finished fibers, pinned or not; they yield, throw, return, or arrange to be
woken (`UserArms`) and hold.  Two constants restrict it, because the code needs
it: `WakeRunning = FALSE` says that a fiber is woken only after its thread has
parked it (see *Findings*), and `PinOther = FALSE` that callbacks pin tasks to
their own thread only.  `SchedulerCaller` sets `PinOther`, and its properties name
the one thing that goes wrong then: a task that is `Stranded`, pinned to a thread
that has left `run()`.  As a rule `stop()` then waits for ever; if the idle fibers
of all threads have already ended it returns, and the callback is lost.

`Executor` is the scheduler as its owner sees it: callbacks are pending, then
started, each once, while the scheduler is up, and it goes down with nothing
pending.  The mapping (`Promise`) takes as pending what the list and the tasks
taken from it will start, and as up the time from `start()` to the return of
`stop()`.

Fiber objects are never recycled: `NewFiber` takes an unused one, so the number
of `Fibers` bounds a run.  Threads of a restarted scheduler get the ids of the
first ones.

### Timer

An entry of `m_timers` is the pair of the key it was inserted under and the
timer, so that changing `m_next` of a queued timer would be seen.  Sections
under `TimerManager::m_mutex` are steps; reading the clock in
`listExpiredCb()` and calling `onTimerInsertedAtFront()` happen outside of it
and are steps of their own.  The pipe is edge-triggered: `pipe` says that it has
bytes, `edge` that epoll has not reported them yet.  Time is a counter; setting
the clock back moves it without moving the timeouts of sleeping pollers, which
are monotonic.  The timeout is what `idle()` makes of the
delay: it is cast to an `int` of `IntBits` bits, capped at `MaxTimeout`, and
negative values mean no timeout (`Never`).  A signal that interrupts
`epoll_wait()` makes `idle()` call it again with the whole of that timeout, not
with what is left (`iomanager.cpp:300-310`, `Interrupt`), so that each signal may
prolong a sleep by `MAX_TIMEOUT`; `signals` counts them, and `MaxSignals` bounds
how many interrupt one sleep.  `epoll_wait()` is taken to start as soon as
`getNextTimer()` has returned; descriptors do not wake a poller here, which only
makes it sleep longer.
`Timer::reset()` returns at once if the period is the old one
and the start is to stay; the code tests this before it takes the mutex
(`timer.cpp:75`), the model in the same step as the rest.

### IOManager

The calls on a descriptor hold its mutex from the check to the end (`holder`);
they are split at `epoll_ctl()`, at `schedule()` and at the change of
`m_pendingEventCount`, which other threads observe without that mutex.
epoll is external and edge-triggered: `armed` says that a descriptor is on
the ready list, `epoll_ctl()` looks at the descriptor again, `epoll_wait()`
takes what is ready among the interest and clears the list.  `TriggerEvent`
has the assertion as its guard, and `TriggerAssert` states it.  Tasks are a set:
their order does not matter to these properties.

Waiters are callbacks or the calling fiber itself (`"fiberWait"`: `addEvent()`
without a callback, then `YieldToHold()`; used with one thread, as several
threads would meet the race of `SchedulerWakeRunning`).  A timer is armed until
its time has come and its callback is listed, held in a local vector, and
scheduled, or until `Timer::cancel()` (`CancelTimer`); a recurring one
(`Recurring`, `m_recurring`) is armed again when its callback is taken.  As tasks
are a set, two expirations of one timer that are scheduled before either is run
count as one, and the callback of a recurring timer, which runs in a new fiber each
time, does not use `"fiberWait"`.  `stopping()` reads the timers, the scheduler and
the count of events one after the other.

An idle fiber that ends does not end its thread: `run()` looks at `m_tasks` again
(`scheduler.cpp:120-146`), runs what it finds, and leaves (`ExitRun`,
`scheduler.cpp:189-192`) when there is nothing, without polling again.  `ended` has the
threads for which this holds, `late` the callbacks that were last accepted from a task
on one of them: when all threads have ended their idle fibers, nobody is left to serve
those, and the properties about shutdown except them.

`EpollWait` may return at any time, with a report or with nothing, and fair threads
make it return at last: here a poller is taken not to be interrupted for ever.

Faults: a callback may `close()` a descriptor at any time, with events registered
or while another thread is between the two halves of a call, and the number may be
given to a new file (`Reopen`).  epoll forgets a closed descriptor, and
`epoll_ctl()` fails where the kernel makes it fail (`Accepts`); each caller then
does what its code does: `addEvent()`, `cancelEvent()` and `cancelAll()` return
false, `idle()` drops the report, `delEvent()` goes on.  `orphaned` holds
the callbacks that wait for a descriptor that was closed under them.

### Thread, FdTable and Lifecycle

`Lifecycle` follows an `IOManager` from its constructor to its destructor.
`start()` holds `Scheduler::m_mutex` while it creates the threads one by one, and
each constructor waits for `notify()`; a thread that has called its callback waits
for that mutex (`InRun`).  Then the threads look contexts up and use them:
the look-up under the read lock, the growth under the write lock, and the use under
the context's own lock are separate steps.  A context is a number per
descriptor, so that a context that was cut off and made again is a different one;
epoll keeps the number it was given.  Events are reduced to registered or not.
Descriptors are not closed here: after a `close()` epoll would forget the context it was
given, and a context made again for a reused number could get events besides a
dropped one, which `OneContextPerFd` does not speak of.
`m_id`, `m_semaphore` and the object's life are those of `Thread`; a thread leaves
`run()` when the conditions of `stopping()` hold.

### LogFormatter

`init(pattern)` runs the loop of the code, one `Step` per turn, over patterns of
abstract characters: `%`, braces, letters (known as items or not) and others.
The patterns are also described without a parser: a pattern is a `Row` of words, each
of them a character of text or an item of one known letter, with a format in braces or
not followed by a letter or brace.  For `Documented` a `%%` is a word, as the comment
over `init()` says (`log.cpp:413`: `%xxx %xxx{xxx} %%`); for `WellFormed`, as the code
has it, a `%` before another `%` is text and the second one is read on its own.  The
two agree on the patterns without `%%` (`HasDoublePercent`): there the properties
compare the parser with `Documented`, and `LogPercent` shows that it does not keep to
it elsewhere.
`Written` is what an item stands for in the pattern.  A format that is empty, `{}`,
is read as none, and is excepted where a pattern is compared with its items.

### LogConfig

A document is a sequence of nodes, converted as `LexicalCast` does: an error
rejects the whole document, appenders of an unknown type are skipped, and the
first of several nodes with one name counts.
`setValue()` takes the read lock, computes what is new, changed or gone, and the
listener applies it by calls that each take the mutex of one logger; then the
read lock is released, and the value is written when no reader is left.  A
writer whose logger has no appenders calls the root logger with its own logger
still locked.  The order of the names, alphabetical in the code, is left open.
Patterns are names with a `Spelling`, and a logger takes those that `init` accepts.

## The runs

| run | instance | checks |
|---|---|---|
| `SchedulerCaller` | use_caller and a worker, 2 callbacks, 2 fibers, tasks pinned to any thread | the assertions of `Fiber`, exact counters, `StopDrains`, `StopReturns`, `EveryCallbackStarts` |
| `SchedulerRestart` | 2 workers, no use_caller, 2 yields, 2 starts | the inductive invariant `ConservationInv` (of which `IInv` is a part); ownership, conservation; the refinement of `Executor` |
| `SchedulerRootOnly` | the caller alone, 3 callbacks, 3 fibers, 1 yield | `StopReturns` |
| `SchedulerWakeRunning` | 2 workers, 1 fiber, clients that wake running fibers | violates `RunningFiberIsExec` |
| `TimerSafety` | 1 client, 2 pollers, a one-shot and a recurring timer, periods 2 and 4, an `int` of 3 bits, a setback of 2, 1 signal per sleep | all safety properties of the timers |
| `TimerLive` | 2 clients, 1 poller, 2 one-shot timers, a period of 2 in 4 ticks, 1 signal per sleep | `NoOversleep`, `EveryTimerFires` |
| `IOOneDirection` | 2 threads, 1 descriptor, READ, every call, one-shot and recurring timers, `close()` | all properties of the I/O manager |
| `IOBothDirections` | 1 thread, 2 descriptors, READ and WRITE, a waiting fiber, `close()`, without `cancelEvent()` | `FdConsistent`, `ReadyIsServed` |
| `IOTwoPollers` | 2 threads, READ and WRITE | violates `TriggerAssert` |
| `LifecycleTable` | 3 threads, descriptors 2 and 4, a table of 2 at first, 2 contexts per descriptor | all properties of `Lifecycle` |
| `LogReconfigure` | 2 setters, 1 writer, root and one other logger, 6 documents; all patterns of up to 6 characters over 6 | all properties of the loggers and the parser |
| `LogPercent` | 1 setter, 1 writer, a logger that is given a pattern ending in `%%` | violates `DocumentedFormats` |

The bounds.  For the scheduler two threads are enough for every race between a
thread that takes or posts a task and one that scans or stops; two callbacks let
one schedule the other to a thread that is leaving, three let a callback schedule
a range; one or two yields let a fiber move from thread to thread and back; two
starts give a scheduler that has been stopped before.
For the timers two of them order the set in every way, two ticks let a timer be due,
not due, or overtaken; with an `int` of 3 bits and a `MaxTimeout` of 2 a period of 4 is
negative, so that one poller may sleep without a timeout next to one with it; an `Hour`
of 1 lets a poller be late by more than it, the setback exceeds it, and one signal
prolongs a sleep by as much as it lasts.  In `TimerLive` four ticks are the period and
what one signal can add.  Without the terms for signals TLC finds `NoOversleep` violated
in `TimerSafety`, and `EveryTimerFires` in `TimerLive`.
For the I/O manager two threads race on one descriptor with as many
registrations and timers as there are callbacks besides the first; two
descriptors give a report of two entries, the second of which is handled after
the first has changed things.  In `LifecycleTable` descriptor 2 asks for a table of
3 and 4 for one of 6, so that a late growth cuts off the context of 4, and two
contexts let it be made again; of three threads two can grow the table while the
third holds a context.  Six characters hold an item with a format and something
before or behind it, and the parser's theorems hold for any number.  The loggers need no bound: their state space is finite, and
that run, like those of the scheduler, also shows the absence of deadlock.
Where `CHECK_DEADLOCK FALSE` is given the instance ends by its bounds (time runs
out), because all threads have left, or where an assertion ends the program.

Fairness.  `Scheduler`: weak fairness of every thread, whose callbacks yield or
end at last, and of a `stop()` that was called; nothing obliges the owner to call
it.  `Timer`: time passes, pollers keep polling, a client inside `addTimer()`
leaves it; a signal is never owed, and each sleep is interrupted by `MaxSignals` at
most.  The last is a hypothesis about the environment: the code does not justify it, and
periodic signals, less than the timeout apart, would keep a poller in the loop of
`iomanager.cpp:300-310` for ever.  `IOManager`: weak fairness of every thread (`FairSpec`); `StopEnds`
needs in addition that a descriptor that is not ready becomes so at last
(`LiveSpec`), because `stopping()` waits for every registered callback.  A
descriptor that is ready owes no second edge: `ReadyIsServed` gets none for
free.  `Lifecycle`: the constructor and new threads go on.  The operating system's scheduler justifies all of these for threads that do
not block; mutexes are held for finitely many steps.

## Findings

* `SchedulerWakeRunning`: `run()` sets a fiber to HOLD after it has swapped
  out of it (`scheduler.cpp:161`, `180`).  If the fiber has been scheduled and
  resumed by another thread in the meantime, the state of a running fiber
  becomes HOLD and the assertion in `YieldToHold()` (`fiber.cpp:156`) fails at its
  next yield.
* `IOTwoPollers`: `idle()` triggers everything that epoll reported, registered
  or not, as soon as one of it is registered (`iomanager.cpp:344`, `359`).
  Two pollers with overlapping reports fail the assertion of `triggerEvent()`
  (`iomanager.cpp:43`).
* `LogPercent`: the comment over `LogFormatter::init()` (`log.cpp:413`) lists `%%` as
  an item.  The code makes the first `%` text and reads the second one again, as the
  start of an item (`log.cpp:424-429`): `%%m` is the text `%` and the message, and a
  pattern that ends in `%%`, or has neither a known letter nor another `%` behind it, is
  refused; the logger keeps the formatter it had.

Not listed as findings, and kept out of the properties by an explicit hypothesis.  Of
these only `cancelEvent()` fails an assertion, which one thread can show; of the
others no document, test or assertion says otherwise:

* a callback pinned to a thread that has left `run()` is lost, or keeps `stop()`
  from returning (`Stranded`);
* `cancelEvent()` tests whether any event is registered, not whether its event is
  (`iomanager.cpp:199`, where `delEvent()` tests the event at line 167).  For a direction
  that is not registered while the other one is, it fails the assertion of
  `triggerEvent()` (`iomanager.cpp:43`): with `"cancelEvent"` among the `Ops` of
  `IOBothDirections` TLC shows it with one thread.  The passing runs wait in one direction
  or do not call `cancelEvent()`, and the theorem about `TriggerAssert` has one
  direction as its hypothesis;
* a task that a thread runs after its idle fiber has ended may register callbacks that
  nobody polls for (`late`).  T2 has taken A and not counted it yet, so that T1 finds
  `stopping()` true and its idle fiber ends; A schedules B, T1 looks at the list again
  and takes B, uncounted; T2 finishes A, finds nothing, and leaves; B calls
  `addEvent()` or `addTimer()`, and T1 leaves.  `stop()` returns with the callback
  waiting;
* signals that interrupt `epoll_wait()` make a poller sleep longer, by `MAX_TIMEOUT` each
  at most, and if they never cease timers never fire (`signals`, `MaxSignals`);
* a recurring timer that nobody cancels keeps `stop()` from returning;
* two threads that grow the table of contexts at once can cut off a context that
  is in use: `delEvent()` and `cancelAll()` no longer find it, and it is never
  deleted (`dropped`); its events are still reported;
* a descriptor that is closed with events registered keeps `stop()` from
  returning, and its number cannot be used with the other direction, until someone
  calls `delEvent()` (`orphaned`);
* a delay between 2^31 and 2^32 ms is negative as an `int`, and a poller with it
  waits for a tickle or an event, past that timer and those behind it (`Never`);
* overlapping calls of `setValue()` can leave the loggers different from `m_val`
  (`raced`); while the root logger is reconfigured its events are lost
  (`touched`);
* after the clock is set back `refresh()` can make a poller oversleep, by
  `MAX_TIMEOUT` at most (`setbacks`); a poller that is held up for more than an
  hour between reading the clock and taking the lock fires everything at once.

## The proofs

The theorems hold for every value of the constants that satisfies the assumptions
of the modules, which TLC evaluates in every run, and the hypotheses named below.
In each module an inductive invariant carries everything else; there is one
lemma per action, or per group of actions of the same shape, with one step for
each part of the invariant that it can disturb.  Each of these invariants was
checked by TLC before it was proved.

### The scheduler

`SchedulerProofs` and `ConservationProofs` speak of any finite set of threads,
with or without use_caller, any fibers and callbacks, any number of yields and
starts, and clients that wake parked fibers only (`~WakeRunning`; otherwise the
finding of `SchedulerWakeRunning` applies).

* `Invariance`: `IInv` is an invariant of `Spec`.  `TypeCorrect`,
  `CountersAreExact`, `Exclusion`, `YieldAsserts` and `SwapInAsserts` follow:
  `TypeOK`, `CountersExact`, `FiberExclusive`, `RunningFiberIsExec` and
  `SuspendedFiberStates`.  None of the five is inductive alone.  That two threads
  are not on one stack depends on who may swap into a fiber, hence on who holds it:
  `IInv` says that a fiber has one owner (an entry of the list, the `tk` or the
  `cb_fiber` of a thread) unless it has finished (`ThreadsOwn`, `QueueOwns`), that
  a fiber waiting to be woken is in no list and is parked or about to be
  (`WaitingInv`), that locals and states agree with where a thread is
  (`LocalsInv`, `StatesInv`, `QueueInv`), and when the owner's thread is in `run()`
  (`CallerInv`).
* `Conservation`: `ConservationInv` is an invariant.  It adds that no callback is
  about to be started in two places (`StartsInv`), that a fiber with code to run
  is somewhere (`PlacesInv`, `YieldInv`), how far a scheduler that ends has got
  (`EndInv`), and that whatever is in the list is still to be seen by a thread
  that may take it (`SeenInv`).  The last one is why nothing is left behind: the
  threads see `stopping()`, end their idle fibers and leave one by one, while
  others still schedule; a thread that schedules looks at the list again itself.
* `CallbacksConserved`, `FibersOwnedOnce` and `StopLeavesNothing` are
  `NoCallbackLost`, `FiberOwnedOnce` and `StopDrains`.
* `Implementation`: the scheduler implements `Executor`, step by step.  It
  assumes in addition that callbacks pin tasks to their own thread only
  (`~PinOther`), as the promise is broken by a task that is `Stranded`.

### The timers

`TimerProofs`, for any timers, clients and pollers, any periods, any width of the
`int`, any setbacks of the clock and any number of signals in a sleep: `TypeCorrect`, `TimersFound` (`ArmedIffQueued`),
`FiresOnce` (`OneShotContract`), `StaysArmed` (`RecurringStaysArmed`), `WakesInTime`
(`NoOversleep`) and the action property `NotEarly` (`NeverEarly`).  The invariant
adds what the clock readings of a poller are worth (`TimeInv`), that a timer that
`addTimer()` is still to insert is known to its client alone (`ClientInv`,
`FreshInv`), what `m_cb` tells about firing and cancelling (`CallbackInv`), and that a set
`m_tickled` has a byte in the pipe, a client on its way to write one, or a poller
that is awake (`WakeInv`): without it the flag could suppress the tickle that a
sleeping poller needs.  It also says that no sleep is longer than `MAX_TIMEOUT`, begun
anew by a signal or not, which is what `NoOversleep` allows for each of them.  There is
at least one poller (`PollersAssumption`, the
assertion of `Scheduler()`); that 2^n is twice 2^(n-1) is part of `TimerAssumption`, as
the provers know no exponentials.

### The I/O manager

`IOManagerProofs`, for any finite pool of threads and set of descriptors
(`PoolAssumption`), any callbacks, and any choice of calls and directions:
`TypeCorrect`, `EpollAgrees` (`FdConsistent`), `PendingCounted` (`PendingExact`),
`CallbackInOnePlace` (`CallbackOnce`) and `StopLeavesNothing`
(`StopKeepsCallbacks`).  `AssertWithOneDirection` is `TriggerAssert` under the
hypothesis that callbacks wait in one direction only; `IOTwoPollers`
and what *Findings* says of `cancelEvent()` show why it is there.  The invariant says who holds a
descriptor's mutex and that what its call is about to do is still to be
done (`LockInv`, `OpInv`), how far epoll's interest is ahead of the contexts
while a call is in progress or the descriptor was closed (`WatchedInv`), in which one
place each accepted callback is (`PlaceInv`), that recurring ones stay armed
(`RecurringInv`), what the counters count
(`CountInv`), and, because `stopping()` reads its three conditions one after
another, that each of them stays true once every thread has passed it, up to what is
`late` (`StopInv`): only a thread that is to look at the tasks again can add
something, and if its idle fiber has ended, what it adds is `late`.

### Threads and contexts

`LifecycleProofs`, for any threads, descriptors and sizes of the table:
`TypeCorrect`, `IdsStored` (`IdsKnown`), `ObjectsOutlive` (`NoUseAfterDelete`),
`ContextsReachable` (`RegisteredReachable`) and `ContextsUnique`
(`OneContextPerFd`).  The invariant relates `m_threads` to the objects that live
(`ObjectsInv`), the semaphore to the stored id (`NotifyInv`), `m_threadIds` to
`m_threads` (`OwnerInv`), the table to its size (`TableInv`), and what a call
remembers of the table to the table of now (`CallInv`).

### The pattern parser

`LogFormatterProofs` is about patterns of any length over any letters, known items
and other characters.  `ParserRefuses`: `init()` finds an error exactly in the
patterns that are not `WellFormed`; of those without `%%` these are the patterns that
are not `Documented` (`DocumentedIsWellFormed`).  `ParserWritesBack`: of a pattern that it accepts
and that has no `{}`, the items written one after the other are the pattern.

Both follow the loop turn by turn (`Turns`).  A turn ends where the word that begins
at its `i` ends, if there is one, and the pattern is refused from then on if there
is none (`TurnFacts`); two words never begin at the same place (`WordOfText`,
`WordIsItem`), so the places where turns begin are the only cut into words there can
be.  Every turn advances, so `Len(pattern)` turns reach the end (`RunTypes`), and
what was refused stays refused (`RunMonotonic`).  In the other theorem the items and
the text that is not in an item yet are, after every turn, what was read so far
(`Consumed`).  The provers cannot use the library's induction theorems, which take an
operator as a parameter; the inductions here are over the number of turns, as the set
of turns after which a fact holds (`UpTo`), which rests on a set of naturals having
a least element.  The functions that `init` and `FlattenSeq` define by recursion are
shown to exist in the same way (`TurnsExist`, `FlattensExist`).

### The loggers

`LogConfigProofs`, for any names, documents, patterns, setters and writers:
`TypeCorrect`, `FormattersPresent` (`FormatterPresent`), `FormatsAreExact`
(`FormatsExact`, with `ParserIsExact` for its part about the parser),
`ConfigIsApplied` (`ConfigApplied`) and `FatalAlwaysReaches` (`FatalReaches`).
Types need that every document that converts gives well-typed definitions
(`ParseType`); an appender in use has a formatter that parsed, never `Empty`
(`Loggers`).  `ConfigApplied` says something of the loggers only when no call is in
progress, so the invariant says the rest (`ApplyInv`): as long as no two calls have
overlapped there is one in progress at most; the names that are neither in its `todo`
nor in its `gone`, nor the one it is at, agree with the value it applies already
(`Settled`); and of that one it says which of its level, formatter and first
appenders are done (`Doing`, `Progress`).  `FatalReaches` rests on `RootInv`: the
names that a call will change are in `touched` from its beginning, so a root logger
that is not in it still has its appender.  `DefaultAssumption` says that the pattern
of `Logger::Logger()`, a literal in the code, makes sense.

### What the proofs changed in the models

Two proof attempts failed for a reason.  A poller whose time had come before the
clock was set back was given a wake-up time before the beginning (`SetBack`); it is
now one that is due.  A callback whose descriptor had been closed stayed in
`orphaned` after it had been removed, and could be accepted again; the set is now
that of the callbacks which wait.  Two definitions changed their form only: the
provers know nothing of `SelectSeq`, so `AppenderDefines` is the loop of the code as a
recursive function; and the braces are named `Open` and `Close`, as the string literals
are more than the prover's translation can take.

### Only model-checked

* Liveness, which is out of the prover's reach: `StopReturns`,
  `EveryCallbackStarts`, `EveryTimerFires`, `ReadyIsServed`, `StopEnds`,
  `StartReturns`.
* `TriggerAssert` for an instance with two directions whose callbacks avoid both ways to
  break it is not stated: the code gives no such rule to its clients.

All safety properties of the runs are proved, `TriggerAssert` under the hypothesis
above.

## Not modelled

* What the items of a `LogFormatter` print, and `LogEvent`: formatting.
* `LexicalCast` of other types than the definitions of loggers, and back to text:
  sequential conversions.
* The locks of `mutex.h`: wrappers of pthreads; they appear as atomic sections, or
  as variables where they are held across steps.
* `pthread_create()`, `sem_wait()` and `epoll_create()` failing: the code throws
  or asserts, and the program ends.
* A `Thread` that the program drops while it runs, and detaches (`thread.cpp:43-47`):
  the threads of a pool are joined.
* `schedule()` between `stop()` and another `start()`.
* In `IOManager`: `MAX_EVENTS` (a report that does not fit comes with the next
  call), a tickle pipe that is full (`write()` of a blocking pipe).
* In `Log` and `Config`: reopening files, `delAppender()`, and calls of `Logger`'s
  setters by the program itself (as in `src/tests/test_config.cpp:189`), after which
  `ConfigApplied` would not hold; listeners that come and
  go, of which the code has none; the registry, which is filled by static
  initializers before there are threads.  `Config::Lookup()` inserts under the
  read lock (`config.h:358`), a data race for a program that calls it later.
* `Address`: not built by `CMakeLists.txt`.

## Plan

1. Done: `Fiber`, `Scheduler` with its abstract specification and proofs; `Timer`;
   `IOManager` with faults, fibers and timers; `Thread`, `FdTable` and their
   composition; `LogFormatter`; `LogConfig`.
2. Done: the proofs of `Scheduler` with its refinement, of `Timer`, `IOManager`,
   `Lifecycle`, `LogFormatter` and `LogConfig`.
3. Left: tasks that are scheduled while a scheduler is down, and `close()` in `FdTable`;
   `delAppender()` and the reopening of files in `LogConfig`; listeners that are
   added and removed while `setValue()` runs.
