---------------------------- MODULE TimerProofs ----------------------------
(***************************************************************************)
(* Theorems about module Timer, for every set of timers, clients and       *)
(* pollers, every period and every bound.                                  *)
(***************************************************************************)
EXTENDS Timer, TLAPS, WellFoundedInduction

(* addTimer() was called for the timer. *)
Made(i) == i \in shared \/ \E c \in Clients : client[c][2] = i

(* Until it is set back, the clock is ahead of what was read from it.      *)
TimeInv ==
  /\ clock <= Boot + ticks /\ \A p \in Pollers : now_ms[p] \in Instants
  /\ setbacks = 0 =>
       /\ Boot <= m_previousTime /\ m_previousTime <= clock
       /\ \A p \in Pollers : now_ms[p] <= clock /\ (poller[p] = "list" => Boot <= now_ms[p])
       /\ \A i \in Timers : m_next[i] - m_ms[i] <= clock

(* A timer that is still to be inserted is known to one client only. *)
ClientInv ==
  \A c \in Clients, i \in Timers : client[c] = <<"insert", i>> =>
    m_cb[i] /\ i \notin shared /\ \A d \in Clients : client[d][2] = i => d = c

(* Of a timer that was not made nothing is known. *)
FreshInv ==
  \A i \in Timers : ~Made(i) =>
    ~m_cb[i] /\ fired[i] = 0 /\ i \notin cancelled /\ \A p \in Pollers : i \notin cbs[p]

(* m_cb tells whether a timer may still fire. *)
CallbackInv ==
  \A i \in Timers :
    /\ m_cb[i] => i \notin cancelled
    /\ m_recurring[i] => fired[i] = 0 /\ (Made(i) /\ i \notin cancelled => m_cb[i])
    /\ ~m_recurring[i] /\ (fired[i] # 0 \/ \E p \in Pollers : i \in cbs[p]) =>
         fired[i] = 1 /\ ~m_cb[i] /\ i \notin cancelled

(* A sleep is no longer than MAX_TIMEOUT, also one that a signal starts    *)
(* again, and a claimed tickle is on its way, or a poller is awake and     *)
(* will look at the timers again.                                          *)
WakeInv ==
  /\ \A p \in Pollers : poller[p] = "asleep" =>
       /\ timeout[p] <= MaxTimeout /\ (wake[p] = Never <=> timeout[p] < 0)
       /\ wake[p] # Never => wake[p] <= clock + MaxTimeout
  /\ m_tickled => \/ pipe /\ edge
                  \/ \E c \in Clients : client[c][1] = "tickle"
                  \/ \E p \in Pollers : poller[p] # "asleep"

TimersInv == ClientInv /\ ArmedIffQueued /\ FreshInv /\ CallbackInv

IInv == TypeOK /\ TimeInv /\ TimersInv /\ WakeInv /\ NoOversleep

-----------------------------------------------------------------------------

(* A set of times has an earliest one. *)
LEMMA Earliest ==
  ASSUME NEW T, T \subseteq Nat, T # {}
  PROVE  \E x \in T : \A y \in T : x <= y
<1>. DEFINE R == OpToRel(<, Nat)
<1>1. R = {ss \in Nat \X Nat : ss[1] < ss[2]}
  BY DEF OpToRel
<1>2. IsWellFoundedOn(R, Nat)
  BY NatLessThanWellFounded
<1>. HIDE DEF R
<1>3. PICK x \in T : \A y \in T : ~ (<<y, x>> \in R)
  BY <1>2, WFMin
<1>4. ASSUME NEW y \in T PROVE x <= y
  <2>1. x \in Nat /\ y \in Nat /\ ~ (y < x)
    BY <1>1, <1>3
  <2>. QED BY <2>1
<1>. QED BY <1>4

(* A cast to int never makes a number larger, and makes it negative only   *)
(* if it is larger than any int.                                           *)
LEMMA AsIntFacts ==
  ASSUME NEW n \in Nat
  PROVE  AsInt(n) \in Int /\ AsInt(n) <= n /\ (AsInt(n) < 0 => n > MaxTimeout)
<1>. DEFINE h == 2^(IntBits - 1)
            w == 2^IntBits
<1>1. h \in Nat /\ w = 2 * h /\ MaxTimeout \in Nat /\ MaxTimeout < h
  BY TimerAssumption
<1>2. AsInt(n) = ((n + h) % w) - h
  BY DEF AsInt
<1>. HIDE DEF h, w
<1>3. w \in Nat \ {0}
  BY <1>1
<1>4. (n + h) % w \in Nat /\ (n + h) % w <= n + h
  BY <1>1, <1>3
<1>5. n < h => (n + h) % w = n + h
  BY <1>1, <1>3
<1>. QED BY <1>1, <1>2, <1>4, <1>5

(* The types of the constants' derivates. *)
LEMMA TimeFacts ==
  Boot \in Nat /\ Boot > Hour /\ Never \in Nat /\ MaxTimeout \in Nat /\ Boot + MaxTicks + MaxTimeout < Never
<1>1. MaxTimeout \in Nat /\ Hour \in Nat /\ MaxTicks \in Nat
  BY TimerAssumption
<1>. QED BY <1>1 DEF Boot, Never

(* The delay that getNextTimer() returns ends at the first timer, or now. *)
LEMMA DelayFacts ==
  ASSUME TypeOK, m_timers # {}
  PROVE  Delay \in Nat /\ \A e \in m_timers : clock + Delay <= e[1] \/ Delay = 0
<1>. DEFINE T == {e[1] : e \in m_timers}
            first == CHOOSE t \in T : \A e \in m_timers : t <= e[1]
<1>1. T \subseteq Nat /\ T # {} /\ clock \in Nat /\ \A e \in m_timers : e[1] \in T
  BY DEF TypeOK, Instants
<1>2. \E t \in T : \A e \in m_timers : t <= e[1]
  BY <1>1, Earliest
<1>3. first \in T /\ \A e \in m_timers : first <= e[1]
  BY <1>2
<1>4. Delay = IF first > clock THEN first - clock ELSE 0
  BY DEF Delay
<1>. HIDE DEF T, first
<1>5. first \in Nat /\ \A e \in m_timers : e[1] \in Nat
  BY <1>1, <1>3
<1>. QED BY <1>1, <1>3, <1>4, <1>5

(* The timeout is one of idle(), and a sleep with it ends in time for      *)
(* every timer in the set.  If the cast made it negative, then no timer is *)
(* due within MAX_TIMEOUT.                                                 *)
LEMMA TimeoutFacts ==
  ASSUME TypeOK
  PROVE  /\ Timeout \in Int /\ Timeout <= MaxTimeout
         /\ Timeout >= 0 => \A e \in m_timers : clock + Timeout <= e[1] \/ Timeout = 0
         /\ Timeout < 0 => \A e \in m_timers : clock + MaxTimeout <= e[1]
<1>1. clock \in Nat /\ MaxTimeout \in Nat /\ \A e \in m_timers : e[1] \in Nat
  BY TimeFacts DEF TypeOK, Instants
<1>2. CASE m_timers = {}
  BY <1>1, <1>2 DEF Timeout
<1>3. CASE m_timers # {}
  <2>1. Delay \in Nat /\ \A e \in m_timers : clock + Delay <= e[1] \/ Delay = 0
    BY <1>3, DelayFacts
  <2>2. AsInt(Delay) \in Int /\ AsInt(Delay) <= Delay /\ (AsInt(Delay) < 0 => Delay > MaxTimeout)
    BY <2>1, AsIntFacts
  <2>3. CASE AsInt(Delay) > MaxTimeout
    <3>1. Timeout = MaxTimeout
      BY <2>3 DEF Timeout
    <3>. QED BY <1>1, <2>1, <2>2, <2>3, <3>1
  <2>4. CASE ~(AsInt(Delay) > MaxTimeout)
    <3>1. Timeout = AsInt(Delay)
      BY <1>3, <2>4 DEF Timeout
    <3>. QED BY <1>1, <2>1, <2>2, <2>4, <3>1
  <2>. QED BY <2>3, <2>4
<1>. QED BY <1>2, <1>3

(* When a sleep that starts now ends. *)
LEMMA SleepEndFacts ==
  ASSUME TypeOK, NEW n \in Int, n <= MaxTimeout
  PROVE  /\ SleepEnd(n) \in Nat /\ (SleepEnd(n) = Never <=> n < 0)
         /\ n >= 0 => SleepEnd(n) = clock + n /\ SleepEnd(n) <= clock + MaxTimeout
<1>1. /\ clock \in Nat /\ clock <= Boot + MaxTicks
      /\ Boot \in Nat /\ MaxTicks \in Nat /\ MaxTimeout \in Nat /\ Never \in Nat
      /\ Boot + MaxTicks + MaxTimeout < Never
  BY TimeFacts, TimerAssumption DEF TypeOK, Instants
<1>. QED BY <1>1 DEF SleepEnd

(* How much later signals can make a poller wake. *)
LEMMA SignalFacts ==
  ASSUME TypeOK, NEW p \in Pollers
  PROVE  /\ signals[p] \in Nat /\ signals[p] * MaxTimeout \in Nat
         /\ (signals[p] + 1) * MaxTimeout = signals[p] * MaxTimeout + MaxTimeout
<1>1. signals[p] \in Nat /\ MaxTimeout \in Nat
  BY TimerAssumption DEF TypeOK
<1>. QED BY <1>1

(* Who wakes in time for a timer wakes in time for a later one. *)
LEMMA InTimeLater ==
  ASSUME TypeOK, NEW p \in Pollers, NEW t \in Nat, NEW u \in Nat, t <= u, InTime(p, t)
  PROVE  InTime(p, u)
<1>1. wake[p] \in Nat /\ signals[p] * MaxTimeout \in Nat
  BY SignalFacts DEF TypeOK
<1>. DEFINE grace == signals[p] * MaxTimeout
<1>2. grace \in Nat
  BY <1>1
<1>3. InTime(p, t) <=> /\ wake[p] # Never
                       /\ \/ wake[p] <= t + grace
                          \/ wake[p] <= clock + (IF setbacks = 0 THEN 0 ELSE MaxTimeout)
  BY DEF InTime
<1>4. InTime(p, u) <=> /\ wake[p] # Never
                       /\ \/ wake[p] <= u + grace
                          \/ wake[p] <= clock + (IF setbacks = 0 THEN 0 ELSE MaxTimeout)
  BY DEF InTime
<1>. HIDE DEF grace
<1>. QED BY <1>1, <1>2, <1>3, <1>4

(* Once the clock was set back, whoever sleeps with a timeout is in time.  *)
LEMMA InTimeAnyway ==
  ASSUME WakeInv, setbacks # 0, NEW p \in Pollers, poller[p] = "asleep", wake[p] # Never, NEW t
  PROVE  InTime(p, t)
BY DEF WakeInv, InTime

(* The invariant holds at first. *)
LEMMA InitIInv == Init => IInv
<1>. SUFFICES ASSUME Init PROVE IInv
  OBVIOUS
<1>1. Boot \in Nat /\ Boot > 0 /\ Boot \in Instants /\ 0 \in Instants
  BY TimeFacts, TimerAssumption DEF Instants
<1>. USE TimerAssumption DEF Init
<1>2. TypeOK
  <2>1. \A i \in Timers : m_next[i] - m_ms[i] \in Instants
    BY <1>1
  <2>2. client \in [Clients -> ClientStates]
    BY DEF ClientStates
  <2>3. /\ clock \in Instants /\ ticks \in 0..MaxTicks /\ setbacks \in 0..MaxSetbacks
        /\ ops \in 0..MaxOps /\ m_previousTime \in Nat
    BY <1>1
  <2>4. signals \in [Pollers -> 0..MaxSignals] /\ timeout \in [Pollers -> Int]
    OBVIOUS
  <2>. QED BY <2>1, <2>2, <2>3, <2>4 DEF TypeOK
<1>3. TimeInv
  BY <1>1 DEF TimeInv
<1>4. ClientInv /\ ArmedIffQueued /\ FreshInv /\ CallbackInv
  BY DEF ClientInv, ArmedIffQueued, FreshInv, CallbackInv, Made, None
<1>5. WakeInv /\ NoOversleep
  BY DEF WakeInv, NoOversleep, Quiet, InTime
<1>. QED BY <1>2, <1>3, <1>4, <1>5 DEF IInv, TimersInv

(* Steps that leave the timers alone, or take callbacks from cbs. *)
LEMMA TimersKept ==
  ASSUME IInv, UNCHANGED <<m_timers, timerVars, client, historyVars>>,
         \A p \in Pollers : cbs'[p] \subseteq cbs[p]
  PROVE  TimersInv'
<1>. USE DEF IInv, TimersInv, timerVars, historyVars
<1>1. ClientInv'
  BY DEF ClientInv
<1>2. ArmedIffQueued'
  BY DEF ArmedIffQueued, Entry
<1>3. FreshInv'
  BY DEF FreshInv, Made
<1>4. CallbackInv'
  BY DEF CallbackInv, Made
<1>. QED BY <1>1, <1>2, <1>3, <1>4

(* Time passes. *)
LEMMA TickStep ==
  ASSUME IInv, Tick
  PROVE  IInv'
<1>. USE TimerAssumption, TimeFacts
      DEF IInv, Tick, setVars, timerVars, pollVars, pipeVars, historyVars
<1>1. clock \in Nat /\ ticks \in Nat /\ clock' = clock + 1 /\ clock' \in Instants
  BY DEF TypeOK, TimeInv, Instants
<1>2. TypeOK'
  BY <1>1 DEF TypeOK
<1>3. TimeInv'
  <2>1. \A i \in Timers : m_next[i] - m_ms[i] \in Int
    BY DEF TypeOK
  <2>2. m_previousTime \in Nat /\ \A p \in Pollers : now_ms[p] \in Nat
    BY DEF TypeOK
  <2>. QED BY <1>1, <2>1, <2>2 DEF TimeInv
<1>4. TimersInv'
  BY TimersKept
<1>5. WakeInv'
  BY <1>1 DEF WakeInv, TypeOK
<1>6. NoOversleep'
  <2>1. Quiet' => Quiet
    BY DEF Quiet
  <2>2. ASSUME NEW p \in Pollers, NEW t \in Nat, InTime(p, t) PROVE InTime(p, t)'
    <3>. DEFINE grace == signals[p] * MaxTimeout
    <3>1. wake[p] \in Nat /\ grace \in Nat
      BY SignalFacts DEF TypeOK
    <3>2. /\ wake[p] # Never
          /\ wake[p] <= t + grace \/ wake[p] <= clock + (IF setbacks = 0 THEN 0 ELSE MaxTimeout)
      BY <2>2 DEF InTime
    <3>. HIDE DEF grace, IInv
    <3>3. \/ wake[p] <= t + grace
          \/ wake[p] <= clock' + (IF setbacks = 0 THEN 0 ELSE MaxTimeout)
      BY <1>1, <3>1, <3>2
    <3>. QED BY <3>2, <3>3 DEF InTime, grace
  <2>3. \A e \in m_timers : e[1] \in Nat
    BY DEF TypeOK
  <2>4. NoOversleep /\ m_timers' = m_timers
    OBVIOUS
  <2>. HIDE DEF IInv, Tick
  <2>. QED BY <2>1, <2>2, <2>3, <2>4 DEF NoOversleep
<1>. QED BY <1>2, <1>3, <1>4, <1>5, <1>6

(* The clock is set back. *)
LEMMA SetBackStep ==
  ASSUME IInv, SetBack
  PROVE  IInv'
<1>. PICK by \in Setbacks :
       /\ by <= clock /\ clock' = clock - by
       /\ wake' = [p \in Pollers |-> IF wake[p] = Never THEN Never
                                     ELSE IF wake[p] >= by THEN wake[p] - by ELSE 0]
  BY DEF SetBack
<1>0. /\ setbacks' = setbacks + 1 /\ setbacks < MaxSetbacks
      /\ UNCHANGED <<ticks, setVars, timerVars, client, ops, poller, timeout, signals, now_ms,
                     cbs, saw, pipeVars, historyVars>>
  BY DEF SetBack
<1>. USE TimerAssumption, TimeFacts DEF IInv, setVars, timerVars, pipeVars, historyVars
<1>1. by \in Nat /\ clock \in Nat /\ clock' \in Nat /\ clock' <= clock
  BY DEF TypeOK, Instants
<1>2. wake' \in [Pollers -> Nat]
  BY <1>1 DEF TypeOK
<1>3. TypeOK'
  BY <1>0, <1>1, <1>2 DEF TypeOK, Instants
<1>4. TimeInv' /\ setbacks' # 0
  BY <1>0, <1>1 DEF TimeInv, TypeOK
<1>5. TimersInv'
  BY <1>0, TimersKept
<1>6. WakeInv'
  <2>1. ASSUME NEW p \in Pollers, poller[p] = "asleep"
        PROVE  /\ wake'[p] = Never <=> wake[p] = Never
               /\ wake'[p] # Never => wake'[p] <= clock' + MaxTimeout
    <3>1. wake[p] \in Nat /\ wake[p] # Never => wake[p] <= clock + MaxTimeout
      BY <2>1 DEF WakeInv, TypeOK
    <3>2. clock <= Boot + MaxTicks /\ Boot + MaxTicks \in Nat
      BY DEF TypeOK, Instants
    <3>3. wake'[p] = IF wake[p] = Never THEN Never ELSE IF wake[p] >= by THEN wake[p] - by ELSE 0
      OBVIOUS
    <3>4. wake[p] \in Nat
      BY DEF TypeOK
    <3>. QED BY <1>1, <3>1, <3>2, <3>3, <3>4
  <2>2. WakeInv
    OBVIOUS
  <2>. QED BY <1>0, <2>1, <2>2 DEF WakeInv
<1>7. NoOversleep'
  <2>1. ASSUME Quiet', NEW t PROVE \E p \in Pollers : InTime(p, t)'
    <3>1. PICK p \in Pollers : wake'[p] # Never
      BY <2>1 DEF Quiet
    <3>2. poller'[p] = "asleep"
      BY <2>1 DEF Quiet
    <3>. QED BY <1>4, <1>6, <3>1, <3>2 DEF WakeInv, InTime
  <2>. QED BY <2>1 DEF NoOversleep
<1>. QED BY <1>3, <1>4, <1>5, <1>6, <1>7

(* A poller enters idle(). *)
LEMMA EnterIdleStep ==
  ASSUME IInv, NEW p \in Pollers, EnterIdle(p)
  PROVE  IInv'
<1>. USE DEF IInv, EnterIdle, GotoP, sleepVars, clockVars, setVars, timerVars, pipeVars, historyVars
<1>1. TypeOK'
  BY DEF TypeOK
<1>2. TimeInv'
  BY DEF TimeInv, TypeOK
<1>3. TimersInv'
  BY TimersKept
<1>4. WakeInv'
  BY DEF WakeInv, TypeOK
<1>5. NoOversleep'
  BY DEF NoOversleep, Quiet, InTime, TypeOK
<1>. QED BY <1>1, <1>2, <1>3, <1>4, <1>5

(* A poller looks at the first timer and goes to sleep. *)
LEMMA GetNextTimerStep ==
  ASSUME IInv, NEW p \in Pollers, GetNextTimer(p)
  PROVE  IInv'
<1>. USE DEF IInv, GetNextTimer, Sleep, GotoP, clockVars, timerVars, pipeVars, historyVars
<1>0. /\ Timeout \in Int /\ Timeout <= MaxTimeout
      /\ SleepEnd(Timeout) \in Nat /\ (SleepEnd(Timeout) = Never <=> Timeout < 0)
      /\ SleepEnd(Timeout) # Never => SleepEnd(Timeout) <= clock + MaxTimeout
      /\ timeout'[p] = Timeout /\ wake'[p] = SleepEnd(Timeout)
      /\ \A q \in Pollers : q # p => wake'[q] = wake[q] /\ timeout'[q] = timeout[q]
  BY TimeoutFacts, SleepEndFacts DEF TypeOK
<1>1. TypeOK'
  BY <1>0 DEF TypeOK
<1>2. TimeInv'
  BY DEF TimeInv, TypeOK
<1>3. TimersInv'
  BY TimersKept
<1>4. WakeInv'
  BY <1>0 DEF WakeInv, TypeOK
<1>5. NoOversleep'
  <2>1. clock \in Nat /\ MaxTimeout \in Nat /\ \A e \in m_timers : e[1] \in Nat
    BY TimeFacts DEF TypeOK, Instants
  <2>2. UNCHANGED <<clock, setbacks, signals, m_timers>>
    OBVIOUS
  <2>3. \A q \in Pollers : signals[q] * MaxTimeout \in Nat
    BY SignalFacts
  <2>. SUFFICES ASSUME Quiet', NEW e \in m_timers PROVE \E q \in Pollers : InTime(q, e[1])'
    BY <2>2 DEF NoOversleep
  <2>4. CASE Timeout >= 0
    <3>1. clock + Timeout <= e[1] \/ Timeout = 0
      BY <2>4, TimeoutFacts
    <3>2. SleepEnd(Timeout) = clock + Timeout /\ SleepEnd(Timeout) # Never
      BY <1>0, <2>4, SleepEndFacts
    <3>. DEFINE grace == signals[p] * MaxTimeout
    <3>3. grace \in Nat /\ e[1] \in Nat /\ wake'[p] = clock + Timeout /\ wake'[p] # Never
      BY <1>0, <2>1, <2>3, <3>2
    <3>. HIDE DEF grace, IInv, GetNextTimer
    <3>4. wake'[p] <= e[1] + grace \/ wake'[p] <= clock + (IF setbacks = 0 THEN 0 ELSE MaxTimeout)
      BY <1>0, <2>1, <3>1, <3>3
    <3>5. InTime(p, e[1])'
      BY <2>2, <3>3, <3>4 DEF InTime, grace
    <3>. QED BY <3>5
  <2>5. CASE Timeout < 0
    <3>1. PICK q \in Pollers : wake'[q] # Never
      BY DEF Quiet
    <3>2. q # p /\ wake[q] # Never /\ wake'[q] = wake[q] /\ wake[q] \in Nat
      BY <1>0, <2>5, <3>1 DEF TypeOK
    <3>3. poller[q] = "asleep"
      BY <3>2 DEF Quiet, TypeOK
    <3>4. wake[q] <= clock + MaxTimeout /\ clock + MaxTimeout <= e[1]
      BY <2>5, <3>2, <3>3, TimeoutFacts DEF WakeInv
    <3>. DEFINE grace == signals[q] * MaxTimeout
    <3>5. grace \in Nat /\ e[1] \in Nat
      BY <2>1, <2>3
    <3>. HIDE DEF grace, IInv, GetNextTimer
    <3>6. wake'[q] <= e[1] + grace
      BY <2>1, <3>2, <3>4, <3>5
    <3>7. InTime(q, e[1])'
      BY <2>2, <3>1, <3>6 DEF InTime, grace
    <3>. QED BY <3>7
  <2>. QED BY <1>0, <2>4, <2>5
<1>. QED BY <1>1, <1>2, <1>3, <1>4, <1>5

(* A signal interrupts a sleep, which starts again. *)
LEMMA InterruptStep ==
  ASSUME IInv, NEW p \in Pollers, Interrupt(p)
  PROVE  IInv'
<1>. USE DEF IInv, Interrupt, clockVars, setVars, timerVars, pipeVars, historyVars
<1>0. /\ clock \in Nat /\ MaxTimeout \in Nat /\ wake[p] \in Nat /\ clock < wake[p]
      /\ timeout[p] \in Int /\ timeout[p] <= MaxTimeout /\ (wake[p] = Never <=> timeout[p] < 0)
  BY TimeFacts DEF TypeOK, Instants, WakeInv
<1>1. /\ SleepEnd(timeout[p]) \in Nat
      /\ SleepEnd(timeout[p]) = Never <=> timeout[p] < 0
      /\ timeout[p] >= 0 => SleepEnd(timeout[p]) = clock + timeout[p]
      /\ wake' = [wake EXCEPT ![p] = SleepEnd(timeout[p])]
      /\ signals' = [signals EXCEPT ![p] = signals[p] + 1]
  BY <1>0, SleepEndFacts
<1>2. signals[p] + 1 \in 0..MaxSignals
  BY TimerAssumption DEF TypeOK
<1>3. TypeOK'
  BY <1>1, <1>2 DEF TypeOK
<1>4. TimeInv'
  BY DEF TimeInv
<1>5. TimersInv'
  BY TimersKept
<1>6. \A q \in Pollers : /\ wake'[q] = IF q = p THEN SleepEnd(timeout[p]) ELSE wake[q]
                         /\ signals'[q] = IF q = p THEN signals[p] + 1 ELSE signals[q]
  BY <1>1 DEF TypeOK
<1>7. WakeInv'
  <2>1. \A q \in Pollers : /\ wake'[q] = Never <=> wake[q] = Never
                           /\ q = p /\ wake'[q] # Never => wake'[q] <= clock + MaxTimeout
    BY <1>0, <1>1, <1>6
  <2>. QED BY <1>6, <2>1 DEF WakeInv
<1>8. NoOversleep'
  <2>1. Quiet' => Quiet
    BY <1>0, <1>1, <1>6 DEF Quiet
  <2>2. ASSUME NEW q \in Pollers, NEW t \in Nat, InTime(q, t) PROVE InTime(q, t)'
    <3>1. CASE q # p
      BY <1>6, <2>2, <3>1 DEF InTime
    <3>2. CASE q = p
      <4>. DEFINE grace == signals[p] * MaxTimeout
                  more == (signals[p] + 1) * MaxTimeout
      <4>1. grace \in Nat /\ more = grace + MaxTimeout
        BY SignalFacts
      <4>2. /\ wake[p] # Never
            /\ wake[p] <= t + grace \/ wake[p] <= clock + (IF setbacks = 0 THEN 0 ELSE MaxTimeout)
        BY <2>2, <3>2 DEF InTime
      <4>3. wake'[p] = clock + timeout[p] /\ wake'[p] # Never
        BY <1>0, <1>1, <1>6, <4>2
      <4>. HIDE DEF grace, more, IInv, Interrupt
      <4>4. wake'[p] <= t + more \/ wake'[p] <= clock + (IF setbacks = 0 THEN 0 ELSE MaxTimeout)
        BY <1>0, <4>1, <4>2, <4>3
      <4>5. UNCHANGED <<clock, setbacks>>
        BY DEF Interrupt
      <4>. QED BY <1>6, <3>2, <4>3, <4>4, <4>5 DEF InTime, more
    <3>. QED BY <3>1, <3>2
  <2>3. NoOversleep /\ m_timers' = m_timers /\ \A e \in m_timers : e[1] \in Nat
    BY DEF TypeOK
  <2>. HIDE DEF IInv, Interrupt
  <2>. QED BY <2>1, <2>2, <2>3 DEF NoOversleep
<1>. QED BY <1>3, <1>4, <1>5, <1>7, <1>8

(* epoll_wait() returns. *)
LEMMA WakeUpStep ==
  ASSUME IInv, NEW p \in Pollers, WakeUp(p)
  PROVE  IInv'
<1>. USE DEF IInv, WakeUp, GotoP, clockVars, setVars, timerVars, historyVars
<1>1. TypeOK'
  <2>1. 0 \in 0..MaxSignals
    BY TimerAssumption
  <2>2. timeout' \in [Pollers -> Int] /\ wake' \in [Pollers -> Nat] /\ signals' \in [Pollers -> 0..MaxSignals]
    BY <2>1 DEF TypeOK
  <2>3. /\ poller' \in [Pollers -> {"outside", "next", "asleep", "woken", "list", "schedule"}]
        /\ saw' \in [Pollers -> BOOLEAN]
    BY DEF TypeOK
  <2>. QED BY <2>2, <2>3 DEF TypeOK
<1>2. TimeInv'
  BY DEF TimeInv, TypeOK
<1>3. TimersInv'
  BY TimersKept
<1>4. WakeInv'
  BY DEF WakeInv, TypeOK
<1>5. NoOversleep'
  BY DEF NoOversleep, Quiet, InTime, TypeOK
<1>. QED BY <1>1, <1>2, <1>3, <1>4, <1>5

(* listExpiredCb() reads the clock. *)
LEMMA ReadClockStep ==
  ASSUME IInv, NEW p \in Pollers, ReadClock(p)
  PROVE  IInv'
<1>. USE DEF IInv, ReadClock, GotoP, sleepVars, clockVars, setVars, timerVars, pipeVars, historyVars
<1>0. clock \in Nat /\ (setbacks = 0 => Boot <= clock)
  BY TimeFacts DEF TypeOK, TimeInv, Instants
<1>1. TypeOK'
  BY <1>0 DEF TypeOK
<1>2. TimeInv'
  BY <1>0 DEF TimeInv, TypeOK
<1>3. TimersInv'
  BY TimersKept
<1>4. WakeInv'
  BY DEF WakeInv, TypeOK
<1>5. NoOversleep'
  BY DEF NoOversleep, Quiet, InTime, TypeOK
<1>. QED BY <1>1, <1>2, <1>3, <1>4, <1>5

(* idle() has scheduled the callbacks and swaps out. *)
LEMMA ScheduleCbsStep ==
  ASSUME IInv, NEW p \in Pollers, ScheduleCbs(p)
  PROVE  IInv'
<1>. USE DEF IInv, ScheduleCbs, GotoP, sleepVars, clockVars, setVars, timerVars, historyVars
<1>1. TypeOK'
  BY DEF TypeOK
<1>2. TimeInv'
  BY DEF TimeInv, TypeOK
<1>3. TimersInv'
  <2>1. \A q \in Pollers : cbs'[q] \subseteq cbs[q]
    BY DEF TypeOK
  <2>. QED BY <2>1, TimersKept
<1>4. WakeInv'
  BY DEF WakeInv, TypeOK
<1>5. NoOversleep'
  BY DEF NoOversleep, Quiet, InTime, TypeOK
<1>. QED BY <1>1, <1>2, <1>3, <1>4, <1>5

(* Where a client goes. *)
LEMMA ClientStep ==
  ASSUME TypeOK, NEW c \in Clients, NEW x \in ClientStates, client' = [client EXCEPT ![c] = x]
  PROVE  /\ client' \in [Clients -> ClientStates]
         /\ \A d \in Clients : client'[d] = IF d = c THEN x ELSE client[d]
BY DEF TypeOK

(* The states of a client, and what tells them apart. *)
LEMMA ClientForms ==
  ASSUME TypeOK
  PROVE  /\ <<"own", None>> \in ClientStates
         /\ \A i \in Timers : <<"insert", i>> \in ClientStates /\ <<"tickle", i>> \in ClientStates /\ i # None
         /\ \A c \in Clients : \/ client[c] = <<"own", None>>
                               \/ \E i \in Timers : client[c] = <<"insert", i>>
                               \/ \E i \in Timers : client[c] = <<"tickle", i>>
<1>1. \A i \in Timers : i \in Nat
  BY TimerAssumption
<1>. QED BY <1>1 DEF TypeOK, ClientStates, None

(* An insertion tickles unless the tickle is claimed, or an earlier timer  *)
(* makes a poller wake in time.                                            *)
LEMMA InsertWakes ==
  ASSUME IInv, NEW c \in Clients, NEW i \in Timers, NEW rest, rest \subseteq m_timers,
         NEW next \in Nat, Insert(c, i, rest, next), client[c][1] # "tickle",
         UNCHANGED <<clockVars, pollVars, pipeVars>>
  PROVE  WakeInv' /\ NoOversleep'
<1>. USE DEF IInv, Insert, clockVars, pollVars, pipeVars
<1>1. CASE AtFront(i, rest, next)
  <2>1. client'[c] = <<"tickle", i>>
    BY <1>1 DEF TypeOK
  <2>2. WakeInv'
    BY <2>1 DEF WakeInv
  <2>3. NoOversleep'
    BY <2>1 DEF NoOversleep, Quiet
  <2>. QED BY <2>2, <2>3
<1>2. CASE ~AtFront(i, rest, next)
  <2>1. client' = [client EXCEPT ![c] = <<"own", None>>] /\ m_tickled' = m_tickled
    BY <1>2 DEF TypeOK
  <2>2. \A d \in Clients : client'[d][1] = "tickle" <=> client[d][1] = "tickle"
    BY <2>1 DEF TypeOK
  <2>3. WakeInv'
    BY <2>1, <2>2 DEF WakeInv
  <2>4. NoOversleep'
    <3>1. SUFFICES ASSUME Quiet
                   PROVE  \A e \in m_timers' : \E p \in Pollers : InTime(p, e[1])
      BY <2>2 DEF NoOversleep, Quiet, InTime
    <3>2. \A e \in m_timers : \E p \in Pollers : InTime(p, e[1])
      BY <3>1 DEF NoOversleep
    <3>3. ~m_tickled
      BY <3>1 DEF WakeInv, Quiet
    <3>4. PICK e0 \in rest : ~Before(<<next, i>>, e0)
      BY <1>2, <3>3 DEF AtFront
    <3>5. e0 \in m_timers /\ e0[1] \in Nat /\ e0[1] <= next
      BY <3>4 DEF Before, TypeOK
    <3>6. PICK q \in Pollers : InTime(q, e0[1])
      BY <3>2, <3>5
    <3>7. InTime(q, next)
      BY <3>5, <3>6, InTimeLater
    <3>8. m_timers' \subseteq m_timers \cup {<<next, i>>}
      OBVIOUS
    <3>. HIDE DEF IInv, Insert
    <3>. QED BY <3>2, <3>7, <3>8
  <2>. QED BY <2>3, <2>4
<1>. QED BY <1>1, <1>2

(* A timer is constructed. *)
LEMMA NewTimerStep ==
  ASSUME IInv, NEW c \in Clients, NEW i \in Timers, NEW ms \in Periods, NewTimer(c, i, ms)
  PROVE  IInv'
<1>. USE TimerAssumption DEF IInv, NewTimer, clockVars, setVars, pollVars, pipeVars, historyVars
<1>0. /\ client' \in [Clients -> ClientStates]
      /\ \A d \in Clients : client'[d] = IF d = c THEN <<"insert", i>> ELSE client[d]
  BY ClientStep, ClientForms
<1>1. clock \in Nat /\ ms \in Nat /\ clock \in Instants /\ clock + ms \in Nat /\ (clock + ms) - ms = clock
  BY DEF TypeOK, Instants
<1>2. /\ m_cb' \in [Timers -> BOOLEAN] /\ m_recurring' \in [Timers -> BOOLEAN]
      /\ m_ms' \in [Timers -> Nat] /\ m_next' \in [Timers -> Nat]
      /\ \A j \in Timers : m_next'[j] - m_ms'[j] = IF j = i THEN clock ELSE m_next[j] - m_ms[j]
  BY <1>1 DEF TypeOK
<1>3. TypeOK'
  BY <1>0, <1>1, <1>2 DEF TypeOK
<1>4. TimeInv'
  BY <1>1, <1>2 DEF TimeInv, TypeOK
<1>5. \A d \in Clients : client[d] # <<"insert", i>> /\ client[d] # <<"tickle", i>>
  OBVIOUS
<1>6. ~Made(i) /\ Made(i)' /\ \A j \in Timers : j # i => (Made(j)' <=> Made(j))
  <2>1. ~Made(i) /\ Made(i)'
    BY <1>0 DEF Made
  <2>2. ASSUME NEW j \in Timers, j # i PROVE Made(j)' <=> Made(j)
    <3>1. client[c][2] # j /\ client'[c][2] # j
      BY <1>0, <2>2 DEF None
    <3>. QED BY <1>0, <3>1 DEF Made
  <2>. QED BY <2>1, <2>2
<1>7. ClientInv'
  <2>1. i \notin shared /\ \A d \in Clients : client[d][2] # i
    OBVIOUS
  <2>2. m_cb' = [m_cb EXCEPT ![i] = TRUE] /\ m_cb \in [Timers -> BOOLEAN] /\ shared' = shared /\ ClientInv
    BY DEF TimersInv, TypeOK
  <2>. HIDE DEF IInv, NewTimer
  <2>3. SUFFICES ASSUME NEW d \in Clients, NEW j \in Timers, client'[d] = <<"insert", j>>
                 PROVE  m_cb'[j] /\ j \notin shared' /\ \A e \in Clients : client'[e][2] = j => e = d
    BY DEF ClientInv
  <2>4. CASE d = c
    <3>1. j = i
      BY <1>0, <2>3, <2>4
    <3>. QED BY <1>0, <2>1, <2>2, <2>4, <3>1
  <2>5. CASE d # c
    <3>1. client[d] = <<"insert", j>> /\ j # i
      BY <1>0, <2>1, <2>3, <2>5
    <3>2. m_cb[j] /\ j \notin shared /\ \A e \in Clients : client[e][2] = j => e = d
      BY <2>2, <3>1 DEF ClientInv
    <3>3. client'[c][2] # j
      BY <1>0, <3>1
    <3>. QED BY <1>0, <2>2, <3>1, <3>2, <3>3
  <2>. QED BY <2>4, <2>5
<1>8. ArmedIffQueued'
  <2>1. \A e \in m_timers : e[2] # i
    BY DEF TimersInv, ArmedIffQueued
  <2>2. ASSUME NEW j \in Timers, j # i
        PROVE  Entry(j)' = Entry(j) /\ m_cb'[j] = m_cb[j]
               /\ \A d \in Clients : client'[d] = <<"insert", j>> <=> client[d] = <<"insert", j>>
    BY <1>0, <2>2 DEF Entry, TypeOK
  <2>3. client'[c] = <<"insert", i>> /\ Entry(i)' \notin m_timers
    BY <1>0, <2>1 DEF Entry
  <2>4. ArmedIffQueued /\ m_timers' = m_timers /\ \A e \in m_timers : e[2] \in Timers
    BY DEF TimersInv, TypeOK
  <2>. HIDE DEF IInv, NewTimer
  <2>5. ASSUME NEW j \in Timers
        PROVE  (Entry(j) \in m_timers <=> m_cb[j] /\ \A d \in Clients : client[d] # <<"insert", j>>)'
    <3>1. CASE j = i
      BY <2>3, <2>4, <3>1
    <3>2. CASE j # i
      BY <2>2, <2>4, <3>2 DEF ArmedIffQueued
    <3>. QED BY <3>1, <3>2
  <2>6. ASSUME NEW e \in m_timers PROVE e = Entry(e[2])'
    BY <2>1, <2>2, <2>4 DEF ArmedIffQueued
  <2>. QED BY <2>4, <2>5, <2>6 DEF ArmedIffQueued
<1>9. FreshInv'
  BY <1>6 DEF TimersInv, FreshInv, TypeOK
<1>10. CallbackInv'
  BY <1>6 DEF TimersInv, FreshInv, CallbackInv, TypeOK
<1>11. WakeInv' /\ NoOversleep'
  BY <1>0 DEF WakeInv, NoOversleep, Quiet, InTime
<1>. QED BY <1>3, <1>4, <1>7, <1>8, <1>9, <1>10, <1>11 DEF TimersInv

(* After addTimer(val, lock) the same timers are made, and all but i are   *)
(* as far as they were.                                                    *)
LEMMA InsertClients ==
  ASSUME IInv, NEW c \in Clients, NEW i \in Timers, NEW rest, NEW next, Insert(c, i, rest, next),
         client[c] = <<"insert", i>> \/ (client[c] = <<"own", None>> /\ i \in shared),
         UNCHANGED <<m_cb, m_recurring, fired, cancelled, cbs>>
  PROVE  /\ client' \in [Clients -> ClientStates] /\ shared' \subseteq Timers
         /\ \A j \in Timers : (\A d \in Clients : client'[d] # <<"insert", j>>)
                              <=> j = i \/ \A d \in Clients : client[d] # <<"insert", j>>
         /\ ClientInv' /\ FreshInv' /\ CallbackInv'
<1>. DEFINE x == IF AtFront(i, rest, next) THEN <<"tickle", i>> ELSE <<"own", None>>
<1>0. TypeOK /\ ClientInv /\ FreshInv /\ CallbackInv
  BY DEF IInv, TimersInv
<1>1. /\ client' = [client EXCEPT ![c] = x]
      /\ shared' = IF AtFront(i, rest, next) THEN shared ELSE shared \cup {i}
  BY DEF Insert
<1>2. x \in ClientStates /\ i # None
  BY <1>0, ClientForms
<1>3. /\ client' \in [Clients -> ClientStates]
      /\ \A d \in Clients : client'[d] = IF d = c THEN x ELSE client[d]
  BY <1>0, <1>1, <1>2, ClientStep
<1>4. x[2] = i \/ x[2] = None
  OBVIOUS
<1>5. x[1] # "insert" /\ (x[2] # i => i \in shared')
  BY <1>1
<1>6. shared \subseteq shared' /\ shared' \subseteq shared \cup {i} /\ shared' \subseteq Timers
  BY <1>0, <1>1 DEF TypeOK
<1>. HIDE DEF x
<1>7. \A j \in Timers : j # None
  BY <1>0, ClientForms
<1>8. ASSUME NEW j \in Timers PROVE Made(j)' <=> Made(j)
  <2>1. CASE j = i
    BY <1>3, <1>5, <1>6, <2>1 DEF Made
  <2>2. CASE j # i
    <3>1. client[c][2] # j /\ client'[c][2] # j
      BY <1>3, <1>4, <1>7, <2>2
    <3>. QED BY <1>3, <1>6, <2>2, <3>1 DEF Made
  <2>. QED BY <2>1, <2>2
<1>9. ASSUME NEW d \in Clients, NEW j \in Timers, client'[d] = <<"insert", j>>
      PROVE  d # c /\ client[d] = <<"insert", j>> /\ j # i
  <2>1. d # c /\ client[d] = <<"insert", j>>
    BY <1>3, <1>5, <1>9
  <2>2. j \notin shared /\ \A k \in Clients : client[k][2] = j => k = d
    BY <1>0, <2>1 DEF ClientInv
  <2>. QED BY <2>1, <2>2
<1>10. ASSUME NEW j \in Timers
       PROVE  (\A d \in Clients : client'[d] # <<"insert", j>>)
              <=> j = i \/ \A d \in Clients : client[d] # <<"insert", j>>
  <2>1. CASE j = i
    BY <1>9, <2>1
  <2>2. CASE j # i
    <3>1. client[c] # <<"insert", j>>
      BY <2>2
    <3>. QED BY <1>3, <1>9, <2>2, <3>1
  <2>. QED BY <2>1, <2>2
<1>11. ClientInv'
  <2>1. SUFFICES ASSUME NEW d \in Clients, NEW j \in Timers, client'[d] = <<"insert", j>>
                 PROVE  m_cb'[j] /\ j \notin shared' /\ \A k \in Clients : client'[k][2] = j => k = d
    BY DEF ClientInv
  <2>2. d # c /\ client[d] = <<"insert", j>> /\ j # i
    BY <1>9, <2>1
  <2>3. m_cb[j] /\ j \notin shared /\ \A k \in Clients : client[k][2] = j => k = d
    BY <1>0, <2>2 DEF ClientInv
  <2>4. client'[c][2] # j
    BY <1>3, <1>4, <1>7, <2>2
  <2>. QED BY <1>3, <1>6, <2>2, <2>3, <2>4
<1>12. FreshInv' /\ CallbackInv'
  BY <1>0, <1>8 DEF FreshInv, CallbackInv
<1>. QED BY <1>3, <1>6, <1>10, <1>11, <1>12

(* A timer that is erased and inserted under its new key is found. *)
LEMMA Requeued ==
  ASSUME TypeOK, ArmedIffQueued, NEW i \in Timers, NEW next \in Nat, m_cb[i],
         m_next' = [m_next EXCEPT ![i] = next], m_cb' = m_cb,
         m_timers' = Erased(i) \cup {<<next, i>>},
         \A j \in Timers : (\A d \in Clients : client'[d] # <<"insert", j>>)
                           <=> j = i \/ \A d \in Clients : client[d] # <<"insert", j>>
  PROVE  ArmedIffQueued'
<1>1. \A j \in Timers : Entry(j)' = IF j = i THEN <<next, i>> ELSE Entry(j)
  BY DEF Entry, TypeOK
<1>2. \A e \in m_timers : e[2] \in Timers /\ e = Entry(e[2])
  BY DEF ArmedIffQueued, TypeOK
<1>3. \A e \in Erased(i) : e \in m_timers /\ e[2] # i
  BY <1>2 DEF Erased
<1>4. ASSUME NEW j \in Timers
      PROVE  (Entry(j) \in m_timers <=> m_cb[j] /\ \A d \in Clients : client[d] # <<"insert", j>>)'
  <2>1. CASE j = i
    BY <1>1, <2>1
  <2>2. CASE j # i
    <3>1. Entry(j)' = Entry(j) /\ Entry(j)[2] = j /\ Entry(i)[2] = i
      BY <1>1, <2>2 DEF Entry
    <3>2. Entry(j)' \in m_timers' <=> Entry(j) \in m_timers
      BY <2>2, <3>1 DEF Erased
    <3>. QED BY <2>2, <3>2 DEF ArmedIffQueued
  <2>. QED BY <2>1, <2>2
<1>5. ASSUME NEW e \in m_timers' PROVE e = Entry(e[2])'
  <2>1. CASE e \in Erased(i)
    BY <1>1, <1>2, <1>3, <2>1
  <2>2. CASE e = <<next, i>>
    BY <1>1, <2>2
  <2>. QED BY <2>1, <2>2
<1>. QED BY <1>4, <1>5 DEF ArmedIffQueued

(* A new timer enters the set. *)
LEMMA AddTimerStep ==
  ASSUME IInv, NEW c \in Clients, AddTimer(c)
  PROVE  IInv'
<1>. DEFINE i == client[c][2]
<1>1. /\ Insert(c, i, m_timers, m_next[i])
      /\ UNCHANGED <<clockVars, timerVars, ops, pollVars, pipeVars, fired, cancelled>>
  BY DEF AddTimer
<1>2. i \in Timers /\ client[c] = <<"insert", i>> /\ client[c][1] # "tickle"
  BY ClientForms DEF AddTimer, IInv
<1>. HIDE DEF i
<1>. USE DEF IInv, timerVars, pollVars
<1>3. m_cb[i] /\ m_next[i] \in Nat
  BY <1>2 DEF TimersInv, ClientInv, TypeOK
<1>4. /\ client' \in [Clients -> ClientStates] /\ shared' \subseteq Timers
      /\ \A j \in Timers : (\A d \in Clients : client'[d] # <<"insert", j>>)
                           <=> j = i \/ \A d \in Clients : client[d] # <<"insert", j>>
      /\ ClientInv' /\ FreshInv' /\ CallbackInv'
  BY <1>1, <1>2, InsertClients
<1>5. /\ m_timers' = Erased(i) \cup {<<m_next[i], i>>} /\ UNCHANGED m_previousTime
      /\ m_tickled' \in BOOLEAN
  BY <1>1 DEF Insert, Erased, Entry, TypeOK, AtFront
<1>6. TypeOK'
  <2>1. m_timers' \subseteq Nat \X Timers
    BY <1>2, <1>3, <1>5 DEF Erased, TypeOK
  <2>. QED BY <1>1, <1>4, <1>5, <2>1 DEF TypeOK, clockVars, pipeVars
<1>7. TimeInv'
  BY <1>1, <1>5 DEF TimeInv, clockVars
<1>8. ArmedIffQueued'
  <2>1. m_next' = [m_next EXCEPT ![i] = m_next[i]]
    BY <1>1, <1>2 DEF TypeOK
  <2>. QED BY <1>1, <1>2, <1>3, <1>4, <1>5, <2>1, Requeued DEF TimersInv
<1>9. WakeInv' /\ NoOversleep'
  BY <1>1, <1>2, <1>3, InsertWakes
<1>. QED BY <1>4, <1>6, <1>7, <1>8, <1>9 DEF TimersInv

(* A claimed tickle is sent, if a poller is there to be woken. *)
LEMMA OnTimerInsertedAtFrontStep ==
  ASSUME IInv, NEW c \in Clients, OnTimerInsertedAtFront(c)
  PROVE  IInv'
<1>. DEFINE i == client[c][2]
<1>0. i \in Timers /\ client[c] = <<"tickle", i>> /\ \A j \in Timers : j # None
  <2>1. i \in Timers /\ client[c] = <<"tickle", i>>
    BY ClientForms DEF OnTimerInsertedAtFront, IInv
  <2>2. \A j \in Timers : j # None
    BY ClientForms DEF IInv
  <2>. QED BY <2>1, <2>2
<1>. USE DEF IInv, OnTimerInsertedAtFront, clockVars, setVars, timerVars, pollVars, pipeVars
<1>1. /\ client' \in [Clients -> ClientStates]
      /\ \A d \in Clients : client'[d] = IF d = c THEN <<"own", None>> ELSE client[d]
  BY ClientStep, ClientForms
<1>2. shared' = shared \cup {i} /\ shared' \subseteq Timers
  BY <1>0 DEF TypeOK
<1>3. TypeOK'
  BY <1>1, <1>2 DEF TypeOK
<1>4. TimeInv'
  BY DEF TimeInv
<1>. HIDE DEF i
<1>5. ASSUME NEW j \in Timers PROVE Made(j)' <=> Made(j)
  <2>1. CASE j = i
    BY <1>0, <1>2, <2>1 DEF Made
  <2>2. CASE j # i
    <3>1. client[c][2] # j /\ client'[c][2] # j
      BY <1>0, <1>1, <2>2
    <3>. QED BY <1>1, <1>2, <2>2, <3>1 DEF Made
  <2>. QED BY <2>1, <2>2
<1>6. ASSUME NEW d \in Clients, NEW j \in Timers
      PROVE  client'[d] = <<"insert", j>> <=> client[d] = <<"insert", j>>
  BY <1>0, <1>1
<1>7. ClientInv'
  <2>1. SUFFICES ASSUME NEW d \in Clients, NEW j \in Timers, client'[d] = <<"insert", j>>
                 PROVE  m_cb'[j] /\ j \notin shared' /\ \A k \in Clients : client'[k][2] = j => k = d
    BY DEF ClientInv
  <2>2. /\ client[d] = <<"insert", j>>
        /\ m_cb[j] /\ j \notin shared /\ \A k \in Clients : client[k][2] = j => k = d
    BY <1>6, <2>1 DEF TimersInv, ClientInv
  <2>3. d # c /\ j # i
    BY <1>0, <2>2
  <2>4. client'[c][2] # j
    BY <1>0, <1>1
  <2>. QED BY <1>1, <1>2, <2>2, <2>3, <2>4
<1>8. ArmedIffQueued'
  BY <1>6 DEF TimersInv, ArmedIffQueued, Entry
<1>9. FreshInv' /\ CallbackInv'
  <2>1. /\ UNCHANGED <<m_cb, m_recurring, fired, cancelled, cbs>>
        /\ FreshInv /\ CallbackInv
    BY DEF TimersInv
  <2>. HIDE DEF IInv, OnTimerInsertedAtFront
  <2>2. FreshInv'
    BY <1>5, <2>1 DEF FreshInv
  <2>3. CallbackInv'
    BY <1>5, <2>1 DEF CallbackInv
  <2>. QED BY <2>2, <2>3
<1>10. WakeInv' /\ NoOversleep'
  <2>1. CASE \E p \in Pollers : poller[p] # "outside"
    BY <2>1 DEF WakeInv, NoOversleep, Quiet, InTime
  <2>2. CASE \A p \in Pollers : poller[p] = "outside"
    BY <2>2, PollersAssumption DEF WakeInv, NoOversleep, Quiet, InTime
  <2>. QED BY <2>1, <2>2
<1>. QED BY <1>3, <1>4, <1>7, <1>8, <1>9, <1>10 DEF TimersInv

(* cancel() *)
LEMMA CancelStep ==
  ASSUME IInv, NEW c \in Clients, NEW i \in Timers, Cancel(c, i)
  PROVE  IInv'
<1>. USE DEF IInv, Cancel, Calls, clockVars, pollVars, pipeVars
<1>1. TypeOK'
  BY TimerAssumption DEF TypeOK, Erased
<1>2. TimeInv'
  BY DEF TimeInv
<1>3. \A j \in Timers : Entry(j)' = Entry(j) /\ (Made(j)' <=> Made(j))
  BY DEF Entry, Made
<1>4. \A j \in Timers : m_cb'[j] = IF j = i THEN FALSE ELSE m_cb[j]
  BY DEF TypeOK
<1>5. i \in shared
  OBVIOUS
<1>6. ClientInv'
  BY <1>4, <1>5 DEF TimersInv, ClientInv
<1>7. ArmedIffQueued'
  <2>1. \A j \in Timers : Entry(j) \in m_timers' <=> Entry(j) \in m_timers /\ j # i
    BY DEF Erased, Entry
  <2>2. m_timers' \subseteq m_timers /\ \A e \in m_timers : e[2] \in Timers
    BY DEF Erased, TypeOK
  <2>3. \A j \in Timers :
          Entry(j) \in m_timers <=> m_cb[j] /\ \A d \in Clients : client[d] # <<"insert", j>>
    BY DEF TimersInv, ArmedIffQueued
  <2>4. ASSUME NEW j \in Timers
        PROVE  Entry(j)' \in m_timers' <=> m_cb'[j] /\ \A d \in Clients : client'[d] # <<"insert", j>>
    <3>1. Entry(j)' \in m_timers' <=> Entry(j) \in m_timers /\ j # i
      BY <1>3, <2>1
    <3>2. Entry(j) \in m_timers <=> m_cb[j] /\ \A d \in Clients : client'[d] # <<"insert", j>>
      BY <2>3
    <3>3. m_cb'[j] <=> m_cb[j] /\ j # i
      BY <1>4
    <3>. QED BY <3>1, <3>2, <3>3
  <2>5. \A e \in m_timers : e = Entry(e[2])
    BY DEF TimersInv, ArmedIffQueued
  <2>6. \A e \in m_timers' : e = Entry(e[2])'
    BY <1>3, <2>2, <2>5
  <2>. QED BY <2>4, <2>6 DEF ArmedIffQueued
<1>8. FreshInv'
  BY <1>3, <1>4, <1>5 DEF TimersInv, FreshInv, Made
<1>9. CallbackInv'
  BY <1>3, <1>4 DEF TimersInv, CallbackInv
<1>10. WakeInv' /\ NoOversleep'
  BY DEF WakeInv, NoOversleep, Quiet, InTime, Erased
<1>. QED BY <1>1, <1>2, <1>6, <1>7, <1>8, <1>9, <1>10 DEF TimersInv

(* refresh() *)
LEMMA RefreshStep ==
  ASSUME IInv, NEW c \in Clients, NEW i \in Timers, Refresh(c, i)
  PROVE  IInv'
<1>. DEFINE next == clock + m_ms[i]
<1>. USE DEF IInv, Refresh, Calls, clockVars, pollVars, pipeVars, historyVars
<1>1. /\ clock \in Nat /\ clock \in Instants /\ m_ms[i] \in Nat /\ next \in Nat
      /\ next - m_ms[i] = clock
  BY DEF TypeOK, Instants
<1>2. /\ m_next' = [m_next EXCEPT ![i] = next] /\ m_timers' = Erased(i) \cup {<<next, i>>}
      /\ Entry(i) \in m_timers /\ m_cb[i]
  OBVIOUS
<1>. HIDE DEF next
<1>3. /\ m_next' \in [Timers -> Nat]
      /\ \A j \in Timers : m_next'[j] - m_ms[j] = IF j = i THEN clock ELSE m_next[j] - m_ms[j]
  BY <1>1, <1>2 DEF TypeOK
<1>4. TypeOK'
  <2>1. m_timers' \subseteq Nat \X Timers
    BY <1>1, <1>2 DEF Erased, TypeOK
  <2>. QED BY <1>1, <1>3, <2>1, TimerAssumption DEF TypeOK
<1>5. TimeInv'
  BY <1>1, <1>3 DEF TimeInv
<1>6. ClientInv' /\ FreshInv' /\ CallbackInv'
  BY DEF TimersInv, ClientInv, FreshInv, CallbackInv, Made
<1>7. ArmedIffQueued'
  <2>1. \A d \in Clients : client[d] # <<"insert", i>>
    BY <1>2 DEF TimersInv, ArmedIffQueued
  <2>. QED BY <1>1, <1>2, <2>1, Requeued DEF TimersInv
<1>8. WakeInv'
  BY DEF WakeInv
(* A refresh moves the timer to a later time. *)
<1>9. setbacks = 0 => m_next[i] <= next
  BY <1>1 DEF TimeInv, TypeOK, next
<1>10. NoOversleep'
  <2>1. SUFFICES ASSUME Quiet
                 PROVE  \A e \in m_timers' : \E p \in Pollers : InTime(p, e[1])
    BY DEF NoOversleep, Quiet, InTime
  <2>2. \A e \in m_timers : \E p \in Pollers : InTime(p, e[1])
    BY <2>1 DEF NoOversleep
  <2>3. \E p \in Pollers : InTime(p, next)
    <3>1. CASE setbacks = 0
      <4>1. PICK p \in Pollers : InTime(p, m_next[i])
        BY <1>2, <2>2 DEF Entry
      <4>2. m_next[i] \in Nat
        BY DEF TypeOK
      <4>. QED BY <1>1, <1>9, <3>1, <4>1, <4>2, InTimeLater
    <3>2. CASE setbacks # 0
      BY <2>1, <3>2, InTimeAnyway DEF Quiet
    <3>. QED BY <3>1, <3>2
  <2>4. m_timers' \subseteq m_timers \cup {<<next, i>>}
    BY <1>2 DEF Erased
  <2>. HIDE DEF IInv, Refresh
  <2>. QED BY <2>2, <2>3, <2>4
<1>. QED BY <1>4, <1>5, <1>6, <1>7, <1>8, <1>10 DEF TimersInv

(* reset() *)
LEMMA ResetStep ==
  ASSUME IInv, NEW c \in Clients, NEW i \in Timers, NEW ms \in Periods,
         NEW from_now \in BOOLEAN, Reset(c, i, ms, from_now)
  PROVE  IInv'
<1>. DEFINE start == Start(i, from_now)
            next == start + ms
<1>1. /\ client[c] = <<"own", None>> /\ i \in shared /\ ops < MaxOps /\ ops' = ops + 1
      /\ m_cb[i] /\ Entry(i) \in m_timers
      /\ m_ms' = [m_ms EXCEPT ![i] = ms] /\ m_next' = [m_next EXCEPT ![i] = next]
      /\ Insert(c, i, Erased(i), next)
      /\ UNCHANGED <<clockVars, m_cb, m_recurring, pollVars, pipeVars, fired, cancelled>>
  BY DEF Reset, Calls
<1>. USE DEF IInv, pollVars, clockVars, pipeVars
<1>2. start \in Instants /\ (setbacks = 0 => start <= clock)
  BY DEF Start, TypeOK, TimeInv, Instants
<1>. HIDE DEF start
<1>3. ms \in Nat /\ start \in Nat /\ next \in Nat /\ next - ms = start
  BY <1>2, TimerAssumption DEF Instants
<1>. HIDE DEF next
<1>4. /\ m_next' \in [Timers -> Nat] /\ m_ms' \in [Timers -> Nat]
      /\ \A j \in Timers : m_next'[j] - m_ms'[j] = IF j = i THEN start ELSE m_next[j] - m_ms[j]
  BY <1>1, <1>3 DEF TypeOK
<1>5. /\ client' \in [Clients -> ClientStates] /\ shared' \subseteq Timers
      /\ \A j \in Timers : (\A d \in Clients : client'[d] # <<"insert", j>>)
                           <=> j = i \/ \A d \in Clients : client[d] # <<"insert", j>>
      /\ ClientInv' /\ FreshInv' /\ CallbackInv'
  BY <1>1, InsertClients
<1>6. /\ m_timers' = Erased(i) \cup {<<next, i>>} /\ UNCHANGED m_previousTime
      /\ m_tickled' \in BOOLEAN
  BY <1>1 DEF Insert, TypeOK, AtFront
<1>7. TypeOK'
  <2>1. m_timers' \subseteq Nat \X Timers
    BY <1>3, <1>6 DEF Erased, TypeOK
  <2>2. ops' \in 0..MaxOps
    BY <1>1, TimerAssumption DEF TypeOK
  <2>. QED BY <1>1, <1>2, <1>4, <1>5, <1>6, <2>1, <2>2 DEF TypeOK
<1>8. TimeInv'
  BY <1>1, <1>2, <1>4, <1>6 DEF TimeInv
<1>9. ArmedIffQueued'
  BY <1>1, <1>3, <1>5, <1>6, Requeued DEF TimersInv
<1>10. WakeInv' /\ NoOversleep'
  <2>1. Erased(i) \subseteq m_timers
    BY DEF Erased
  <2>. QED BY <1>1, <1>3, <2>1, InsertWakes
<1>. QED BY <1>5, <1>7, <1>8, <1>9, <1>10 DEF TimersInv

(* The timers whose callbacks are taken are those with an expired entry. *)
LEMMA TakenFacts ==
  ASSUME TypeOK, ArmedIffQueued, NEW p \in Pollers
  PROVE  \A i \in Timers : /\ i \in {e[2] : e \in Expired(p)} <=> Entry(i) \in Expired(p)
                           /\ Entry(i) \in Expired(p) => Entry(i) \in m_timers /\ m_cb[i]
<1>1. Expired(p) \subseteq m_timers
  BY DEF Expired
<1>2. \A e \in m_timers : e = Entry(e[2])
  BY DEF ArmedIffQueued
<1>3. \A i \in Timers : Entry(i)[2] = i
  BY DEF Entry
<1>4. \A i \in Timers : Entry(i) \in m_timers => m_cb[i]
  BY DEF ArmedIffQueued
<1>. QED BY <1>1, <1>2, <1>3, <1>4

(* listExpiredCb() takes the callbacks. *)
LEMMA ListExpiredCbStep ==
  ASSUME IInv, NEW p \in Pollers, ListExpiredCb(p)
  PROVE  IInv'
<1>. DEFINE taken == {e[2] : e \in Expired(p)}
            again == Again(taken)
            key(i) == now_ms[p] + m_ms[i]
<1>1. /\ poller[p] = "list" /\ poller' = [poller EXCEPT ![p] = "schedule"]
      /\ m_previousTime' = IF m_timers = {} THEN m_previousTime ELSE now_ms[p]
      /\ m_timers' = (m_timers \ Expired(p)) \cup {<<key(i), i>> : i \in again}
      /\ m_next' = [i \in Timers |-> IF i \in again THEN key(i) ELSE m_next[i]]
      /\ m_cb' = [i \in Timers |-> m_cb[i] /\ (i \in taken => m_recurring[i])]
      /\ cbs' = [cbs EXCEPT ![p] = taken] /\ now_ms' = [now_ms EXCEPT ![p] = 0]
      /\ fired' = [i \in Timers |-> IF i \in taken \ again THEN fired[i] + 1 ELSE fired[i]]
      /\ UNCHANGED <<clockVars, m_tickled, m_ms, m_recurring, client, ops, sleepVars, saw,
                     pipeVars, shared, cancelled>>
  BY DEF ListExpiredCb, CbLeft, GotoP
<1>2. \A i \in Timers : /\ i \in taken <=> Entry(i) \in Expired(p)
                        /\ Entry(i) \in Expired(p) => Entry(i) \in m_timers /\ m_cb[i]
  BY TakenFacts DEF IInv, TimersInv
<1>3. again = {i \in taken : m_recurring[i]} /\ taken \subseteq Timers /\ Expired(p) \subseteq m_timers
  BY DEF Again, Expired, IInv, TypeOK
<1>. HIDE DEF taken, again
<1>. USE DEF IInv, clockVars, sleepVars, pipeVars
<1>4. now_ms[p] \in Instants /\ now_ms[p] \in Nat /\ 0 \in Instants /\ \A i \in Timers : key(i) \in Nat
  BY TimerAssumption, TimeFacts DEF TimeInv, TypeOK, Instants
<1>5. \A i \in Timers : m_next'[i] - m_ms[i] = IF i \in again THEN now_ms[p] ELSE m_next[i] - m_ms[i]
  BY <1>1, <1>4 DEF TypeOK
<1>6. TypeOK'
  <2>1. m_timers' \subseteq Nat \X Timers
    <3>1. \A i \in again : <<key(i), i>> \in Nat \X Timers
      BY <1>3, <1>4
    <3>. QED BY <1>1, <3>1 DEF TypeOK
  <2>2. m_next' \in [Timers -> Nat]
    BY <1>1, <1>4 DEF TypeOK
  <2>3. fired' \in [Timers -> Nat] /\ cbs' \in [Pollers -> SUBSET Timers] /\ m_cb' \in [Timers -> BOOLEAN]
    BY <1>1, <1>3 DEF TypeOK
  <2>4. now_ms' \in [Pollers -> Nat] /\ m_previousTime' \in Nat
        /\ poller' \in [Pollers -> {"outside", "next", "asleep", "woken", "list", "schedule"}]
    BY <1>1, <1>4 DEF TypeOK
  <2>5. \A i \in Timers : m_next'[i] - m_ms'[i] \in Instants
    BY <1>1, <1>4, <1>5 DEF TypeOK
  <2>. QED BY <1>1, <2>1, <2>2, <2>3, <2>4, <2>5 DEF TypeOK
<1>7. TimeInv'
  <2>1. \A q \in Pollers : now_ms'[q] = IF q = p THEN 0 ELSE now_ms[q]
    BY <1>1 DEF TypeOK
  <2>2. \A q \in Pollers : poller'[q] = IF q = p THEN "schedule" ELSE poller[q]
    BY <1>1 DEF TypeOK
  <2>3. clock \in Nat
    BY DEF TypeOK, Instants
  <2>4. setbacks = 0 => Boot <= m_previousTime' /\ m_previousTime' <= clock
    BY <1>1 DEF TimeInv
  <2>5. setbacks = 0 => \A i \in Timers : m_next'[i] - m_ms'[i] <= clock
    BY <1>1, <1>5 DEF TimeInv
  <2>. QED BY <1>1, <1>4, <2>1, <2>2, <2>3, <2>4, <2>5 DEF TimeInv
<1>8. \A i \in Timers : Made(i)' <=> Made(i)
  BY <1>1 DEF Made
<1>9. ClientInv'
  <2>1. ASSUME NEW c \in Clients, NEW i \in Timers, client[c] = <<"insert", i>> PROVE i \notin taken
    BY <1>2, <2>1 DEF TimersInv, ArmedIffQueued
  <2>. QED BY <1>1, <2>1 DEF TimersInv, ClientInv
<1>10. ArmedIffQueued'
  <2>1. \A i \in Timers : Entry(i)' = IF i \in again THEN <<key(i), i>> ELSE Entry(i)
    BY <1>1 DEF Entry
  <2>2. \A e \in m_timers \ Expired(p) : e[2] \in Timers /\ e[2] \notin taken /\ e = Entry(e[2])
    BY <1>2 DEF TimersInv, ArmedIffQueued, TypeOK
  <2>3. ASSUME NEW i \in Timers
        PROVE  (Entry(i) \in m_timers <=> m_cb[i] /\ \A d \in Clients : client[d] # <<"insert", i>>)'
    <3>1. CASE i \in again
      <4>1. Entry(i)' \in m_timers'
        BY <1>1, <2>1, <3>1
      <4>2. m_cb'[i] /\ \A d \in Clients : client'[d] # <<"insert", i>>
        BY <1>1, <1>2, <1>3, <3>1 DEF TimersInv, ArmedIffQueued
      <4>. QED BY <4>1, <4>2
    <3>2. CASE i \notin again
      <4>1. Entry(i)' = Entry(i) /\ \A j \in again : <<key(j), j>> # Entry(i)
        BY <2>1, <3>2 DEF Entry
      <4>2. Entry(i)' \in m_timers' <=> Entry(i) \in m_timers /\ i \notin taken
        BY <1>1, <1>2, <4>1
      <4>3. m_cb'[i] <=> m_cb[i] /\ i \notin taken
        BY <1>1, <1>3, <3>2 DEF TypeOK
      <4>. QED BY <1>1, <4>2, <4>3 DEF TimersInv, ArmedIffQueued
    <3>. QED BY <3>1, <3>2
  <2>4. ASSUME NEW e \in m_timers' PROVE e = Entry(e[2])'
    <3>1. CASE e \in m_timers \ Expired(p)
      BY <1>3, <2>1, <2>2, <3>1
    <3>2. CASE e \in {<<key(i), i>> : i \in again}
      BY <1>3, <2>1, <3>2
    <3>. QED BY <1>1, <3>1, <3>2
  <2>. QED BY <2>3, <2>4 DEF ArmedIffQueued
<1>11. FreshInv'
  BY <1>1, <1>2, <1>3, <1>8 DEF TimersInv, FreshInv, TypeOK
<1>12. CallbackInv'
  <2>1. ASSUME NEW i \in Timers, m_recurring[i]
        PROVE  m_cb'[i] = m_cb[i] /\ fired'[i] = fired[i]
    BY <1>1, <1>3, <2>1 DEF TypeOK
  <2>2. ASSUME NEW i \in Timers, ~m_recurring[i], i \in taken
        PROVE  fired'[i] = 1 /\ ~m_cb'[i] /\ i \notin cancelled
    <3>1. m_cb[i] /\ fired[i] = 0 /\ i \notin cancelled
      BY <1>2, <2>2 DEF TimersInv, CallbackInv
    <3>2. i \in taken \ again
      BY <1>3, <2>2
    <3>3. fired'[i] = fired[i] + 1
      BY <1>1, <3>2
    <3>4. ~m_cb'[i]
      BY <1>1, <2>2
    <3>. QED BY <3>1, <3>3, <3>4
  <2>3. ASSUME NEW i \in Timers, ~m_recurring[i], i \notin taken
        PROVE  fired'[i] = fired[i] /\ m_cb'[i] = m_cb[i] /\ \A q \in Pollers : i \in cbs'[q] => i \in cbs[q]
    BY <1>1, <2>3 DEF TypeOK
  <2>4. m_recurring' = m_recurring /\ cancelled' = cancelled /\ \A i \in Timers : m_cb'[i] => m_cb[i]
    BY <1>1
  <2>. QED BY <1>8, <2>1, <2>2, <2>3, <2>4 DEF TimersInv, CallbackInv
<1>13. WakeInv' /\ NoOversleep'
  <2>1. \A q \in Pollers : poller'[q] = IF q = p THEN "schedule" ELSE poller[q]
    BY <1>1 DEF TypeOK
  <2>. QED BY <1>1, <2>1 DEF WakeInv, NoOversleep, Quiet, InTime
<1>. QED BY <1>6, <1>7, <1>9, <1>10, <1>11, <1>12, <1>13 DEF TimersInv

(* Steps of the rest of the program. *)
LEMMA StutterStep ==
  ASSUME IInv, UNCHANGED vars
  PROVE  IInv'
<1>. USE DEF IInv, vars, clockVars, setVars, timerVars, pollVars, pipeVars, historyVars
<1>1. TypeOK' /\ TimeInv'
  BY DEF TypeOK, TimeInv
<1>2. TimersInv'
  BY TimersKept
<1>3. WakeInv' /\ NoOversleep'
  BY DEF WakeInv, NoOversleep, Quiet, InTime
<1>. QED BY <1>1, <1>2, <1>3

(* The invariant is inductive, and so it holds in every reachable state. *)
THEOREM TimerInvariant == Spec => []IInv
<1>1. ASSUME IInv, NEW c \in Clients, Client(c) PROVE IInv'
  BY <1>1, NewTimerStep, AddTimerStep, OnTimerInsertedAtFrontStep, CancelStep, RefreshStep, ResetStep
     DEF Client
<1>2. ASSUME IInv, NEW p \in Pollers, Poll(p) PROVE IInv'
  BY <1>2, EnterIdleStep, GetNextTimerStep, WakeUpStep, ReadClockStep, ListExpiredCbStep,
     ScheduleCbsStep DEF Poll
<1>3. IInv /\ [Next]_vars => IInv'
  BY <1>1, <1>2, InterruptStep, TickStep, SetBackStep, StutterStep DEF Next
<1>. QED BY <1>3, InitIInv, PTL DEF Spec

(* The type invariant. *)
THEOREM TypeCorrect == Spec => []TypeOK
<1>1. IInv => TypeOK
  BY DEF IInv
<1>. QED BY <1>1, TimerInvariant, PTL

(* However many clients and pollers there are, find() always finds a timer *)
(* that is still to fire, and the set has no other.                        *)
THEOREM TimersFound == Spec => []ArmedIffQueued
<1>1. IInv => ArmedIffQueued
  BY DEF IInv, TimersInv
<1>. QED BY <1>1, TimerInvariant, PTL

(* A one-shot timer fires once or is cancelled, never both. *)
THEOREM FiresOnce == Spec => []OneShotContract
<1>1. IInv => OneShotContract
  BY DEF IInv, TimersInv, CallbackInv, OneShotContract, TypeOK
<1>. QED BY <1>1, TimerInvariant, PTL

(* A recurring timer stays armed until it is cancelled. *)
THEOREM StaysArmed == Spec => []RecurringStaysArmed
<1>1. ASSUME IInv PROVE RecurringStaysArmed
  <2>. SUFFICES ASSUME NEW i \in shared, m_recurring[i], i \notin cancelled
                PROVE  Entry(i) \in m_timers
    BY DEF RecurringStaysArmed
  <2>. USE <1>1 DEF IInv, TimersInv
  <2>1. i \in Timers /\ m_cb[i]
    BY DEF CallbackInv, Made, TypeOK
  <2>2. \A c \in Clients : client[c] # <<"insert", i>>
    BY <2>1 DEF ClientInv
  <2>. QED BY <2>1, <2>2 DEF ArmedIffQueued
<1>. QED BY <1>1, TimerInvariant, PTL

(* m_tickled never costs a sleeping poller the wake-up that it needs, and  *)
(* the signals that interrupt a sleep delay it by MAX_TIMEOUT each at most.*)
THEOREM WakesInTime == Spec => []NoOversleep
<1>1. IInv => NoOversleep
  BY DEF IInv
<1>. QED BY <1>1, TimerInvariant, PTL

(* No callback is taken before its time, unless the clock was set back or  *)
(* a poller was delayed for more than an hour.                             *)
THEOREM NotEarly == Spec => NeverEarly
<1>. DEFINE early == setbacks = 0 =>
                       \A p \in Pollers : \A i \in cbs'[p] \ cbs[p] :
                         m_next[i] <= clock \/ clock - now_ms[p] > Hour
<1>1. ASSUME IInv, NEW p \in Pollers, ListExpiredCb(p) PROVE early
  <2>. SUFFICES ASSUME setbacks = 0, NEW q \in Pollers, NEW i \in cbs'[q] \ cbs[q]
                PROVE  m_next[i] <= clock \/ clock - now_ms[q] > Hour
    OBVIOUS
  <2>. USE <1>1 DEF IInv
  <2>1. q = p /\ i \in {e[2] : e \in Expired(p)}
    BY DEF ListExpiredCb, TypeOK
  <2>2. i \in Timers /\ Entry(i) \in Expired(p)
    BY <2>1, TakenFacts DEF TimersInv, Expired, TypeOK
  <2>3. poller[p] = "list"
    BY DEF ListExpiredCb
  <2>4. /\ clock \in Nat /\ now_ms[p] \in Nat /\ m_previousTime \in Nat /\ m_next[i] \in Nat
        /\ Hour \in Nat
    BY <2>2, TimerAssumption DEF TypeOK, Instants
  <2>5. now_ms[p] <= clock /\ m_previousTime <= clock /\ m_previousTime > Hour
    BY <2>4, TimeFacts DEF TimeInv
  <2>6. detectClockRollover(p) \/ m_next[i] <= now_ms[p]
    BY <2>2 DEF Expired, Entry
  <2>7. CASE m_next[i] <= now_ms[p]
    BY <2>4, <2>5, <2>7
  <2>8. CASE detectClockRollover(p)
    BY <2>1, <2>4, <2>5, <2>8 DEF detectClockRollover
  <2>. QED BY <2>6, <2>7, <2>8
<1>2. IInv /\ [Next]_vars => [early]_vars
  <2>1. ASSUME IInv, UNCHANGED cbs PROVE early
    BY <2>1
  <2>2. ASSUME IInv, NEW p \in Pollers, ScheduleCbs(p) PROVE early
    <3>1. \A q \in Pollers : cbs'[q] \subseteq cbs[q]
      BY <2>2 DEF ScheduleCbs, IInv, TypeOK
    <3>. QED BY <3>1
  <2>3. ASSUME IInv, NEW p \in Pollers, Poll(p) PROVE early
    <3>1. ListExpiredCb(p) \/ ScheduleCbs(p) \/ UNCHANGED cbs
      BY <2>3 DEF Poll, EnterIdle, GetNextTimer, Sleep, WakeUp, ReadClock
    <3>. HIDE DEF early
    <3>. QED BY <1>1, <2>1, <2>2, <2>3, <3>1
  <2>4. ASSUME IInv, \/ Tick \/ SetBack \/ \E c \in Clients : Client(c)
                     \/ \E p \in Pollers : Interrupt(p)
        PROVE  early
    <3>1. UNCHANGED cbs
      BY <2>4 DEF Tick, SetBack, Interrupt, Client, NewTimer, AddTimer, OnTimerInsertedAtFront, Cancel,
                  Refresh, Reset, pollVars
    <3>. QED BY <2>1, <2>4, <3>1
  <2>. HIDE DEF early
  <2>. QED BY <2>3, <2>4 DEF Next
<1>. QED BY <1>2, TimerInvariant, PTL DEF Spec, NeverEarly
=============================================================================
