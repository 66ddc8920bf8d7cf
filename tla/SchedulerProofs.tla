-------------------------- MODULE SchedulerProofs --------------------------
(***************************************************************************)
(* Theorems about module Scheduler, for every finite set of threads and    *)
(* any sets of fibers and callbacks.                                       *)
(***************************************************************************)
EXTENDS Scheduler, TLAPS, FiniteSetTheorems, SequenceTheorems

(* What erase() leaves in the list: one entry fewer, in the same order. *)
LEMMA EraseFacts ==
  ASSUME NEW S, NEW s \in Seq(S), NEW i \in 1..Len(s)
  PROVE  /\ RemoveAt(s, i) \in Seq(S)
         /\ Len(RemoveAt(s, i)) = Len(s) - 1
         /\ \A k \in 1..(Len(s) - 1) :
              RemoveAt(s, i)[k] = IF k < i THEN s[k] ELSE s[k + 1]
<1>. DEFINE a == SubSeq(s, 1, i - 1)
            b == SubSeq(s, i + 1, Len(s))
<1>1. a \in Seq(S) /\ Len(a) = i - 1 /\ \A k \in 1..(i - 1) : a[k] = s[k]
  OBVIOUS
<1>2. b \in Seq(S) /\ Len(b) = Len(s) - i /\ \A k \in 1..(Len(s) - i) : b[k] = s[i + k]
  OBVIOUS
<1>3. RemoveAt(s, i) = a \o b
  BY DEF RemoveAt
<1>. HIDE DEF a, b
<1>4. /\ a \o b \in Seq(S) /\ Len(a \o b) = Len(a) + Len(b)
      /\ \A k \in 1..(Len(a) + Len(b)) :
           (a \o b)[k] = IF k <= Len(a) THEN a[k] ELSE b[k - Len(a)]
  BY <1>1, <1>2, ConcatProperties
<1>5. Len(s) \in Nat /\ Len(a) + Len(b) = Len(s) - 1
  BY <1>1, <1>2
<1>6. ASSUME NEW k \in 1..(Len(s) - 1)
      PROVE  (a \o b)[k] = IF k < i THEN s[k] ELSE s[k + 1]
  <2>1. CASE k < i
    BY <2>1, <1>1, <1>4, <1>5
  <2>2. CASE ~(k < i)
    <3>1. k - (i - 1) \in 1..(Len(s) - i) /\ i + (k - (i - 1)) = k + 1
      BY <2>2, <1>5
    <3>2. (a \o b)[k] = b[k - (i - 1)]
      BY <2>2, <1>1, <1>4, <1>5
    <3>. QED BY <3>1, <3>2, <1>2, <2>2
  <2>. QED BY <2>1, <2>2
<1>. QED BY <1>3, <1>4, <1>5, <1>6

(* What appending to the list leaves. *)
LEMMA AppendFacts ==
  ASSUME NEW S, NEW s \in Seq(S), NEW e \in S
  PROVE  /\ Append(s, e) \in Seq(S)
         /\ Len(s) \in Nat /\ Len(Append(s, e)) = Len(s) + 1
         /\ \A k \in 1..Len(s) : Append(s, e)[k] = s[k]
         /\ Append(s, e)[Len(s) + 1] = e
OBVIOUS

(* Every entry that erase() leaves was there, at distinct positions. *)
LEMMA EraseKeeps ==
  ASSUME m_tasks \in Seq(Task), NEW i \in 1..Len(m_tasks), m_tasks' =
       RemoveAt(m_tasks, i)
  PROVE  /\ m_tasks' \in Seq(Task)
         /\ \A k \in 1..Len(m_tasks') :
              \E j \in 1..Len(m_tasks) : j # i /\ m_tasks'[k] = m_tasks[j]
         /\ \A k, l \in 1..Len(m_tasks') : k # l =>
              \E j, n \in 1..Len(m_tasks) :
                j # n /\ m_tasks'[k] = m_tasks[j] /\ m_tasks'[l] = m_tasks[n]
<1>. DEFINE old(k) == IF k < i THEN k ELSE k + 1
<1>1. /\ m_tasks' \in Seq(Task) /\ Len(m_tasks') = Len(m_tasks) - 1
      /\ \A k \in 1..(Len(m_tasks) - 1) :
           m_tasks'[k] = IF k < i THEN m_tasks[k] ELSE m_tasks[k + 1]
  BY EraseFacts
<1>2. \A k \in 1..Len(m_tasks') :
        old(k) \in 1..Len(m_tasks) /\ old(k) # i /\ m_tasks'[k] = m_tasks[old(k)]
  BY <1>1
<1>3. \A k, l \in 1..Len(m_tasks') : k # l => old(k) # old(l)
  BY <1>1
<1>. HIDE DEF old
<1>4. ASSUME NEW k \in 1..Len(m_tasks'), NEW l \in 1..Len(m_tasks'), k # l
      PROVE  \E j, n \in 1..Len(m_tasks) :
               j # n /\ m_tasks'[k] = m_tasks[j] /\ m_tasks'[l] = m_tasks[n]
  BY <1>2, <1>3, <1>4
<1>. QED BY <1>1, <1>2, <1>4

(* The entries of m_tasks are tasks. *)
LEMMA TasksTyped ==
  ASSUME m_tasks \in Seq(Task)
  PROVE  \A i \in 1..Len(m_tasks) : m_tasks[i] \in Task
OBVIOUS

(* How the number of threads at the labels L changes when t goes to l. *)
LEMMA CountStep ==
  ASSUME NEW L, NEW t \in Threads, NEW l,
         pc \in [Threads -> Pcs], pc' = [pc EXCEPT ![t] = l]
  PROVE  /\ NumberAt(L) \in Nat /\ NumberAt(L)' \in Nat
         /\ (pc[t] \in L <=> l \in L) => NumberAt(L)' = NumberAt(L)
         /\ pc[t] \notin L /\ l \in L => NumberAt(L)' = NumberAt(L) + 1
         /\ pc[t] \in L /\ l \notin L => NumberAt(L)' = NumberAt(L) - 1
<1>. DEFINE P == {u \in Threads : pc[u] \in L}
            Q == {u \in Threads : pc'[u] \in L}
<1>0. NumberAt(L) = Cardinality(P) /\ NumberAt(L)' = Cardinality(Q)
  BY DEF NumberAt
<1>1. IsFiniteSet(P) /\ IsFiniteSet(Q)
  BY FS_Subset, ThreadsAssumption
<1>2. Cardinality(P) \in Nat /\ Cardinality(Q) \in Nat
  BY <1>1, FS_CardinalityType
<1>3. ASSUME pc[t] \in L <=> l \in L PROVE Q = P
  BY <1>3
<1>4. ASSUME pc[t] \notin L, l \in L PROVE Cardinality(Q) = Cardinality(P) + 1
  <2>1. Q = P \cup {t} /\ t \notin P
    BY <1>4
  <2>. QED BY <2>1, <1>1, FS_AddElement
<1>5. ASSUME pc[t] \in L, l \notin L PROVE Cardinality(Q) = Cardinality(P) - 1
  <2>1. Q = P \ {t} /\ t \in P
    BY <1>5
  <2>. QED BY <2>1, <1>1, FS_RemoveElement
<1>. QED BY <1>0, <1>2, <1>3, <1>4, <1>5

(* The counters stay exact if they follow the move of t to l. *)
LEMMA CountersStep ==
  ASSUME TypeOK, CountersExact, NEW t \in Threads, NEW l, pc' = [pc EXCEPT ![t] = l],
         \/ m_activeThreadCount' = m_activeThreadCount /\ (pc[t] \in ActivePcs <=> l \in ActivePcs)
         \/ m_activeThreadCount' = m_activeThreadCount + 1 /\ pc[t] \notin ActivePcs /\ l \in ActivePcs
         \/ m_activeThreadCount' = m_activeThreadCount - 1 /\ pc[t] \in ActivePcs /\ l \notin ActivePcs,
         \/ m_idleThreadCount' = m_idleThreadCount /\ (pc[t] \in IdlePcs <=> l \in IdlePcs)
         \/ m_idleThreadCount' = m_idleThreadCount + 1 /\ pc[t] \notin IdlePcs /\ l \in IdlePcs
         \/ m_idleThreadCount' = m_idleThreadCount - 1 /\ pc[t] \in IdlePcs /\ l \notin IdlePcs
  PROVE  CountersExact' /\ m_activeThreadCount' \in Nat /\ m_idleThreadCount' \in Nat
<1>1. NumberAt(ActivePcs)' = m_activeThreadCount' /\ m_activeThreadCount' \in Nat
  BY CountStep DEF TypeOK, CountersExact
<1>2. NumberAt(IdlePcs)' = m_idleThreadCount' /\ m_idleThreadCount' \in Nat
  BY CountStep DEF TypeOK, CountersExact
<1>. QED BY <1>1, <1>2 DEF CountersExact

(* Steps of run() that touch no fiber and no task. *)
LEMMA ControlStep ==
  ASSUME IInv, NEW t \in Threads,
         FindNoTask(t) \/ CountActive(t) \/ UncountActive(t) \/ EnterIdle(t) \/ Idle(t) \/ LeaveIdle(t)
  PROVE  IInv'
<1>. USE NullAssumption DEF IInv, OwnershipInv, TypeOK, FiberTypeOK, Task, FindNoTask,
      CountActive, UncountActive, EnterIdle, Idle, LeaveIdle, Goto, fiberVars,
      queueVars, stopVars, localVars, clientVars
<1>1. CountersExact' /\ m_activeThreadCount' \in Nat /\ m_idleThreadCount' \in Nat
  BY CountersStep DEF ActivePcs, IdlePcs, OnFiber
<1>2. TypeOK'
  BY <1>1 DEF State, Pcs, ActivePcs, IdlePcs, OnFiber
<1>3. FiberExclusive'
  BY DEF FiberExclusive, LocalsInv, ThreadsOwn, Current, OnFiber, stateTermOrExcept
<1>4. CallerInv'
  BY DEF CallerInv
<1>5. LocalsInv'
  BY DEF LocalsInv, Current, OnFiber, Attached
<1>6. StatesInv'
  BY DEF StatesInv, LocalsInv, ThreadsOwn, Current, OnFiber, Attached, Resumable,
       stateTermOrExcept
<1>7. QueueInv'
  BY DEF QueueInv, QueueOwns, Resumable, stateTermOrExcept
<1>8. ThreadsOwn'
  BY DEF ThreadsOwn, stateTermOrExcept
<1>9. QueueOwns'
  BY DEF QueueOwns, stateTermOrExcept
<1>10. WaitingInv'
  BY DEF WaitingInv, Current, Attached, OnFiber
<1>. QED BY <1>1, <1>2, <1>3, <1>4, <1>5, <1>6, <1>7, <1>8, <1>9, <1>10

(* run() returns. *)
LEMMA ExitRunStep ==
  ASSUME IInv, NEW t \in Threads, ExitRun(t)
  PROVE  IInv'
<1>. USE NullAssumption DEF IInv, OwnershipInv, TypeOK, FiberTypeOK, Task, ExitRun,
      Goto, fiberVars, queueVars, stopVars, localVars, clientVars
<1>1. CountersExact'
  BY CountersStep DEF ActivePcs, IdlePcs, OnFiber
<1>2. TypeOK'
  BY DEF State, Pcs, ActivePcs, IdlePcs, OnFiber
<1>3. FiberExclusive'
  BY DEF FiberExclusive, LocalsInv, ThreadsOwn, Current, OnFiber, stateTermOrExcept
<1>4. CallerInv'
  BY DEF CallerInv
<1>5. LocalsInv'
  BY DEF LocalsInv, Current, OnFiber, Attached
<1>6. StatesInv'
  BY DEF StatesInv, LocalsInv, ThreadsOwn, Current, OnFiber, Attached, Resumable,
       stateTermOrExcept
<1>7. QueueInv'
  BY DEF QueueInv, QueueOwns, Resumable, stateTermOrExcept
<1>8. ThreadsOwn'
  BY DEF ThreadsOwn, stateTermOrExcept
<1>9. QueueOwns'
  BY DEF QueueOwns, stateTermOrExcept
<1>10. WaitingInv'
  BY DEF WaitingInv, Current, Attached, OnFiber
<1>. QED BY <1>1, <1>2, <1>3, <1>4, <1>5, <1>6, <1>7, <1>8, <1>9, <1>10

(* A callback announces itself to its waker. *)
LEMMA UserArmsStep ==
  ASSUME IInv, NEW t \in Threads, UserArms(t)
  PROVE  IInv'
<1>. USE NullAssumption, ClientAssumption DEF IInv, OwnershipInv, TypeOK, FiberTypeOK,
      Task, UserArms, Goto, fiberVars, queueVars, stopVars, localVars, clientVars
<1>1. CountersExact'
  BY CountersStep DEF ActivePcs, IdlePcs, OnFiber
<1>2. TypeOK'
  BY DEF State, Pcs, ActivePcs, IdlePcs, OnFiber, LocalsInv, Current, Attached
<1>3. FiberExclusive'
  BY DEF FiberExclusive, LocalsInv, ThreadsOwn, Current, OnFiber, stateTermOrExcept
<1>4. CallerInv'
  BY DEF CallerInv
<1>5. LocalsInv'
  BY DEF LocalsInv, Current, OnFiber, Attached
<1>6. StatesInv'
  BY DEF StatesInv, LocalsInv, ThreadsOwn, Current, OnFiber, Attached, Resumable,
       stateTermOrExcept
<1>7. QueueInv'
  BY DEF QueueInv, QueueOwns, Resumable, stateTermOrExcept
<1>8. ThreadsOwn'
  BY DEF ThreadsOwn, stateTermOrExcept
<1>9. QueueOwns'
  BY DEF QueueOwns, stateTermOrExcept
<1>10. WaitingInv'
  <2>1. PICK g \in Fibers : g = Current(t)
    BY DEF LocalsInv, Attached, OnFiber
  <2>2. waiting' = waiting \cup {g} /\ m_state[g] = "EXEC"
    BY <2>1 DEF LocalsInv, StatesInv, OnFiber
  <2>3. \A u \in Threads : Current(u)' = Current(u) /\ pc'[u] = IF u = t THEN "armed" ELSE pc[u]
    BY DEF Current
  <2>4. \A i \in 1..Len(m_tasks) : m_tasks[i].fiber # g
    BY <2>2 DEF QueueInv, Resumable
  <2>5. ASSUME NEW u \in Threads, g \in {tk[u].fiber, cb_fiber[u]} PROVE u = t
    BY <2>1, <2>2, <2>5 DEF ThreadsOwn, Current, stateTermOrExcept
  <2>6. ASSUME NEW u \in Threads, g \in {tk[u].fiber, cb_fiber[u]}
        PROVE  g = Current(u)' /\ pc'[u] \in Attached \ {"user"}
    BY <2>1, <2>3, <2>5, <2>6 DEF Attached, OnFiber
  <2>7. ASSUME NEW f \in waiting
        PROVE  /\ m_state[f] \in {"EXEC", "HOLD"}
               /\ \A i \in 1..Len(m_tasks) : m_tasks[i].fiber # f
               /\ \A u \in Threads : f \in {tk[u].fiber, cb_fiber[u]} =>
                    f = Current(u)' /\ pc'[u] \in Attached \ {"user"}
    BY <2>3 DEF WaitingInv, Attached, OnFiber
  <2>. QED BY <2>2, <2>4, <2>6, <2>7 DEF WaitingInv
<1>. QED BY <1>1, <1>2, <1>3, <1>4, <1>5, <1>6, <1>7, <1>8, <1>9, <1>10

(* The thread leaves the fiber's stack. *)
LEMMA SwapOutStep ==
  ASSUME IInv, NEW t \in Threads, SwapOut(t)
  PROVE  IInv'
<1>. USE NullAssumption DEF IInv, OwnershipInv, TypeOK, FiberTypeOK, Task, SwapOut,
      swapOut, Goto, fiberVars, queueVars, stopVars, localVars, clientVars
<1>1. CountersExact'
  BY CountersStep DEF ActivePcs, IdlePcs, OnFiber
<1>2. TypeOK'
  BY DEF State, Pcs, ActivePcs, IdlePcs, OnFiber
<1>3. FiberExclusive'
  BY DEF FiberExclusive, LocalsInv, ThreadsOwn, Current, OnFiber, stateTermOrExcept
<1>4. CallerInv'
  BY DEF CallerInv
<1>5. LocalsInv'
  BY DEF LocalsInv, Current, OnFiber, Attached
<1>6. StatesInv'
  BY DEF StatesInv, LocalsInv, ThreadsOwn, Current, OnFiber, Attached, Resumable,
       stateTermOrExcept
<1>7. QueueInv'
  BY DEF QueueInv, QueueOwns, Resumable, stateTermOrExcept
<1>8. ThreadsOwn'
  BY DEF ThreadsOwn, stateTermOrExcept
<1>9. QueueOwns'
  BY DEF QueueOwns, stateTermOrExcept
<1>10. WaitingInv'
  BY DEF WaitingInv, Current, Attached, OnFiber
<1>. QED BY <1>1, <1>2, <1>3, <1>4, <1>5, <1>6, <1>7, <1>8, <1>9, <1>10

(* A fiber task is swapped into. *)
LEMMA DispatchFiberStep ==
  ASSUME IInv, NEW t \in Threads, DispatchFiber(t)
  PROVE  IInv'
<1>. USE NullAssumption DEF IInv, OwnershipInv, TypeOK, FiberTypeOK, Task,
      DispatchFiber, swapIn, Goto, fiberVars, queueVars, stopVars, localVars,
      clientVars
<1>1. CountersExact'
  BY CountersStep DEF ActivePcs, IdlePcs, OnFiber
<1>2. TypeOK'
  BY DEF State, Pcs, ActivePcs, IdlePcs, OnFiber, StatesInv
<1>3. FiberExclusive'
  BY DEF FiberExclusive, LocalsInv, ThreadsOwn, Current, OnFiber, stateTermOrExcept
<1>4. CallerInv'
  BY DEF CallerInv
<1>5. LocalsInv'
  BY DEF LocalsInv, Current, OnFiber, Attached
<1>6. StatesInv'
  BY DEF StatesInv, LocalsInv, ThreadsOwn, Current, OnFiber, Attached, Resumable,
       stateTermOrExcept
<1>7. QueueInv'
  BY DEF QueueInv, QueueOwns, Resumable, stateTermOrExcept
<1>8. ThreadsOwn'
  BY DEF ThreadsOwn, stateTermOrExcept
<1>9. QueueOwns'
  BY DEF QueueOwns, stateTermOrExcept
<1>10. WaitingInv'
  BY DEF WaitingInv, Current, Attached, OnFiber
<1>. QED BY <1>1, <1>2, <1>3, <1>4, <1>5, <1>6, <1>7, <1>8, <1>9, <1>10

(* A finished fiber is dropped. *)
LEMMA DropTaskStep ==
  ASSUME IInv, NEW t \in Threads, DropTask(t)
  PROVE  IInv'
<1>. USE NullAssumption DEF IInv, OwnershipInv, TypeOK, FiberTypeOK, Task, DropTask,
      NoTask, Goto, fiberVars, queueVars, stopVars, localVars, clientVars
<1>1. CountersExact' /\ m_activeThreadCount' \in Nat /\ m_idleThreadCount' \in Nat
  BY CountersStep DEF ActivePcs, IdlePcs, OnFiber
<1>2. TypeOK'
  BY <1>1 DEF State, Pcs, ActivePcs, IdlePcs, OnFiber
<1>3. FiberExclusive'
  BY DEF FiberExclusive, LocalsInv, ThreadsOwn, Current, OnFiber, stateTermOrExcept
<1>4. CallerInv'
  BY DEF CallerInv
<1>5. LocalsInv'
  BY DEF LocalsInv, Current, OnFiber, Attached
<1>6. StatesInv'
  BY DEF StatesInv, LocalsInv, ThreadsOwn, Current, OnFiber, Attached, Resumable,
       stateTermOrExcept
<1>7. QueueInv'
  BY DEF QueueInv, QueueOwns, Resumable, stateTermOrExcept
<1>8. ThreadsOwn'
  BY DEF ThreadsOwn, stateTermOrExcept
<1>9. QueueOwns'
  BY DEF QueueOwns, stateTermOrExcept
<1>10. WaitingInv'
  BY DEF WaitingInv, Current, Attached, OnFiber
<1>. QED BY <1>1, <1>2, <1>3, <1>4, <1>5, <1>6, <1>7, <1>8, <1>9, <1>10

(* A fiber that yielded to READY goes back to the list. *)
LEMMA PostReadyStep ==
  ASSUME IInv, NEW t \in Threads, PostReady(t)
  PROVE  IInv'
<1>. USE NullAssumption DEF IInv, OwnershipInv, TypeOK, FiberTypeOK, Task, PostReady,
      LetGo, NoTask, Goto, fiberVars, queueVars, stopVars, localVars, clientVars
<1>1. m_tasks' = Append(m_tasks, FiberTask(Current(t), AnyThread)) /\ Current(t) \in Fibers
  BY DEF LocalsInv, Attached
<1>2. /\ Len(m_tasks) \in Nat /\ Len(m_tasks') = Len(m_tasks) + 1 /\ m_tasks' \in Seq(Task)
      /\ \A k \in 1..Len(m_tasks) : m_tasks'[k] = m_tasks[k]
      /\ m_tasks'[Len(m_tasks) + 1] = FiberTask(Current(t), AnyThread)
  BY <1>1, AppendFacts DEF FiberTask
<1>3. CountersExact'
  BY CountersStep DEF ActivePcs, IdlePcs, OnFiber
<1>4. TypeOK'
  BY <1>1, <1>2 DEF State, Pcs, ActivePcs, IdlePcs, OnFiber
<1>5. FiberExclusive'
  BY DEF FiberExclusive, LocalsInv, ThreadsOwn, Current, OnFiber, stateTermOrExcept
<1>6. CallerInv'
  BY DEF CallerInv
<1>7. LocalsInv'
  BY DEF LocalsInv, Current, OnFiber, Attached
<1>8. StatesInv'
  BY DEF StatesInv, LocalsInv, ThreadsOwn, Current, OnFiber, Attached, Resumable,
       stateTermOrExcept
<1>9. QueueInv'
  BY <1>1, <1>2 DEF QueueInv, QueueOwns, Resumable, stateTermOrExcept, FiberTask,
       StatesInv
<1>10. ThreadsOwn'
  BY DEF ThreadsOwn, stateTermOrExcept
<1>11. QueueOwns'
  BY <1>1, <1>2 DEF QueueOwns, stateTermOrExcept, FiberTask, StatesInv, ThreadsOwn,
       LocalsInv, Current, Attached
<1>12. WaitingInv'
  BY <1>1, <1>2 DEF WaitingInv, Current, Attached, OnFiber, FiberTask, StatesInv
<1>. QED BY <1>3, <1>4, <1>5, <1>6, <1>7, <1>8, <1>9, <1>10, <1>11, <1>12

(* A fiber that yielded to HOLD is let go. *)
LEMMA PostHoldStep ==
  ASSUME IInv, NEW t \in Threads, PostHold(t)
  PROVE  IInv'
<1>. USE NullAssumption DEF IInv, OwnershipInv, TypeOK, FiberTypeOK, Task, PostHold,
      setState, LetGo, NoTask, Goto, fiberVars, queueVars, stopVars, localVars,
      clientVars
<1>1. CountersExact'
  BY CountersStep DEF ActivePcs, IdlePcs, OnFiber
<1>2. TypeOK'
  BY DEF State, Pcs, ActivePcs, IdlePcs, OnFiber
<1>3. FiberExclusive'
  BY DEF FiberExclusive, LocalsInv, ThreadsOwn, Current, OnFiber, stateTermOrExcept
<1>4. CallerInv'
  BY DEF CallerInv
<1>5. LocalsInv'
  BY DEF LocalsInv, Current, OnFiber, Attached
<1>6. StatesInv'
  BY DEF StatesInv, LocalsInv, ThreadsOwn, Current, OnFiber, Attached, Resumable,
       stateTermOrExcept
<1>7. QueueInv'
  BY DEF QueueInv, QueueOwns, Resumable, stateTermOrExcept, LocalsInv, StatesInv,
       Current, Attached, OnFiber
<1>8. ThreadsOwn'
  BY DEF ThreadsOwn, stateTermOrExcept, LocalsInv, StatesInv, Current, Attached, OnFiber
<1>9. QueueOwns'
  BY DEF QueueOwns, stateTermOrExcept, LocalsInv, StatesInv, Current, Attached, OnFiber
<1>10. WaitingInv'
  BY DEF WaitingInv, Current, Attached, OnFiber, LocalsInv, StatesInv, ThreadsOwn
<1>. QED BY <1>1, <1>2, <1>3, <1>4, <1>5, <1>6, <1>7, <1>8, <1>9, <1>10

(* A task moves from the list to tk. *)
LEMMA TakeTaskStep ==
  ASSUME IInv, NEW t \in Threads, TakeTask(t)
  PROVE  IInv'
<1>. USE NullAssumption DEF IInv, OwnershipInv, TypeOK, FiberTypeOK, TakeTask, Goto,
         fiberVars, stopVars, clientVars
<1>1. PICK i \in 1..Len(m_tasks) :
        /\ m_tasks[i].fiber # NoFiber => m_state[m_tasks[i].fiber] # "EXEC"
        /\ tk' = [tk EXCEPT ![t] = m_tasks[i]]
        /\ m_tasks' = RemoveAt(m_tasks, i)
  BY DEF Erase, FirstEligible, Eligible
<1>2. /\ m_tasks' \in Seq(Task)
      /\ \A k \in 1..Len(m_tasks') : \E j \in 1..Len(m_tasks) : j # i /\ m_tasks'[k] = m_tasks[j]
  BY <1>1, EraseKeeps
<1>3. \A j \in 1..Len(m_tasks) : m_tasks[j] \in Task
  BY TasksTyped
<1>4. \A k \in 1..Len(m_tasks') : \E j \in 1..Len(m_tasks) : j # i /\ m_tasks'[k] = m_tasks[j]
  BY <1>2
<1>5. \A k, l \in 1..Len(m_tasks') : k # l =>
        \E j, n \in 1..Len(m_tasks) :
          j # n /\ m_tasks'[k] = m_tasks[j] /\ m_tasks'[l] = m_tasks[n]
  BY <1>1, EraseKeeps
<1>6. TypeOK'
  BY <1>1, <1>2, <1>3 DEF Pcs, ActivePcs, IdlePcs, OnFiber
<1>7. CountersExact'
  BY CountersStep DEF ActivePcs, IdlePcs, OnFiber
<1>8. FiberExclusive' /\ CallerInv'
  BY DEF FiberExclusive, CallerInv
<1>9. LocalsInv'
  BY <1>1, <1>3 DEF LocalsInv, QueueInv, Current, OnFiber, Attached, Task
<1>10. StatesInv'
  BY <1>1, <1>3 DEF StatesInv, QueueInv, Current, OnFiber, Attached, LocalsInv, NoTask
<1>11. QueueInv'
  <2>1. UNCHANGED <<m_state, m_cb>>
    OBVIOUS
  <2>2. ASSUME NEW k \in 1..Len(m_tasks')
        PROVE  /\ m_tasks'[k].fiber = NoFiber <=> m_tasks'[k].cb # NoCb
               /\ m_tasks'[k].fiber # NoFiber =>
                    /\ m_state[m_tasks'[k].fiber] \in Resumable
                    /\ m_state[m_tasks'[k].fiber] = "INIT" => m_cb[m_tasks'[k].fiber] \in Cbs
    <3>1. PICK j \in 1..Len(m_tasks) : m_tasks'[k] = m_tasks[j]
      BY <1>4
    <3>. QED BY <3>1 DEF QueueInv
  <2>. QED BY <2>1, <2>2 DEF QueueInv
<1>12. ThreadsOwn'
  BY <1>1, <1>3 DEF ThreadsOwn, QueueOwns, stateTermOrExcept, Task
<1>13. QueueOwns'
  <2>1. ASSUME NEW k \in 1..Len(m_tasks'), m_tasks'[k].fiber # NoFiber
        PROVE  /\ \A u \in Threads : m_tasks'[k].fiber # cb_fiber[u]
               /\ \A u \in Threads : m_tasks'[k].fiber = tk'[u].fiber =>
                    stateTermOrExcept(m_tasks'[k].fiber)
    BY <2>1, <1>1, <1>3, <1>4 DEF QueueOwns, Task, stateTermOrExcept
  <2>2. ASSUME NEW k \in 1..Len(m_tasks'), NEW l \in 1..Len(m_tasks'), k # l,
               m_tasks'[k].fiber # NoFiber, m_tasks'[k].fiber = m_tasks'[l].fiber
        PROVE  stateTermOrExcept(m_tasks'[k].fiber)
    <3>1. PICK j \in 1..Len(m_tasks), n \in 1..Len(m_tasks) :
            j # n /\ m_tasks'[k] = m_tasks[j] /\ m_tasks'[l] = m_tasks[n]
      BY <2>2, <1>5
    <3>. QED BY <2>2, <3>1 DEF QueueOwns
  <2>. QED BY <2>1, <2>2 DEF QueueOwns, stateTermOrExcept
<1>14. WaitingInv'
  BY <1>1, <1>3, <1>4 DEF WaitingInv, Current, Attached, OnFiber, Task
<1>. QED BY <1>6, <1>7, <1>8, <1>9, <1>10, <1>11, <1>12, <1>13, <1>14

(* A callback task is entered on the thread's cb_fiber, or on a new one. *)
LEMMA DispatchCbStep ==
  ASSUME IInv, NEW t \in Threads, DispatchCb(t)
  PROVE  IInv'
<1>. USE NullAssumption DEF IInv, OwnershipInv, TypeOK, FiberTypeOK, Task, DispatchCb,
      Goto,
         ResetAndSwapIn, queueVars, stopVars, clientVars
<1>1. PICK f \in Fibers :
        /\ IF cb_fiber[t] # NoFiber THEN f = cb_fiber[t] ELSE m_state[f] = "none"
        /\ m_cb' = [m_cb EXCEPT ![f] = tk[t].cb]
        /\ t_fiber' = [t_fiber EXCEPT ![t] = f]
        /\ m_state' = [m_state EXCEPT ![f] = "EXEC"]
        /\ entered' = entered \cup {tk[t].cb}
        /\ cb_fiber' = [cb_fiber EXCEPT ![t] = f]
  OBVIOUS
<1>2. m_state[f] \in {"none", "INIT"}
  BY <1>1 DEF StatesInv, Attached, OnFiber
<1>3. /\ \A u \in Threads : (u # t => cb_fiber[u] # f) /\ tk[u].fiber # f
      /\ \A i \in 1..Len(m_tasks) : m_tasks[i].fiber # f
  <2>1. CASE cb_fiber[t] # NoFiber
    <3>1. f = cb_fiber[t]
      BY <1>1, <2>1
    <3>2. \A u \in Threads : (u # t => cb_fiber[u] # f) /\ tk[u].fiber # f
      BY <2>1, <3>1 DEF ThreadsOwn
    <3>3. \A i \in 1..Len(m_tasks) : m_tasks[i].fiber # f
      BY <3>1 DEF QueueOwns
    <3>. QED BY <3>2, <3>3
  <2>2. CASE cb_fiber[t] = NoFiber
    <3>1. m_state[f] = "none" /\ f # NoFiber
      BY <1>1, <2>2
    <3>2. \A u \in Threads : cb_fiber[u] # f
      BY <3>1 DEF StatesInv, Attached, OnFiber, Current
    <3>3. \A u \in Threads : tk[u].fiber # f
      BY <3>1 DEF StatesInv, LocalsInv, Attached, OnFiber, Current, Resumable, NoTask
    <3>4. \A i \in 1..Len(m_tasks) : m_tasks[i].fiber # f
      BY <3>1 DEF QueueInv, Resumable
    <3>. QED BY <3>2, <3>3, <3>4
  <2>. QED BY <2>1, <2>2
<1>4. f \notin waiting
  BY <1>2 DEF WaitingInv
<1>5. tk' = [tk EXCEPT ![t] = NoTask] /\ NoTask \in Task
  BY DEF NoTask
<1>6. TypeOK'
  BY <1>1, <1>5 DEF State, Pcs, ActivePcs, IdlePcs, OnFiber
<1>7. CountersExact'
  BY CountersStep DEF ActivePcs, IdlePcs, OnFiber
<1>8. FiberExclusive'
  BY <1>1, <1>3 DEF FiberExclusive, LocalsInv, Current
<1>9. CallerInv'
  BY DEF CallerInv
<1>10. LocalsInv'
  BY <1>1, <1>5 DEF LocalsInv, Current, OnFiber, Attached, NoTask
<1>11. StatesInv'
  BY <1>1, <1>3, <1>5 DEF StatesInv, LocalsInv, Current, OnFiber, Attached, NoTask
<1>12. QueueInv'
  BY <1>1, <1>3 DEF QueueInv
<1>13. ThreadsOwn'
  BY <1>1, <1>3, <1>5 DEF ThreadsOwn, stateTermOrExcept, NoTask
<1>14. QueueOwns'
  BY <1>1, <1>3, <1>5 DEF QueueOwns, stateTermOrExcept, NoTask
<1>15. WaitingInv'
  BY <1>1, <1>4, <1>5 DEF WaitingInv, Current, Attached, OnFiber, NoTask
<1>. QED BY <1>6, <1>7, <1>8, <1>9, <1>10, <1>11, <1>12, <1>13, <1>14, <1>15

(* A fiber publishes the state it leaves in, still on its stack. *)
LEMMA PublishStep ==
  ASSUME IInv, NEW t \in Threads,
         YieldToHold(t) \/ YieldToReady(t) \/ UserReturns(t) \/ UserThrows(t)
  PROVE  IInv'
<1>. USE NullAssumption DEF IInv, OwnershipInv, TypeOK, FiberTypeOK, Task,
         fiberVars, queueVars, stopVars, localVars, clientVars
<1>. DEFINE f == Current(t)
<1>1. /\ pc[t] \in {"user", "armed"} /\ pc' = [pc EXCEPT ![t] = "swapout"]
      /\ UNCHANGED <<t_fiber, entered, queueVars, stopVars, localVars, waiting, posted>>
      /\ f \in Fibers /\ t_fiber[t] = f /\ m_state[f] = "EXEC"
  BY DEF LocalsInv, StatesInv, OnFiber, Attached, YieldToHold, YieldToReady,
       UserReturns,
         UserThrows, MainFuncReturn, MainFuncExcept, setState, Goto
<1>2. /\ m_cb' \in {m_cb, [m_cb EXCEPT ![f] = NoCb]}
      /\ \E s \in {"READY", "HOLD", "TERM", "EXCEPT"} : m_state' = [m_state EXCEPT ![f] = s]
      /\ pc[t] = "armed" => m_state' = [m_state EXCEPT ![f] = "HOLD"]
      /\ yields' \in 0..MaxYields
  BY <1>1, ClientAssumption DEF YieldToHold, YieldToReady, UserReturns, UserThrows,
         MainFuncReturn, MainFuncExcept, setState, Goto
<1>3. \A u \in Threads : u # t => tk[u].fiber # f /\ cb_fiber[u] # f
  BY <1>1 DEF ThreadsOwn, StatesInv, Current, stateTermOrExcept
<1>4. \A i \in 1..Len(m_tasks) : m_tasks[i].fiber # f
  BY <1>1 DEF QueueInv, Resumable
<1>5. f \in waiting => pc[t] = "armed"
  BY <1>1 DEF WaitingInv, Current, Attached, OnFiber
<1>. HIDE DEF f
<1>6. TypeOK'
  BY <1>1, <1>2 DEF State, Pcs, ActivePcs, IdlePcs, OnFiber
<1>7. CountersExact'
  BY <1>1, CountersStep DEF ActivePcs, IdlePcs, OnFiber
<1>8. FiberExclusive' /\ CallerInv'
  BY <1>1 DEF FiberExclusive, CallerInv
<1>9. LocalsInv'
  BY <1>1 DEF LocalsInv, Current, OnFiber, Attached
<1>10. StatesInv'
  <2>1. Current(t)' = f /\ \A u \in Threads : u # t => Current(u)' = Current(u) /\ (Current(u) # NoFiber => Current(u) # f)
    BY <1>1, <1>3 DEF Current, f
  <2>2. f = Current(t)
    BY DEF f
  <2>. QED BY <1>1, <1>2, <1>3, <2>1, <2>2 DEF StatesInv, LocalsInv, OnFiber,
       Attached, Current
<1>11. QueueInv'
  <2>1. \A i \in 1..Len(m_tasks) : m_tasks[i] \in Task
    BY TasksTyped
  <2>. QED BY <2>1, <1>1, <1>2, <1>4 DEF QueueInv
<1>12. ThreadsOwn'
  BY <1>1, <1>2, <1>3 DEF ThreadsOwn, stateTermOrExcept
<1>13. QueueOwns'
  BY <1>1, <1>2, <1>4 DEF QueueOwns, stateTermOrExcept
<1>14. WaitingInv'
  BY <1>1, <1>2, <1>5 DEF WaitingInv, Current, Attached, OnFiber
<1>. QED BY <1>6, <1>7, <1>8, <1>9, <1>10, <1>11, <1>12, <1>13, <1>14

(* A finished fiber is let go, or kept for the next callback. *)
LEMMA PostFinishedStep ==
  ASSUME IInv, NEW t \in Threads, PostFinished(t)
  PROVE  IInv'
<1>. USE NullAssumption DEF IInv, OwnershipInv, TypeOK, FiberTypeOK, Task,
         fiberVars, queueVars, stopVars, clientVars
<1>. DEFINE f == Current(t)
<1>1. /\ pc[t] = "post" /\ pc' = [pc EXCEPT ![t] = "scan"]
      /\ tk' = [tk EXCEPT ![t] = NoTask] /\ NoTask \in Task
      /\ UNCHANGED <<t_fiber, entered, queueVars, stopVars, cb_fiber, idle_fiber, clientVars>>
      /\ f \in Fibers /\ f \in {tk[t].fiber, cb_fiber[t]}
      /\ m_state[f] \in {"TERM", "EXCEPT"}
  BY DEF LocalsInv, Attached, PostFinished, ResetToNull, Goto, NoTask, Current,
       stateTermOrExcept
<1>2. \/ tk[t].fiber # NoFiber /\ UNCHANGED <<m_state, m_cb>>
      \/ /\ f = cb_fiber[t]
         /\ m_state' = [m_state EXCEPT ![f] = "INIT"]
         /\ m_cb' = [m_cb EXCEPT ![f] = NoCb]
  BY DEF PostFinished, ResetToNull, Current
<1>3. f = cb_fiber[t] =>
        /\ \A u \in Threads : tk[u].fiber # f /\ (u # t => cb_fiber[u] # f)
        /\ \A i \in 1..Len(m_tasks) : m_tasks[i].fiber # f
  BY <1>1 DEF ThreadsOwn, QueueOwns
<1>4. f \notin waiting
  BY <1>1 DEF WaitingInv
<1>. HIDE DEF f
<1>5. TypeOK'
  BY <1>1, <1>2 DEF State, Pcs, ActivePcs, IdlePcs, OnFiber
<1>6. CountersExact'
  BY <1>1, CountersStep DEF ActivePcs, IdlePcs, OnFiber
<1>7. FiberExclusive' /\ CallerInv'
  BY <1>1 DEF FiberExclusive, CallerInv
<1>8. LocalsInv'
  BY <1>1 DEF LocalsInv, Current, OnFiber, Attached, NoTask
<1>9. StatesInv'
  BY <1>1, <1>2, <1>3 DEF StatesInv, LocalsInv, Current, OnFiber, Attached, NoTask, f
<1>14. \A i \in 1..Len(m_tasks) : m_tasks[i] \in Task
  BY TasksTyped
<1>10. QueueInv'
  BY <1>1, <1>2, <1>3, <1>14 DEF QueueInv
<1>11. ThreadsOwn'
  BY <1>1, <1>2, <1>3 DEF ThreadsOwn, stateTermOrExcept, NoTask
<1>12. QueueOwns'
  BY <1>1, <1>2, <1>3, <1>14 DEF QueueOwns, stateTermOrExcept, NoTask
<1>13. WaitingInv'
  BY <1>1, <1>2, <1>4 DEF WaitingInv, Current, Attached, OnFiber, NoTask
<1>. QED BY <1>5, <1>6, <1>7, <1>8, <1>9, <1>10, <1>11, <1>12, <1>13

(* Appending an entry that owns its fiber, or a callback, keeps the parts  *)
(* of the invariant that speak of the list.                                *)
LEMMA EnqueueKeeps ==
  ASSUME TypeOK, OwnershipInv, NEW k \in Task, m_tasks' = Append(m_tasks, k),
         UNCHANGED <<m_state, m_cb, tk, cb_fiber, pc, waiting>>,
         k.fiber = NoFiber <=> k.cb # NoCb,
         k.fiber # NoFiber =>
           /\ m_state[k.fiber] \in Resumable
           /\ m_state[k.fiber] = "INIT" => m_cb[k.fiber] \in Cbs
           /\ k.fiber \notin waiting
           /\ \A t \in Threads : k.fiber # cb_fiber[t]
           /\ \/ stateTermOrExcept(k.fiber)
              \/ /\ \A t \in Threads : k.fiber # tk[t].fiber
                 /\ \A i \in 1..Len(m_tasks) : k.fiber # m_tasks[i].fiber
  PROVE  m_tasks' \in Seq(Task) /\ QueueInv' /\ QueueOwns' /\ WaitingInv'
<1>. USE NullAssumption DEF OwnershipInv
<1>. DEFINE n == Len(m_tasks)
<1>1. /\ m_tasks' \in Seq(Task) /\ n \in Nat /\ Len(m_tasks') = n + 1
      /\ \A i \in 1..n : m_tasks'[i] = m_tasks[i]
      /\ m_tasks'[n + 1] = k
  BY AppendFacts DEF TypeOK
<1>2. \A i \in 1..Len(m_tasks') : i \in 1..n \/ i = n + 1
  BY <1>1
<1>. HIDE DEF n
<1>3. QueueInv'
  BY <1>1, <1>2 DEF QueueInv, n
<1>4. QueueOwns'
  BY <1>1, <1>2 DEF QueueOwns, stateTermOrExcept, n
<1>5. WaitingInv'
  BY <1>1, <1>2 DEF WaitingInv, Current, TypeOK, n
<1>. QED BY <1>1, <1>3, <1>4, <1>5

(* What a client hands to schedule() keeps the invariant. *)
LEMMA SchedulesStep ==
  ASSUME IInv, ~WakeRunning, NEW p \in Threads \cup {AnyThread}, Schedules(p),
         UNCHANGED <<m_activeThreadCount, m_idleThreadCount, stopVars, pc, localVars>>
  PROVE  IInv'
<1>. USE NullAssumption DEF IInv, stopVars, localVars
<1>1. ASSUME m_tasks' \in Seq(Task), QueueInv', QueueOwns', WaitingInv', FiberTypeOK',
             UNCHANGED t_fiber, waiting' \subseteq waiting,
             posted' \in SUBSET Cbs, yields' \in 0..MaxYields,
             StatesInv', ThreadsOwn'
      PROVE  IInv'
  <2>1. TypeOK'
    BY <1>1 DEF TypeOK
  <2>2. CountersExact' /\ FiberExclusive' /\ CallerInv'
    BY <1>1 DEF CountersExact, NumberAt, FiberExclusive, CallerInv
  <2>3. LocalsInv'
    BY <1>1 DEF OwnershipInv, LocalsInv, Current
  <2>. QED BY <2>1, <2>2, <2>3, <1>1 DEF OwnershipInv
<1>2. ASSUME UNCHANGED <<m_state, m_cb>> PROVE StatesInv' /\ ThreadsOwn'
  BY <1>2 DEF OwnershipInv, StatesInv, ThreadsOwn, Current, stateTermOrExcept
<1>3. ASSUME NEW c \in Cbs, ScheduleCb(c, p) PROVE IInv'
  <2>1. CbTask(c, p) \in Task /\ CbTask(c, p).fiber = NoFiber /\ CbTask(c, p).cb # NoCb
    BY DEF CbTask, Task
  <2>2. m_tasks' \in Seq(Task) /\ QueueInv' /\ QueueOwns' /\ WaitingInv'
    BY <1>3, <2>1, EnqueueKeeps DEF ScheduleCb, fiberVars
  <2>3. FiberTypeOK' /\ UNCHANGED <<m_state, m_cb, t_fiber, waiting>>
    BY <1>3 DEF ScheduleCb, fiberVars, TypeOK, FiberTypeOK
  <2>. QED BY <1>1, <1>2, <1>3, <2>2, <2>3 DEF ScheduleCb, TypeOK
<1>4. ASSUME NEW c \in Cbs, NEW d \in Cbs, ScheduleRange(c, d) PROVE IInv'
  <2>. DEFINE k1 == CbTask(c, AnyThread)
              k2 == CbTask(d, AnyThread)
              n == Len(m_tasks)
  <2>1. k1 \in Task /\ k2 \in Task /\ k1.fiber = NoFiber /\ k1.cb # NoCb
        /\ k2.fiber = NoFiber /\ k2.cb # NoCb
    BY DEF CbTask, Task
  <2>2. m_tasks' = m_tasks \o <<k1, k2>> /\ m_tasks \in Seq(Task)
    BY <1>4 DEF ScheduleRange, TypeOK
  <2>. HIDE DEF k1, k2
  <2>3. /\ m_tasks' \in Seq(Task) /\ n \in Nat /\ Len(m_tasks') = n + 2
        /\ \A i \in 1..n : m_tasks'[i] = m_tasks[i]
        /\ m_tasks'[n + 1] = k1 /\ m_tasks'[n + 2] = k2
    BY <2>1, <2>2
  <2>4. \A i \in 1..Len(m_tasks') :
          m_tasks'[i].fiber # NoFiber => i \in 1..n
    BY <2>1, <2>3
  <2>5. FiberTypeOK' /\ UNCHANGED <<m_state, m_cb, t_fiber, waiting, tk, cb_fiber, pc>>
    BY <1>4 DEF ScheduleRange, fiberVars, TypeOK, FiberTypeOK
  <2>6. QueueInv'
    BY <2>1, <2>3, <2>4, <2>5 DEF OwnershipInv, QueueInv
  <2>7. QueueOwns'
    BY <2>3, <2>4, <2>5 DEF OwnershipInv, QueueOwns, stateTermOrExcept
  <2>8. WaitingInv'
    BY <2>3, <2>4, <2>5 DEF OwnershipInv, WaitingInv, Current, TypeOK
  <2>. QED BY <1>1, <1>2, <1>4, <2>3, <2>5, <2>6, <2>7, <2>8 DEF ScheduleRange, TypeOK
<1>5. ASSUME NEW f \in Fibers, NEW c \in Cbs, ScheduleFiber(f, c, p) PROVE IInv'
  <2>1. /\ m_state[f] = "none"
        /\ m_state' = [m_state EXCEPT ![f] = "INIT"] /\ m_cb' = [m_cb EXCEPT ![f] = c]
        /\ UNCHANGED <<t_fiber, entered, waiting, yields, tk, cb_fiber, pc>>
        /\ posted' = posted \cup {c} /\ m_tasks' = Append(m_tasks, FiberTask(f, p))
    BY <1>5 DEF ScheduleFiber, NewFiber
  <2>2. \A t \in Threads : f # tk[t].fiber /\ f # cb_fiber[t]
    <3>. SUFFICES ASSUME NEW t \in Threads PROVE f # tk[t].fiber /\ f # cb_fiber[t]
      OBVIOUS
    <3>1. CASE pc[t] \in Attached
      BY <2>1, <3>1 DEF OwnershipInv, StatesInv, Current, Attached, OnFiber
    <3>2. CASE pc[t] \in {"took", "dispatch"}
      BY <2>1, <3>2 DEF OwnershipInv, StatesInv, Resumable, Attached, OnFiber
    <3>3. CASE pc[t] \notin Attached \cup {"took", "dispatch"}
      BY <2>1, <3>3 DEF OwnershipInv, StatesInv, LocalsInv, NoTask
    <3>. QED BY <3>1, <3>2, <3>3
  <2>3. \A i \in 1..Len(m_tasks) : m_tasks[i].fiber # f
    BY <2>1 DEF OwnershipInv, QueueInv, Resumable
  <2>4. f \notin waiting
    BY <2>1 DEF OwnershipInv, WaitingInv
  <2>5. FiberTypeOK' /\ posted' \in SUBSET Cbs
    BY <2>1 DEF TypeOK, FiberTypeOK, State
  <2>6. StatesInv'
    BY <2>1, <2>2 DEF OwnershipInv, StatesInv, LocalsInv, Current, TypeOK,
         FiberTypeOK, Attached, OnFiber
  <2>7. ThreadsOwn'
    BY <2>1, <2>2 DEF OwnershipInv, ThreadsOwn, stateTermOrExcept, TypeOK, FiberTypeOK
  <2>8. /\ Len(m_tasks) \in Nat /\ Len(m_tasks') = Len(m_tasks) + 1 /\ m_tasks' \in Seq(Task)
        /\ \A k \in 1..Len(m_tasks) : m_tasks'[k] = m_tasks[k]
        /\ m_tasks'[Len(m_tasks) + 1] = FiberTask(f, p)
    BY <2>1, AppendFacts DEF FiberTask, Task, TypeOK
  <2>9. QueueInv' /\ QueueOwns' /\ WaitingInv'
    <3>1. QueueInv'
      BY <2>1, <2>3, <2>8 DEF OwnershipInv, QueueInv, FiberTask, TypeOK, FiberTypeOK,
           Resumable
    <3>2. QueueOwns'
      BY <2>1, <2>2, <2>3, <2>8 DEF OwnershipInv, QueueOwns, FiberTask, TypeOK,
           FiberTypeOK,
           stateTermOrExcept
    <3>3. WaitingInv'
      BY <2>1, <2>4, <2>8 DEF OwnershipInv, WaitingInv, FiberTask, Current, TypeOK,
           FiberTypeOK
    <3>. QED BY <3>1, <3>2, <3>3
  <2>. QED BY <1>1, <2>1, <2>5, <2>6, <2>7, <2>8, <2>9 DEF TypeOK
<1>6. ASSUME NEW f \in Fibers, Wake(f, p) PROVE IInv'
  <2>1. /\ f \in waiting /\ m_state[f] = "HOLD" /\ \A t \in Threads : Current(t) # f
        /\ m_tasks' = Append(m_tasks, FiberTask(f, p)) /\ waiting' = waiting \ {f}
        /\ UNCHANGED <<m_state, m_cb, t_fiber, entered, posted, yields, tk, cb_fiber, pc>>
    BY <1>6 DEF Wake, Parked, fiberVars
  <2>2. \A t \in Threads : f # tk[t].fiber /\ f # cb_fiber[t]
    BY <2>1 DEF OwnershipInv, StatesInv, Current
  <2>3. \A i \in 1..Len(m_tasks) : m_tasks[i].fiber # f
    BY <2>1 DEF OwnershipInv, WaitingInv
  <2>4. /\ Len(m_tasks) \in Nat /\ Len(m_tasks') = Len(m_tasks) + 1 /\ m_tasks' \in Seq(Task)
        /\ \A k \in 1..Len(m_tasks) : m_tasks'[k] = m_tasks[k]
        /\ m_tasks'[Len(m_tasks) + 1] = FiberTask(f, p)
    BY <2>1, AppendFacts DEF FiberTask, Task, TypeOK
  <2>5. FiberTypeOK'
    BY <2>1 DEF TypeOK, FiberTypeOK
  <2>6. QueueInv'
    BY <2>1, <2>4 DEF OwnershipInv, QueueInv, FiberTask, Resumable
  <2>7. QueueOwns'
    BY <2>1, <2>2, <2>3, <2>4 DEF OwnershipInv, QueueOwns, FiberTask, stateTermOrExcept
  <2>8. WaitingInv'
    BY <2>1, <2>4 DEF OwnershipInv, WaitingInv, FiberTask, Current
  <2>. QED BY <1>1, <1>2, <2>1, <2>4, <2>5, <2>6, <2>7, <2>8 DEF TypeOK
<1>7. ASSUME NEW f \in Fibers, ScheduleFinished(f, p) PROVE IInv'
  <2>1. /\ m_state[f] \in {"TERM", "EXCEPT"} /\ \A t \in Threads : cb_fiber[t] # f
        /\ m_tasks' = Append(m_tasks, FiberTask(f, p)) /\ yields' \in 0..MaxYields
        /\ UNCHANGED <<m_state, m_cb, t_fiber, entered, waiting, posted, tk, cb_fiber, pc>>
    BY <1>7, ClientAssumption DEF ScheduleFinished, stateTermOrExcept, fiberVars, TypeOK
  <2>2. f \notin waiting
    BY <2>1 DEF OwnershipInv, WaitingInv
  <2>3. FiberTask(f, p) \in Task /\ FiberTask(f, p).fiber = f /\ FiberTask(f, p).cb = NoCb
    BY DEF FiberTask, Task
  <2>4. m_tasks' \in Seq(Task) /\ QueueInv' /\ QueueOwns' /\ WaitingInv'
    BY <2>1, <2>2, <2>3, EnqueueKeeps DEF stateTermOrExcept, Resumable
  <2>5. FiberTypeOK'
    BY <2>1 DEF TypeOK, FiberTypeOK
  <2>. QED BY <1>1, <1>2, <2>1, <2>4, <2>5 DEF TypeOK
<1>. QED BY <1>3, <1>4, <1>5, <1>6, <1>7 DEF Schedules

(* start() and stop(). *)
LEMMA CallerStep ==
  ASSUME IInv, Start \/ Stop \/ StopProceeds
  PROVE  IInv'
<1>. USE DEF IInv, OwnershipInv, TypeOK, FiberTypeOK, fiberVars, queueVars, localVars,
      clientVars
<1>1. CASE Start
  <2>. USE <1>1, ClientAssumption DEF Start
  <2>1. \A t \in Threads : pc[t] \in {"none", "exit"} /\ pc'[t] \in {"none", "exit", "scan"}
    BY DEF CallerInv
  <2>2. CountersExact'
    <3>1. {t \in Threads : pc'[t] \in ActivePcs} = {t \in Threads : pc[t] \in ActivePcs}
      BY <2>1 DEF ActivePcs, OnFiber
    <3>2. {t \in Threads : pc'[t] \in IdlePcs} = {t \in Threads : pc[t] \in IdlePcs}
      BY <2>1 DEF IdlePcs
    <3>. QED BY <3>1, <3>2 DEF CountersExact, NumberAt
  <2>3. TypeOK'
    <3>1. pc' \in [Threads -> Pcs]
      BY <2>1 DEF Pcs
    <3>2. idle_fiber' \in [Threads -> {"INIT", "EXEC", "HOLD", "TERM"}] /\ starts' \in 0..MaxStarts
      OBVIOUS
    <3>. QED BY <3>1, <3>2
  <2>4. CallerInv'
    BY <2>1 DEF CallerInv, Workers
  <2>5. LocalsInv' /\ StatesInv'
    BY <2>1 DEF LocalsInv, StatesInv, Current, OnFiber, Attached
  <2>6. FiberExclusive' /\ QueueInv' /\ ThreadsOwn' /\ QueueOwns'
    BY DEF FiberExclusive, QueueInv, ThreadsOwn, QueueOwns, stateTermOrExcept
  <2>7. WaitingInv'
    BY <2>1 DEF WaitingInv, Current, OnFiber, Attached
  <2>. QED BY <2>2, <2>3, <2>4, <2>5, <2>6, <2>7
<1>2. CASE EnterRoot
  <2>. USE <1>2 DEF EnterRoot
  <2>1. Root \in Threads /\ pc[Root] = "none" /\ pc' = [pc EXCEPT ![Root] = "scan"]
    BY DEF CallerInv
  <2>2. CountersExact'
    BY <2>1, CountersStep DEF ActivePcs, IdlePcs, OnFiber
  <2>3. TypeOK' /\ CallerInv'
    BY <2>1 DEF Pcs, CallerInv
  <2>4. LocalsInv' /\ StatesInv'
    BY <2>1 DEF LocalsInv, StatesInv, Current, OnFiber, Attached
  <2>5. FiberExclusive' /\ QueueInv' /\ ThreadsOwn' /\ QueueOwns'
    BY DEF FiberExclusive, QueueInv, ThreadsOwn, QueueOwns, stateTermOrExcept
  <2>6. WaitingInv'
    BY <2>1 DEF WaitingInv, Current, OnFiber, Attached
  <2>. QED BY <2>2, <2>3, <2>4, <2>5, <2>6
<1>3. CASE Stop \/ StopAtOnce \/ SignalStop \/ SkipRoot \/ LeaveRoot \/ Join
  <2>. USE <1>3 DEF Stop, StopAtOnce, SignalStop, SkipRoot, LeaveRoot, Join
  <2>1. TypeOK' /\ CountersExact'
    BY DEF CountersExact, NumberAt
  <2>2. CallerInv'
    BY DEF CallerInv, Workers
  <2>3. LocalsInv' /\ StatesInv' /\ WaitingInv'
    BY DEF LocalsInv, StatesInv, WaitingInv, Current
  <2>4. FiberExclusive' /\ QueueInv' /\ ThreadsOwn' /\ QueueOwns'
    BY DEF FiberExclusive, QueueInv, ThreadsOwn, QueueOwns, stateTermOrExcept
  <2>. QED BY <2>1, <2>2, <2>3, <2>4
<1>. QED BY <1>1, <1>2, <1>3 DEF StopProceeds

(* The constructed scheduler satisfies the inductive invariant. *)
LEMMA InitIInv == Init => IInv
<1>. SUFFICES ASSUME Init PROVE IInv
  OBVIOUS
<1>. USE NullAssumption, ThreadsAssumption, ClientAssumption DEF Init, FiberInit
<1>1. TypeOK
  <2>1. NoTask \in Task /\ <<>> \in Seq(Task)
    BY DEF Task, NoTask
  <2>2. FiberTypeOK
    BY DEF FiberTypeOK
  <2>3. pc \in [Threads -> Pcs] /\ tk \in [Threads -> Task]
    BY <2>1 DEF Pcs
  <2>4. yields \in 0..MaxYields /\ starts \in 0..MaxStarts
    OBVIOUS
  <2>. QED BY <2>1, <2>2, <2>3, <2>4 DEF TypeOK
<1>2. CountersExact
  <2>1. /\ {t \in Threads : pc[t] \in ActivePcs} = {}
        /\ {t \in Threads : pc[t] \in IdlePcs} = {}
    BY DEF ActivePcs, IdlePcs, OnFiber
  <2>. QED BY <2>1, FS_EmptySet DEF CountersExact, NumberAt
<1>3. FiberExclusive /\ CallerInv
  BY DEF FiberExclusive, CallerInv
<1>4. OwnershipInv
  BY DEF OwnershipInv, LocalsInv, StatesInv, QueueInv, ThreadsOwn, QueueOwns,
       WaitingInv,
         Current, OnFiber, Attached, NoTask
<1>. QED BY <1>1, <1>2, <1>3, <1>4 DEF IInv

(* Every step of every thread and of the owner keeps it. *)
LEMMA NextIInv ==
  ASSUME IInv, ~WakeRunning, [Next]_vars
  PROVE  IInv'
<1>1. ASSUME NEW t \in Threads, User(t) PROVE IInv'
  <2>1. CASE UserSchedules(t)
    <3>1. PICK p \in Threads \cup {AnyThread} : Schedules(p)
      BY <2>1, ThreadsAssumption DEF UserSchedules
    <3>. QED BY <2>1, <3>1, SchedulesStep DEF UserSchedules
  <2>. QED BY <1>1, <2>1, UserArmsStep, PublishStep DEF User
<1>2. ASSUME NEW t \in Threads, run(t) PROVE IInv'
  BY <1>2, ControlStep, TakeTaskStep, DispatchFiberStep, DispatchCbStep, DropTaskStep,
     SwapOutStep, PostReadyStep, PostFinishedStep, PostHoldStep, ExitRunStep DEF run
<1>3. CASE CallerSchedules
  <2>1. PICK p \in Threads \cup {AnyThread} : Schedules(p)
    BY <1>3, ThreadsAssumption DEF CallerSchedules
  <2>. QED BY <1>3, <2>1, SchedulesStep DEF CallerSchedules
<1>4. CASE Start \/ Stop \/ StopProceeds
  BY <1>4, CallerStep
<1>5. CASE UNCHANGED vars
  BY <1>5 DEF vars, fiberVars, queueVars, stopVars, localVars, clientVars, IInv,
       OwnershipInv,
     TypeOK, FiberTypeOK, CountersExact, NumberAt, FiberExclusive, CallerInv, LocalsInv,
     StatesInv, QueueInv, ThreadsOwn, QueueOwns, WaitingInv, Current, stateTermOrExcept
<1>. QED BY <1>1, <1>2, <1>3, <1>4, <1>5 DEF Next, Finished

(* The invariant of the scheduler whose clients wake parked fibers only. *)
THEOREM Invariance ==
  ASSUME ~WakeRunning
  PROVE  Spec => []IInv
<1>1. IInv /\ [Next]_vars => IInv'
  BY NextIInv
<1>. QED BY <1>1, InitIInv, PTL DEF Spec

(* Every variable keeps its type: in particular the size_t counters never  *)
(* go below zero.                                                          *)
THEOREM TypeCorrect ==
  ASSUME ~WakeRunning
  PROVE  Spec => []TypeOK
<1>1. IInv => TypeOK
  BY DEF IInv
<1>. QED BY <1>1, Invariance, PTL

(* The active and idle counters are exact at every step of every thread. *)
THEOREM CountersAreExact ==
  ASSUME ~WakeRunning
  PROVE  Spec => []CountersExact
<1>1. IInv => CountersExact
  BY DEF IInv
<1>. QED BY <1>1, Invariance, PTL

(* No two threads are ever on the stack of the same fiber. *)
THEOREM Exclusion ==
  ASSUME ~WakeRunning
  PROVE  Spec => []FiberExclusive
<1>1. IInv => FiberExclusive
  BY DEF IInv
<1>. QED BY <1>1, Invariance, PTL

(* The asserts of YieldToReady() and YieldToHold() hold. *)
THEOREM YieldAsserts ==
  ASSUME ~WakeRunning
  PROVE  Spec => []RunningFiberIsExec
<1>1. IInv => RunningFiberIsExec
  BY DEF IInv, OwnershipInv, LocalsInv, StatesInv, RunningFiberIsExec, OnFiber
<1>. QED BY <1>1, Invariance, PTL

(* The asserts of swapIn(), reset() and ~Fiber() hold where run() uses     *)
(* them.                                                                   *)
THEOREM SwapInAsserts ==
  ASSUME ~WakeRunning
  PROVE  Spec => []SuspendedFiberStates
<1>1. IInv => SuspendedFiberStates
  BY DEF IInv, OwnershipInv, LocalsInv, StatesInv, SuspendedFiberStates, OnFiber,
       Attached,
         Resumable
<1>. QED BY <1>1, Invariance, PTL

=============================================================================
