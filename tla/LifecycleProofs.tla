-------------------------- MODULE LifecycleProofs --------------------------
(***************************************************************************)
(* Theorems about module Lifecycle, for every set of threads and of        *)
(* descriptors and every size of the table.                                *)
(***************************************************************************)
EXTENDS Lifecycle, TLAPS, SequenceTheorems

(* The Thread objects in m_threads are the ones that are alive, and run()  *)
(* has ended before the object of its thread is joined or deleted.         *)
ObjectsInv ==
  \A t \in Threads :
    /\ object[t] = "alive" <=> \E i \in DOMAIN m_threads : m_threads[i] = t
    /\ object[t] = "none" <=> run[t] = "none"
    /\ object[t] = "deleted" => run[t] = "ended"
    /\ m_thread[t] => object[t] = "alive"
    /\ object[t] = "alive" /\ ~m_thread[t] => run[t] = "ended"

(* A thread that has notified has stored its id. *)
NotifyInv ==
  \A t \in Threads :
    /\ run[t] \in {"named", "callback", "ended"} => m_id[t] = t
    /\ m_semaphore[t] > 0 => run[t] \in {"callback", "ended"}

(* m_threadIds lags behind m_threads only while start() waits. *)
OwnerInv ==
  /\ owner \in {"construct", "start", "up", "stop"} => m_threadIds = m_threads
  /\ owner = "wait" => /\ m_threadIds \in Seq(Threads)
                       /\ \E t \in Threads : m_threads = Append(m_threadIds, t)
  /\ owner \in {"construct", "delete", "gone"} => m_threads = <<>>
  /\ owner # "gone" => deleted = {}

(* The table holds a context for just the descriptors below its size. *)
TableInv ==
  /\ owner = "construct" => m_size = 0
  /\ owner # "construct" => m_size >= InitSize
  /\ \A fd \in Fds : table[fd] # 0 <=> fd < m_size

(* What a call remembers: a context that it took out of the table is still *)
(* there, or was cut off; without one the descriptor was beyond the table. *)
CallInv ==
  \A t \in Threads :
    /\ call[t].op = "none" => call[t] = NoCall
    /\ call[t] # NoCall => run[t] = "callback" /\ call[t].fd \in Fds
    /\ call[t].op = "addEvent" =>
         IF call[t].ctx = 0 THEN InitSize <= call[t].seen /\ call[t].seen <= call[t].fd
                            ELSE table[call[t].fd] = call[t].ctx \/ call[t].fd \in dropped
    /\ call[t].op \in {"cancelAll", "idle"} => call[t].ctx # 0

(* epoll's set and the contexts with an event agree. *)
EpollInv ==
  \A fd \in Fds, n \in 1..MaxContexts : <<fd, n>> \in registered <=> epoll[fd] = n

IInv ==
  /\ TypeOK /\ ObjectsInv /\ NotifyInv /\ OwnerInv
  /\ TableInv /\ CallInv /\ EpollInv /\ RegisteredReachable

-----------------------------------------------------------------------------

(* Growing by half makes room for the descriptor. *)
LEMMA HalfMore == \A n \in Nat : n >= 2 => (n * 3) \div 2 \in Nat /\ n < (n * 3) \div 2
OBVIOUS

(* A thread's call changes. *)
LEMMA CallStep ==
  ASSUME TypeOK, NEW t \in Threads, NEW c \in Calls, call' = [call EXCEPT ![t] = c]
  PROVE  /\ call' \in [Callers -> Calls]
         /\ \A u \in Threads : call'[u] = IF u = t THEN c ELSE call[u]
BY LifecycleAssumption DEF TypeOK, FdTableTypeOK

(* A thread that is in no call. *)
LEMMA NoCallTyped == NoCall \in Calls
BY FdTableAssumption DEF NoCall, Calls

(* The invariant holds before the constructor runs. *)
LEMMA InitIInv == Init => IInv
<1>. SUFFICES ASSUME Init PROVE IInv
  OBVIOUS
<1>. USE LifecycleAssumption, FdTableAssumption DEF Init, ThreadInit, FdTableInit
<1>1. TypeOK
  BY NoCallTyped DEF TypeOK, ThreadTypeOK, FdTableTypeOK
<1>2. ObjectsInv /\ NotifyInv /\ OwnerInv
  BY DEF ObjectsInv, NotifyInv, OwnerInv
<1>3. TableInv /\ CallInv /\ EpollInv /\ RegisteredReachable
  BY DEF TableInv, CallInv, EpollInv, RegisteredReachable, NoCall
<1>. QED BY <1>1, <1>2, <1>3 DEF IInv

(* What growing the table to size does: a context for every descriptor     *)
(* below size, the old one where there was one.                            *)
LEMMA ResizeFacts ==
  ASSUME TypeOK, NEW size \in Nat, ContextResize(size)
  PROVE  /\ m_size' = size
         /\ made' \in [Fds -> 0..MaxContexts] /\ table' \in [Fds -> 0..MaxContexts]
         /\ \A fd \in Fds : table'[fd] # 0 <=> fd < size
         /\ \A fd \in Fds : fd < size /\ table[fd] # 0 => table'[fd] = table[fd]
<1>. USE FdTableAssumption DEF TypeOK, FdTableTypeOK, ContextResize, Kept
<1>1. \A fd \in Fds : made'[fd] \in Nat /\ (fd < size /\ table[fd] = 0 => made'[fd] > 0)
  OBVIOUS
<1>2. made' \in [Fds -> 0..MaxContexts]
  BY <1>1
<1>3. \A fd \in Fds : table'[fd] = IF fd >= size THEN 0
                                   ELSE IF table[fd] # 0 THEN table[fd] ELSE made'[fd]
  BY <1>1
<1>4. \A fd \in Fds : fd \in Nat /\ table[fd] \in 0..MaxContexts /\ made'[fd] \in 0..MaxContexts
  BY <1>2
<1>5. DOMAIN table' = Fds /\ table' = [fd \in Fds |-> table'[fd]]
  OBVIOUS
<1>. HIDE DEF ContextResize
<1>6. \A fd \in Fds : table'[fd] \in 0..MaxContexts
  BY <1>3, <1>4
<1>7. table' \in [Fds -> 0..MaxContexts]
  BY <1>5, <1>6
<1>8. m_size' = size
  BY DEF ContextResize
<1>. HIDE DEF TypeOK, FdTableTypeOK, Kept
<1>9. \A fd \in Fds : table'[fd] # 0 <=> fd < size
  BY <1>1, <1>3, <1>4
<1>10. \A fd \in Fds : fd < size /\ table[fd] # 0 => table'[fd] = table[fd]
  BY <1>3, <1>4
<1>. QED BY <1>2, <1>7, <1>8, <1>9, <1>10

(* The constructor. *)
LEMMA ConstructStep ==
  ASSUME IInv, Construct
  PROVE  IInv'
<1>. USE LifecycleAssumption, FdTableAssumption DEF IInv, Construct
<1>0. /\ m_size' = InitSize
      /\ made' \in [Fds -> 0..MaxContexts] /\ table' \in [Fds -> 0..MaxContexts]
      /\ \A fd \in Fds : table'[fd] # 0 <=> fd < InitSize
  BY ResizeFacts
<1>1. TypeOK'
  BY <1>0 DEF TypeOK, ThreadTypeOK, FdTableTypeOK, threadVars, objectVars
<1>2. ObjectsInv' /\ NotifyInv' /\ OwnerInv'
  BY DEF ObjectsInv, NotifyInv, OwnerInv, threadVars, objectVars
<1>3. TableInv' /\ EpollInv'
  BY <1>0 DEF TableInv, EpollInv
<1>4. \A t \in Threads : run[t] # "callback"
  BY DEF OwnerInv, ObjectsInv, TypeOK, ThreadTypeOK
<1>5. CallInv'
  BY <1>4 DEF CallInv, NoCall, threadVars
<1>6. RegisteredReachable'
  <2>1. \A c \in registered : c[1] \in Fds /\ c[2] # 0
    BY DEF TypeOK, FdTableTypeOK
  <2>2. \A fd \in Fds : table[fd] = 0
    BY DEF TableInv
  <2>. QED BY <2>1, <2>2 DEF RegisteredReachable
<1>. QED BY <1>1, <1>2, <1>3, <1>5, <1>6

(* The steps of the threads and of their owner that leave the table alone  *)
(* and take no thread out of run() keep what is said of the table.         *)
LEMMA TableKept ==
  ASSUME IInv, UNCHANGED fdTableVars, owner # "construct", owner' # "construct",
         \A t \in Threads : run[t] = "callback" /\ call[t] # NoCall => run'[t] = "callback"
  PROVE  FdTableTypeOK' /\ TableInv' /\ CallInv' /\ EpollInv' /\ RegisteredReachable'
<1>. USE DEF IInv, fdTableVars, tableVars
<1>1. FdTableTypeOK' /\ TableInv' /\ EpollInv' /\ RegisteredReachable'
  BY DEF TypeOK, FdTableTypeOK, TableInv, EpollInv, RegisteredReachable
<1>2. CallInv'
  BY DEF CallInv
<1>. QED BY <1>1, <1>2

(* start() makes a thread. *)
LEMMA StartThreadStep ==
  ASSUME IInv, StartThread
  PROVE  IInv'
<1>. PICK u \in Threads : Create(u) /\ m_threads' = Append(m_threads, u)
  BY DEF StartThread
<1>. USE DEF IInv, StartThread, Create
<1>0. /\ m_threads' \in Seq(Threads) /\ Len(m_threads) \in Nat
      /\ DOMAIN m_threads = 1..Len(m_threads) /\ DOMAIN m_threads' = 1..(Len(m_threads) + 1)
      /\ \A i \in 1..Len(m_threads) : m_threads'[i] = m_threads[i]
      /\ m_threads'[Len(m_threads) + 1] = u
  BY DEF TypeOK
<1>1. FdTableTypeOK' /\ TableInv' /\ CallInv' /\ EpollInv' /\ RegisteredReachable'
  <2>1. \A t \in Threads : run[t] = "callback" => run'[t] = "callback"
    BY DEF ObjectsInv, TypeOK, ThreadTypeOK
  <2>. QED BY <2>1, TableKept
<1>2. TypeOK'
  BY <1>0, <1>1 DEF TypeOK, ThreadTypeOK
<1>3. ObjectsInv'
  <2>1. \A t \in Threads : (\E i \in DOMAIN m_threads' : m_threads'[i] = t)
                           <=> t = u \/ \E i \in DOMAIN m_threads : m_threads[i] = t
    BY <1>0
  <2>. QED BY <2>1 DEF ObjectsInv, TypeOK, ThreadTypeOK
<1>4. NotifyInv'
  BY DEF NotifyInv, ObjectsInv, TypeOK, ThreadTypeOK
<1>5. OwnerInv'
  BY DEF OwnerInv, TypeOK, fdTableVars
<1>. QED BY <1>1, <1>2, <1>3, <1>4, <1>5

(* start() has waited for the thread that it made last. *)
LEMMA ThreadStartedStep ==
  ASSUME IInv, ThreadStarted
  PROVE  IInv'
<1>. DEFINE u == Last(m_threads)
<1>. USE DEF IInv
<1>0. u \in Threads /\ m_threadIds \in Seq(Threads) /\ m_threads = Append(m_threadIds, u)
  BY DEF OwnerInv, Last, ThreadStarted
<1>1. /\ owner = "wait" /\ owner' \in {"up", "start"}
      /\ m_semaphore[u] > 0 /\ m_semaphore' = [m_semaphore EXCEPT ![u] = @ - 1]
      /\ m_threadIds' = Append(m_threadIds, m_id[u])
      /\ UNCHANGED <<object, m_id, m_thread, run, fdTableVars, m_threads, m_stopping>>
  BY DEF ThreadStarted, Wait
<1>. HIDE DEF u
<1>2. m_id[u] = u
  BY <1>0, <1>1 DEF NotifyInv
<1>3. FdTableTypeOK' /\ TableInv' /\ CallInv' /\ EpollInv' /\ RegisteredReachable'
  BY TableKept, <1>1
<1>4. TypeOK'
  <2>1. m_threadIds' \in Seq(Threads \cup {None})
    BY <1>0, <1>1, <1>2 DEF TypeOK
  <2>2. m_semaphore' \in [Threads -> 0..1]
    BY <1>0, <1>1 DEF TypeOK, ThreadTypeOK
  <2>. QED BY <1>1, <1>3, <2>1, <2>2 DEF TypeOK, ThreadTypeOK
<1>5. ObjectsInv'
  BY <1>1 DEF ObjectsInv
<1>6. NotifyInv'
  BY <1>0, <1>1 DEF NotifyInv, TypeOK, ThreadTypeOK
<1>7. OwnerInv'
  BY <1>0, <1>1, <1>2 DEF OwnerInv, fdTableVars
<1>. QED BY <1>3, <1>4, <1>5, <1>6, <1>7

(* stop() *)
LEMMA StopStep ==
  ASSUME IInv, Stop
  PROVE  IInv'
<1>. USE DEF IInv, Stop, threadVars, objectVars
<1>1. FdTableTypeOK' /\ TableInv' /\ CallInv' /\ EpollInv' /\ RegisteredReachable'
  BY TableKept
<1>2. TypeOK'
  BY <1>1 DEF TypeOK, ThreadTypeOK
<1>3. ObjectsInv' /\ NotifyInv' /\ OwnerInv'
  BY DEF ObjectsInv, NotifyInv, OwnerInv, fdTableVars
<1>. QED BY <1>1, <1>2, <1>3

(* stop() joins a thread. *)
LEMMA JoinThreadStep ==
  ASSUME IInv, JoinThread
  PROVE  IInv'
<1>. PICK i \in DOMAIN m_threads : Join(m_threads[i])
  BY DEF JoinThread
<1>. USE DEF IInv, JoinThread, Join, ownerVars
<1>1. FdTableTypeOK' /\ TableInv' /\ CallInv' /\ EpollInv' /\ RegisteredReachable'
  BY TableKept
<1>2. TypeOK'
  BY <1>1 DEF TypeOK, ThreadTypeOK
<1>3. ObjectsInv'
  BY DEF ObjectsInv, TypeOK, ThreadTypeOK
<1>4. NotifyInv' /\ OwnerInv'
  BY DEF NotifyInv, OwnerInv, fdTableVars
<1>. QED BY <1>1, <1>2, <1>3, <1>4

(* The joined threads' objects go. *)
LEMMA JoinedStep ==
  ASSUME IInv, Joined
  PROVE  IInv'
<1>. USE DEF IInv, Joined, Destroy
<1>0. \A t \in Threads : t \in ToSet(m_threads) <=> object[t] = "alive"
  BY DEF ObjectsInv, ToSet
<1>1. FdTableTypeOK' /\ TableInv' /\ CallInv' /\ EpollInv' /\ RegisteredReachable'
  BY TableKept
<1>2. TypeOK'
  BY <1>1 DEF TypeOK, ThreadTypeOK
<1>3. ObjectsInv'
  <2>1. DOMAIN m_threads' = {}
    OBVIOUS
  <2>. QED BY <1>0, <2>1 DEF ObjectsInv, TypeOK, ThreadTypeOK
<1>4. NotifyInv' /\ OwnerInv'
  BY DEF NotifyInv, OwnerInv, fdTableVars
<1>. QED BY <1>1, <1>2, <1>3, <1>4

(* The contexts go. *)
LEMMA DeleteStep ==
  ASSUME IInv, Delete
  PROVE  IInv'
<1>1. \A fd \in Fds : table[fd] # 0 => table[fd] \in 1..MaxContexts
  BY FdTableAssumption DEF IInv, TypeOK, FdTableTypeOK
<1>. USE DEF IInv, Delete, DeleteContexts, threadVars, objectVars, tableVars
<1>2. TypeOK'
  <2>1. ASSUME NEW c \in deleted' PROVE c \in Fds \X (1..MaxContexts)
    <3>. PICK fd \in {f \in Fds : table[f] # 0} : c = <<fd, table[fd]>>
      OBVIOUS
    <3>. QED BY <1>1
  <2>. QED BY <2>1 DEF TypeOK, ThreadTypeOK, FdTableTypeOK
<1>3. ObjectsInv' /\ NotifyInv' /\ OwnerInv'
  BY DEF ObjectsInv, NotifyInv, OwnerInv
<1>4. TableInv' /\ CallInv' /\ EpollInv' /\ RegisteredReachable'
  BY DEF TableInv, CallInv, EpollInv, RegisteredReachable
<1>. QED BY <1>2, <1>3, <1>4

(* run() up to the callback. *)
LEMMA BeginRunStep ==
  ASSUME IInv, NEW t \in Threads, BeginRun(t)
  PROVE  IInv'
<1>. USE DEF IInv, BeginRun, Name, Notify, ownerVars
<1>0. object[t] = "alive" /\ owner # "construct"
  BY DEF ObjectsInv, OwnerInv, TypeOK, ThreadTypeOK
<1>1. FdTableTypeOK' /\ TableInv' /\ CallInv' /\ EpollInv' /\ RegisteredReachable'
  <2>1. \A u \in Threads : run[u] = "callback" => run'[u] = "callback"
    BY DEF TypeOK, ThreadTypeOK
  <2>. QED BY <1>0, <2>1, TableKept
<1>2. TypeOK'
  <2>1. CASE Name(t)
    BY <1>1, <2>1 DEF TypeOK, ThreadTypeOK
  <2>2. CASE Notify(t)
    <3>1. m_semaphore[t] = 0
      <4>1. m_semaphore[t] \in 0..1 /\ run[t] = "named"
        BY <2>2 DEF TypeOK, ThreadTypeOK
      <4>. QED BY <4>1 DEF NotifyInv
    <3>. QED BY <1>1, <2>2, <3>1 DEF TypeOK, ThreadTypeOK
  <2>. QED BY <2>1, <2>2
<1>3. ObjectsInv'
  BY <1>0 DEF ObjectsInv, TypeOK, ThreadTypeOK
<1>4. NotifyInv'
  BY DEF NotifyInv, TypeOK, ThreadTypeOK
<1>5. OwnerInv'
  BY DEF OwnerInv, fdTableVars
<1>. QED BY <1>1, <1>2, <1>3, <1>4, <1>5

(* run() returns. *)
LEMMA LeaveStep ==
  ASSUME IInv, NEW t \in Threads, Leave(t)
  PROVE  IInv'
<1>. USE DEF IInv, Leave, Return, ownerVars, objectVars
<1>0. object[t] = "alive" /\ owner # "construct"
  BY DEF ObjectsInv, OwnerInv, TypeOK, ThreadTypeOK
<1>1. FdTableTypeOK' /\ TableInv' /\ CallInv' /\ EpollInv' /\ RegisteredReachable'
  BY <1>0, TableKept
<1>2. TypeOK'
  BY <1>1 DEF TypeOK, ThreadTypeOK
<1>3. ObjectsInv'
  BY <1>0 DEF ObjectsInv, TypeOK, ThreadTypeOK
<1>4. NotifyInv' /\ OwnerInv'
  BY DEF NotifyInv, OwnerInv, TypeOK, ThreadTypeOK, fdTableVars
<1>. QED BY <1>1, <1>2, <1>3, <1>4

(* A thread that makes a call is in its callback, and the table is there. *)
LEMMA WorkFrame ==
  ASSUME IInv, NEW t \in Threads, Work(t)
  PROVE  /\ run[t] = "callback" /\ owner # "construct" /\ owner # "gone"
         /\ UNCHANGED <<threadVars, ownerVars>>
         /\ ThreadTypeOK' /\ ObjectsInv' /\ NotifyInv'
<1>. USE DEF IInv, Work, InRun, threadVars, objectVars, ownerVars
<1>1. object[t] = "alive"
  BY DEF ObjectsInv, TypeOK, ThreadTypeOK
<1>2. owner # "construct" /\ owner # "gone"
  BY <1>1 DEF ObjectsInv, OwnerInv
<1>3. ThreadTypeOK' /\ ObjectsInv' /\ NotifyInv'
  BY DEF ObjectsInv, NotifyInv, TypeOK, ThreadTypeOK
<1>. QED BY <1>2, <1>3

(* The look-up under the read lock. *)
LEMMA LookUpStep ==
  ASSUME IInv, NEW t \in Threads, Work(t), NEW fd \in Fds, NEW op, LookUp(t, op, fd)
  PROVE  IInv'
<1>. DEFINE c == [op |-> op, fd |-> fd, seen |-> m_size, ctx |-> IF fd < m_size THEN table[fd] ELSE 0]
<1>. USE LifecycleAssumption, FdTableAssumption, WorkFrame
      DEF IInv, LookUp, threadVars, ownerVars, tableVars
<1>1. c \in Calls
  BY DEF TypeOK, FdTableTypeOK, Calls
<1>2. call' \in [Callers -> Calls] /\ \A u \in Threads : call'[u] = IF u = t THEN c ELSE call[u]
  BY <1>1, CallStep
<1>3. TypeOK'
  BY <1>2 DEF TypeOK, FdTableTypeOK
<1>4. OwnerInv' /\ TableInv' /\ EpollInv' /\ RegisteredReachable'
  BY DEF OwnerInv, TableInv, EpollInv, RegisteredReachable
<1>5. CallInv'
  <2>1. fd \in Nat /\ m_size \in Nat /\ (table[fd] # 0 <=> fd < m_size) /\ InitSize <= m_size
    BY DEF TypeOK, FdTableTypeOK, TableInv
  <2>. QED BY <1>2, <2>1 DEF CallInv, NoCall
<1>. QED BY <1>3, <1>4, <1>5

(* addEvent() makes the table larger, or smaller. *)
LEMMA GrowStep ==
  ASSUME IInv, NEW t \in Threads, Work(t), Grow(t)
  PROVE  IInv'
<1>. DEFINE fd == call[t].fd
            size == (fd * 3) \div 2
            c == [call[t] EXCEPT !.ctx = table'[fd]]
<1>. USE LifecycleAssumption, FdTableAssumption, WorkFrame DEF IInv
<1>0. call[t].op = "addEvent" /\ call[t].ctx = 0 /\ call[t] # NoCall /\ call[t] \in Calls
  BY DEF Grow, NoCall, TypeOK, FdTableTypeOK
<1>1. fd \in Fds /\ fd \in Nat /\ InitSize <= call[t].seen /\ call[t].seen <= fd /\ call[t].seen \in Nat
  BY <1>0 DEF CallInv, Calls
<1>2. size \in Nat /\ fd < size /\ InitSize <= size
  BY <1>1, HalfMore
<1>3. /\ ContextResize(size) /\ call' = [call EXCEPT ![t] = c]
      /\ dropped' = dropped \cup {f \in Fds : m_size # call[t].seen /\ size <= f /\ f < m_size}
      /\ UNCHANGED <<registered, epoll, deleted>>
  BY DEF Grow
<1>. HIDE DEF size
<1>4. /\ m_size' = size
      /\ made' \in [Fds -> 0..MaxContexts] /\ table' \in [Fds -> 0..MaxContexts]
      /\ \A f \in Fds : table'[f] # 0 <=> f < size
      /\ \A f \in Fds : f < size /\ table[f] # 0 => table'[f] = table[f]
  BY <1>2, <1>3, ResizeFacts
<1>5. /\ c \in Calls /\ c.op = "addEvent" /\ c.fd = fd /\ c.ctx = table'[fd] /\ c.ctx # 0
  BY <1>0, <1>1, <1>2, <1>4 DEF Calls
<1>. HIDE DEF fd, c
<1>6. call' \in [Callers -> Calls] /\ \A u \in Threads : call'[u] = IF u = t THEN c ELSE call[u]
  BY <1>3, <1>5, CallStep
(* An entry is cut off only where the size was stale. *)
<1>7. ASSUME NEW f \in Fds, table[f] # 0
      PROVE  table'[f] = table[f] \/ f \in dropped'
  <2>1. f \in Nat /\ f < m_size /\ m_size \in Nat
    BY <1>7 DEF TableInv, TypeOK, FdTableTypeOK
  <2>2. CASE f < size
    BY <1>4, <1>7, <2>2
  <2>3. CASE size <= f
    BY <1>1, <1>2, <1>3, <2>1, <2>3
  <2>. QED BY <1>2, <2>1, <2>2, <2>3
<1>8. TypeOK'
  BY <1>2, <1>3, <1>4, <1>6 DEF TypeOK, FdTableTypeOK, ownerVars
<1>9. OwnerInv' /\ TableInv' /\ EpollInv'
  BY <1>2, <1>3, <1>4 DEF OwnerInv, TableInv, EpollInv, ownerVars
<1>10. RegisteredReachable'
  <2>1. \A x \in registered : x[1] \in Fds /\ x[2] # 0
    BY DEF TypeOK, FdTableTypeOK
  <2>. QED BY <1>3, <1>7, <2>1 DEF RegisteredReachable
<1>11. CallInv'
  <2>1. ASSUME NEW u \in Threads, u # t PROVE CallInv!(u)'
    <3>1. CallInv!(u)
      BY DEF CallInv
    <3>2. call'[u] = call[u] /\ run'[u] = run[u]
      BY <1>6, <2>1 DEF threadVars
    <3>3. ASSUME call[u].op = "addEvent", call[u].ctx # 0
          PROVE  table'[call[u].fd] = call[u].ctx \/ call[u].fd \in dropped'
      <4>1. call[u].fd \in Fds /\ (table[call[u].fd] = call[u].ctx \/ call[u].fd \in dropped)
        BY <3>1, <3>3 DEF NoCall
      <4>2. CASE call[u].fd \in dropped
        BY <1>3, <4>2
      <4>3. CASE table[call[u].fd] = call[u].ctx
        BY <1>7, <3>3, <4>1, <4>3
      <4>. QED BY <4>1, <4>2, <4>3
    <3>. QED BY <3>1, <3>2, <3>3
  <2>2. CallInv!(t)'
    BY <1>1, <1>5, <1>6 DEF threadVars, NoCall
  <2>. QED BY <2>1, <2>2 DEF CallInv
<1>. QED BY <1>8, <1>9, <1>10, <1>11

(* addEvent() registers the event, unless epoll has the descriptor. *)
LEMMA AddEventStep ==
  ASSUME IInv, NEW t \in Threads, Work(t), AddEvent(t)
  PROVE  IInv'
<1>. DEFINE fd == call[t].fd
            ctx == call[t].ctx
<1>. USE LifecycleAssumption, FdTableAssumption, WorkFrame
      DEF IInv, AddEvent, threadVars, ownerVars, tableVars
<1>0. fd \in Fds /\ ctx \in 1..MaxContexts /\ (table[fd] = ctx \/ fd \in dropped)
  BY DEF CallInv, NoCall, TypeOK, FdTableTypeOK, Calls
<1>1. call' \in [Callers -> Calls] /\ \A u \in Threads : call'[u] = IF u = t THEN NoCall ELSE call[u]
  BY NoCallTyped, CallStep
<1>2. CASE Adds(fd)
  <2>1. registered' = registered \cup {<<fd, ctx>>} /\ epoll' = [epoll EXCEPT ![fd] = ctx]
    <3>1. Context(t) = <<fd, ctx>>
      BY DEF Context
    <3>. QED BY <1>2, <3>1
  <2>. HIDE DEF fd, ctx
  <2>2. epoll' \in [Fds -> 0..MaxContexts] /\ registered' \subseteq Fds \X (1..MaxContexts)
    <3>1. epoll \in [Fds -> 0..MaxContexts] /\ registered \subseteq Fds \X (1..MaxContexts)
      BY DEF TypeOK, FdTableTypeOK
    <3>2. ctx \in 0..MaxContexts
      BY <1>0
    <3>. QED BY <1>0, <2>1, <3>1, <3>2
  <2>3. TypeOK'
    BY <1>1, <2>2 DEF TypeOK, FdTableTypeOK
  <2>4. EpollInv'
    <3>1. epoll[fd] = 0 /\ ctx # 0 /\ \A f \in Fds : epoll'[f] = IF f = fd THEN ctx ELSE epoll[f]
      BY <1>0, <1>2, <2>1 DEF Adds, TypeOK, FdTableTypeOK
    <3>2. ASSUME NEW f \in Fds, NEW n \in 1..MaxContexts
          PROVE  <<f, n>> \in registered' <=> epoll'[f] = n
      <4>1. <<f, n>> \in registered <=> epoll[f] = n
        BY DEF EpollInv
      <4>2. CASE f = fd
        BY <1>0, <2>1, <3>1, <4>1, <4>2
      <4>3. CASE f # fd
        BY <2>1, <3>1, <4>1, <4>3
      <4>. QED BY <4>2, <4>3
    <3>. QED BY <3>2 DEF EpollInv
  <2>5. RegisteredReachable'
    BY <1>0, <2>1 DEF RegisteredReachable
  <2>6. OwnerInv' /\ TableInv' /\ CallInv'
    BY <1>1 DEF OwnerInv, TableInv, CallInv, NoCall
  <2>. QED BY <2>3, <2>4, <2>5, <2>6
<1>3. CASE ~Adds(fd)
  <2>1. UNCHANGED <<registered, epoll>>
    BY <1>3
  <2>2. TypeOK'
    BY <1>1, <2>1 DEF TypeOK, FdTableTypeOK
  <2>3. OwnerInv' /\ TableInv' /\ CallInv' /\ EpollInv' /\ RegisteredReachable'
    BY <1>1, <2>1 DEF OwnerInv, TableInv, CallInv, EpollInv, RegisteredReachable, NoCall
  <2>. QED BY <2>2, <2>3
<1>. QED BY <1>2, <1>3

(* epoll reports a descriptor. *)
LEMMA ReportStep ==
  ASSUME IInv, NEW t \in Threads, Work(t), NEW fd \in Fds, Report(t, fd)
  PROVE  IInv'
<1>. DEFINE c == [op |-> "idle", fd |-> fd, seen |-> 0, ctx |-> epoll[fd]]
<1>. USE LifecycleAssumption, FdTableAssumption, WorkFrame
      DEF IInv, Report, threadVars, ownerVars, tableVars
<1>1. c \in Calls
  BY DEF TypeOK, FdTableTypeOK, Calls
<1>2. call' \in [Callers -> Calls] /\ \A u \in Threads : call'[u] = IF u = t THEN c ELSE call[u]
  BY <1>1, CallStep
<1>3. TypeOK'
  BY <1>2 DEF TypeOK, FdTableTypeOK
<1>4. OwnerInv' /\ TableInv' /\ EpollInv' /\ RegisteredReachable'
  BY DEF OwnerInv, TableInv, EpollInv, RegisteredReachable
<1>5. CallInv'
  BY <1>2 DEF CallInv, NoCall
<1>. QED BY <1>3, <1>4, <1>5

(* cancelAll() and idle() take the event away. *)
LEMMA TriggerStep ==
  ASSUME IInv, NEW t \in Threads, Work(t), Trigger(t)
  PROVE  IInv'
<1>. DEFINE fd == call[t].fd
            ctx == call[t].ctx
<1>. USE LifecycleAssumption, FdTableAssumption, WorkFrame
      DEF IInv, Trigger, threadVars, ownerVars, tableVars
<1>0. fd \in Fds /\ ctx \in 1..MaxContexts
  BY DEF CallInv, NoCall, TypeOK, FdTableTypeOK, Calls
<1>1. call' \in [Callers -> Calls] /\ \A u \in Threads : call'[u] = IF u = t THEN NoCall ELSE call[u]
  BY NoCallTyped, CallStep
<1>2. CASE Context(t) \in registered
  <2>1. /\ <<fd, ctx>> \in registered /\ registered' = registered \ {<<fd, ctx>>}
        /\ epoll' = [epoll EXCEPT ![fd] = 0]
    BY <1>2 DEF Context
  <2>. HIDE DEF fd, ctx
  <2>2. epoll' \in [Fds -> 0..MaxContexts] /\ registered' \subseteq Fds \X (1..MaxContexts)
    BY <1>0, <2>1 DEF TypeOK, FdTableTypeOK
  <2>3. TypeOK'
    BY <1>1, <2>2 DEF TypeOK, FdTableTypeOK
  <2>4. EpollInv'
    <3>1. epoll[fd] = ctx /\ \A f \in Fds : epoll'[f] = IF f = fd THEN 0 ELSE epoll[f]
      BY <1>0, <2>1 DEF EpollInv, TypeOK, FdTableTypeOK
    <3>2. ASSUME NEW f \in Fds, NEW n \in 1..MaxContexts
          PROVE  <<f, n>> \in registered' <=> epoll'[f] = n
      <4>1. <<f, n>> \in registered <=> epoll[f] = n
        BY DEF EpollInv
      <4>2. CASE f = fd
        BY <1>0, <2>1, <3>1, <4>1, <4>2
      <4>3. CASE f # fd
        BY <2>1, <3>1, <4>1, <4>3
      <4>. QED BY <4>2, <4>3
    <3>. QED BY <3>2 DEF EpollInv
  <2>5. RegisteredReachable'
    BY <2>1 DEF RegisteredReachable
  <2>6. OwnerInv' /\ TableInv' /\ CallInv'
    BY <1>1 DEF OwnerInv, TableInv, CallInv, NoCall
  <2>. QED BY <2>3, <2>4, <2>5, <2>6
<1>3. CASE Context(t) \notin registered
  <2>1. UNCHANGED <<registered, epoll>>
    BY <1>3
  <2>2. TypeOK'
    BY <1>1, <2>1 DEF TypeOK, FdTableTypeOK
  <2>3. OwnerInv' /\ TableInv' /\ CallInv' /\ EpollInv' /\ RegisteredReachable'
    BY <1>1, <2>1 DEF OwnerInv, TableInv, CallInv, EpollInv, RegisteredReachable, NoCall
  <2>. QED BY <2>2, <2>3
<1>. QED BY <1>2, <1>3

(* A step of a thread in a call. *)
LEMMA WorkStep ==
  ASSUME IInv, NEW t \in Threads, Work(t)
  PROVE  IInv'
<1>1. CASE \E fd \in Fds : LookUp(t, "addEvent", fd) \/ LookUp(t, "cancelAll", fd) \/ Report(t, fd)
  BY <1>1, LookUpStep, ReportStep
<1>2. CASE Grow(t) \/ AddEvent(t) \/ Trigger(t)
  BY <1>2, GrowStep, AddEventStep, TriggerStep
<1>. QED BY <1>1, <1>2 DEF Work, Caller

(* Steps of the rest of the program. *)
LEMMA StutterStep ==
  ASSUME IInv, UNCHANGED vars
  PROVE  IInv'
<1>. USE DEF IInv, vars, threadVars, objectVars, fdTableVars, tableVars, ownerVars
<1>1. TypeOK' /\ ObjectsInv' /\ NotifyInv' /\ OwnerInv'
  BY DEF TypeOK, ThreadTypeOK, FdTableTypeOK, ObjectsInv, NotifyInv, OwnerInv
<1>2. TableInv' /\ CallInv' /\ EpollInv' /\ RegisteredReachable'
  BY DEF TableInv, CallInv, EpollInv, RegisteredReachable
<1>. QED BY <1>1, <1>2

(* The invariant is inductive, and so it holds in every reachable state. *)
THEOREM LifecycleInvariant == Spec => []IInv
<1>1. IInv /\ [Next]_vars => IInv'
  BY ConstructStep, StartThreadStep, ThreadStartedStep, StopStep, JoinThreadStep, JoinedStep,
     DeleteStep, BeginRunStep, WorkStep, LeaveStep, StutterStep DEF Next
<1>. QED BY <1>1, InitIInv, PTL DEF Spec

(* The type invariant. *)
THEOREM TypeCorrect == Spec => []TypeOK
<1>1. IInv => TypeOK
  BY DEF IInv
<1>. QED BY <1>1, LifecycleInvariant, PTL

(* However the threads are scheduled, start() finds the id of each thread  *)
(* in its object: the constructor's wait on the semaphore is enough.       *)
THEOREM IdsStored == Spec => []IdsKnown
<1>1. IInv => IdsKnown
  BY DEF IInv, OwnerInv, IdsKnown
<1>. QED BY <1>1, LifecycleInvariant, PTL

(* Joining the threads before the objects and the contexts go is enough:   *)
(* none is used after it was deleted.                                      *)
THEOREM ObjectsOutlive == Spec => []NoUseAfterDelete
<1>1. ASSUME IInv PROVE NoUseAfterDelete
  <2>. SUFFICES ASSUME NEW t \in Threads
                PROVE  /\ UsesObject(t) => object[t] = "alive"
                       /\ call[t].ctx # 0 => Context(t) \notin deleted
    BY DEF NoUseAfterDelete
  <2>. USE <1>1 DEF IInv
  <2>1. UsesObject(t) => object[t] = "alive"
    BY DEF UsesObject, ObjectsInv, TypeOK, ThreadTypeOK
  <2>2. call[t].ctx # 0 => run[t] = "callback"
    BY DEF CallInv, NoCall
  <2>3. run[t] = "callback" => owner # "gone"
    BY <2>1 DEF UsesObject, ObjectsInv, OwnerInv
  <2>. QED BY <2>1, <2>2, <2>3 DEF OwnerInv
<1>. QED BY <1>1, LifecycleInvariant, PTL

(* Whatever the sizes and the descriptors, only a growth that chose its    *)
(* size before another one hides a context that has an event.              *)
THEOREM ContextsReachable == Spec => []RegisteredReachable
<1>1. IInv => RegisteredReachable
  BY DEF IInv
<1>. QED BY <1>1, LifecycleInvariant, PTL

(* A descriptor has events in one context only, epoll's. *)
THEOREM ContextsUnique == Spec => []OneContextPerFd
<1>1. ASSUME IInv PROVE OneContextPerFd
  <2>. USE <1>1 DEF IInv
  <2>1. ASSUME NEW fd \in Fds
        PROVE  {c \in registered : c[1] = fd} = {<<fd, epoll[fd]>>} \ {<<fd, 0>>}
    <3>1. \A c \in registered : c[1] \in Fds /\ c[2] \in 1..MaxContexts /\ c = <<c[1], c[2]>>
      BY DEF TypeOK, FdTableTypeOK
    <3>2. epoll[fd] = 0 \/ epoll[fd] \in 1..MaxContexts
      BY FdTableAssumption DEF TypeOK, FdTableTypeOK
    <3>. QED BY <3>1, <3>2 DEF EpollInv
  <2>2. \A t \in Threads : call[t].op \in {"cancelAll", "idle"} => call[t].ctx # 0
    BY DEF CallInv
  <2>. QED BY <2>1, <2>2 DEF OneContextPerFd
<1>. QED BY <1>1, LifecycleInvariant, PTL
=============================================================================
