-------------------------- MODULE IOManagerProofs --------------------------
(***************************************************************************)
(* Theorems about module IOManager, for every finite pool of threads and   *)
(* set of descriptors, any callbacks and any choice of calls.              *)
(***************************************************************************)
EXTENDS IOManager, TLAPS, FiniteSetTheorems

(* Where a thread holds the mutex of a descriptor. *)
InCall == {"add", "del", "trigger", "uncount"}

(* Where a thread is in idle(), or between tasks. *)
Taskless == {"run", "timers", "stopping", "pending", "wait", "expired", "schedule", "events", "gone"}

(* The mutex of a descriptor is held by the thread that is in a call on it.*)
CallerInv(t) ==
  /\ pc[t] \in InCall => op[t][1] \in Fds /\ holder[op[t][1]] = t /\ op[t][2] # {}
  /\ pc[t] \notin InCall => op[t] = NoOp

HolderInv(fd) == holder[fd] # None => op[holder[fd]][1] = fd

LockInv == (\A t \in Threads : CallerInv(t)) /\ (\A fd \in Fds : HolderInv(fd))

(* What a call is about to do is still to be done, as nobody else can have *)
(* changed the events of its descriptor.                                   *)
StepInv(t) ==
  /\ pc[t] = "add" => /\ op[t][3] \in Callbacks
                      /\ \E ev \in Directions : op[t][2] = {ev} /\ ev \notin events[op[t][1]]
  /\ pc[t] = "del" => \E ev \in Directions : op[t][2] = {ev} /\ ev \in events[op[t][1]]
  /\ pc[t] # "add" => op[t][3] = None
  /\ pc[t] = "uncount" => First(op[t][2]) \notin events[op[t][1]]

OpInv == \A t \in Threads : StepInv(t)

(* A thread has a callback while it runs one, and callbacks of expired     *)
(* timers until it has scheduled them.  One whose idle fiber has ended runs*)
(* callbacks, looks for one, or leaves.                                    *)
LocalInv ==
  \A t \in Threads :
    /\ pc[t] \in {"taken", "callback", "yield", "add", "del"} => cb[t] # None
    /\ pc[t] \in Taskless => cb[t] = None
    /\ cbs[t] # {} => pc[t] = "schedule"
    /\ t \in ended => cb[t] # None \/ pc[t] \in {"run", "gone"}
    /\ pc[t] = "gone" => t \in ended

(* A context is in use while its event is registered. *)
ContextInv == \A fd \in Fds, ev \in Directions : ctx[fd][ev] = None <=> ev \notin events[fd]

(* The registered events that the descriptor was not closed under. *)
Live(fd) == {ev \in events[fd] : ctx[fd][ev] \notin orphaned}

(* epoll watches a descriptor for its live events, except for what a call  *)
(* in progress has told epoll before it changes the events; and of the     *)
(* events of a descriptor either all are live or none is.                  *)
WatchedInv(fd) ==
  LET t == holder[fd]
  IN  /\ fd \notin open => interest[fd] = {}
      /\ Live(fd) = {} \/ Live(fd) = events[fd]
      /\ t = None => interest[fd] = Live(fd)
      /\ t # None /\ pc[t] = "add" =>
           /\ interest[fd] = Live(fd) \cup (IF op[t][3] \in orphaned THEN {} ELSE op[t][2])
           /\ events[fd] # {} => (op[t][3] \in orphaned <=> Live(fd) = {})
      /\ t # None /\ pc[t] # "add" => interest[fd] = Live(fd) \ op[t][2]

InterestInv == \A fd \in Fds : WatchedInv(fd)

(* With callbacks that wait in one direction only, triggerEvent()'s        *)
(* assertion holds.                                                        *)
OneDirection == \A d, e \in Directions : d = e

AssertInv == OneDirection => TriggerAssert

CallInv == LockInv /\ OpInv /\ ContextInv /\ InterestInv /\ AssertInv

(* A callback is orphaned only while it waits, or is about to. *)
OrphanInv == \A c \in orphaned : WaitsAt(c) # {} \/ \E t \in Threads : op[t][3] = c

(* Of five sets one has an element, and only one. *)
One(A, B, C, D, E) ==
  \/ (\E x \in A : A = {x}) /\ B = {} /\ C = {} /\ D = {} /\ E = {}
  \/ (\E x \in B : B = {x}) /\ A = {} /\ C = {} /\ D = {} /\ E = {}
  \/ (\E x \in C : C = {x}) /\ A = {} /\ B = {} /\ D = {} /\ E = {}
  \/ (\E x \in D : D = {x}) /\ A = {} /\ B = {} /\ C = {} /\ E = {}
  \/ (\E x \in E : E = {x}) /\ A = {} /\ B = {} /\ C = {} /\ D = {}

(* A callback that was accepted is in one place, any other in none. *)
PlaceOf(c) ==
  /\ c \in given => One(WaitsAt(c), RunsAt(c), AddedAt(c), ExpiredAt(c), ListsOf(c))
  /\ c \notin given => /\ WaitsAt(c) = {} /\ RunsAt(c) = {} /\ AddedAt(c) = {}
                       /\ ExpiredAt(c) = {} /\ ListsOf(c) = {}

PlaceInv == \A c \in Callbacks \ m_recurring : PlaceOf(c)

(* The callback of a recurring timer is armed until cancel(), and waits for*)
(* no descriptor.                                                          *)
RecurringOf(c) ==
  /\ c \in m_timers <=> c \notin removed
  /\ WaitsAt(c) = {} /\ \A t \in Threads : op[t][3] # c

RecurringInv == \A c \in m_recurring : RecurringOf(c)

(* The sets that the two counters count *)
Registered == {e \in Fds \X Directions : e[2] \in events[e[1]]}
Uncounting == {t \in Threads : pc[t] = "uncount"}
Active == {t \in Threads : cb[t] # None /\ pc[t] # "taken"}

(* m_activeThreadCount is the number of threads that run a callback and    *)
(* have been counted.                                                      *)
ActiveExact == m_activeThreadCount = Cardinality(Active)

CountInv == PendingExact /\ ActiveExact

(* Once no thread is to ask for timers again there are none, once every    *)
(* idle fiber has ended no callback waits, except for what a thread has    *)
(* added after its idle fiber had ended; and the last thread that leaves   *)
(* finds no task: only a thread that is to look again can add something.   *)
StopInv ==
  /\ (\A t \in Threads : t \in ended \/ pc[t] \in {"stopping", "pending"}) => m_timers \subseteq late
  /\ (\A t \in Threads : t \in ended) => Waiting \subseteq late
  /\ \A t \in ended : op[t][3] \in late \cup {None}
  /\ (\A t \in Threads : pc[t] = "gone") => m_tasks = {}

IInv ==
  /\ TypeOK /\ CallInv /\ LocalInv /\ OrphanInv /\ PlaceInv /\ RecurringInv /\ CountInv /\ StopInv

-----------------------------------------------------------------------------
(* Facts about the operators of the model *)

(* The events are READ and WRITE, and First() finds one of those it gets. *)
LEMMA FirstIn == \A evs \in SUBSET Directions : evs # {} => First(evs) \in evs
BY IOAssumption DEF First

(* There are finitely many registrations and threads. *)
LEMMA Finite ==
  /\ IsFiniteSet(Fds \X Directions)
  /\ IsFiniteSet(Registered) /\ IsFiniteSet(Uncounting) /\ IsFiniteSet(Active)
  /\ \A c : IsFiniteSet(WaitsAt(c)) /\ IsFiniteSet(RunsAt(c)) /\ IsFiniteSet(AddedAt(c))
            /\ IsFiniteSet(ExpiredAt(c)) /\ IsFiniteSet(ListsOf(c))
<1>1. IsFiniteSet({READ, WRITE})
  <2>1. IsFiniteSet({READ})
    BY FS_Singleton
  <2>2. {READ, WRITE} = {READ} \cup {WRITE}
    OBVIOUS
  <2> QED
    BY <2>1, <2>2, FS_AddElement
<1>2. IsFiniteSet(Directions)
  BY <1>1, FS_Subset, IOAssumption
<1>3. IsFiniteSet(Fds \X Directions)
  BY <1>2, PoolAssumption, FS_Product
<1>4. \A S : S \subseteq Fds \X Directions => IsFiniteSet(S)
  BY <1>3, FS_Subset
<1>5. \A S : S \subseteq Threads => IsFiniteSet(S)
  BY PoolAssumption, FS_Subset
<1>6. \A c : IsFiniteSet(ListsOf(c))
  <2>1. IsFiniteSet({"timers", "tasks", "done", "removed"})
    <3>1. IsFiniteSet({"timers"})
      BY FS_Singleton
    <3>2. IsFiniteSet({"timers"} \cup {"tasks"})
      BY <3>1, FS_AddElement
    <3>3. IsFiniteSet(({"timers"} \cup {"tasks"}) \cup {"done"})
      BY <3>2, FS_AddElement
    <3>4. IsFiniteSet((({"timers"} \cup {"tasks"}) \cup {"done"}) \cup {"removed"})
      BY <3>3, FS_AddElement
    <3>5. {"timers", "tasks", "done", "removed"}
            = (({"timers"} \cup {"tasks"}) \cup {"done"}) \cup {"removed"}
      OBVIOUS
    <3> QED
      BY <3>4, <3>5
  <2>2. \A c : ListsOf(c) \subseteq {"timers", "tasks", "done", "removed"}
    BY DEF ListsOf
  <2> QED
    BY <2>1, <2>2, FS_Subset
<1>7. Registered \subseteq Fds \X Directions /\ Uncounting \subseteq Threads /\ Active \subseteq Threads
  BY DEF Registered, Uncounting, Active
<1>8. \A c : /\ WaitsAt(c) \subseteq Fds \X Directions /\ RunsAt(c) \subseteq Threads
             /\ AddedAt(c) \subseteq Threads /\ ExpiredAt(c) \subseteq Threads
  BY DEF WaitsAt, RunsAt, AddedAt, ExpiredAt
<1> QED
  BY <1>3, <1>4, <1>5, <1>6, <1>7, <1>8

(* The size of a finite set with one element more and one less. *)
LEMMA OneMore ==
  ASSUME NEW S, IsFiniteSet(S), NEW x, x \notin S
  PROVE  Cardinality(S \cup {x}) = Cardinality(S) + 1
BY FS_AddElement

(* And of one with an element less. *)
LEMMA OneLess ==
  ASSUME NEW S, IsFiniteSet(S), NEW x, x \in S
  PROVE  Cardinality(S \ {x}) = Cardinality(S) - 1 /\ Cardinality(S) > 0
<1>1. Cardinality(S) \in Nat /\ Cardinality(S \ {x}) \in Nat /\ IsFiniteSet(S \ {x})
  BY FS_CardinalityType, FS_RemoveElement
<1>2. Cardinality((S \ {x}) \cup {x}) = Cardinality(S \ {x}) + 1
  BY <1>1, OneMore
<1>3. (S \ {x}) \cup {x} = S
  OBVIOUS
<1>4. Cardinality(S) = Cardinality(S \ {x}) + 1
  BY <1>2, <1>3
<1> QED
  BY <1>1, <1>4

(* One(): where an element is, there is nothing else. *)
LEMMA OneIs ==
  ASSUME NEW A, NEW B, NEW C, NEW D, NEW E, One(A, B, C, D, E)
  PROVE  /\ \A x \in A : A = {x} /\ B = {} /\ C = {} /\ D = {} /\ E = {}
         /\ \A x \in B : B = {x} /\ A = {} /\ C = {} /\ D = {} /\ E = {}
         /\ \A x \in C : C = {x} /\ A = {} /\ B = {} /\ D = {} /\ E = {}
         /\ \A x \in D : D = {x} /\ A = {} /\ B = {} /\ C = {} /\ E = {}
         /\ \A x \in E : E = {x} /\ A = {} /\ B = {} /\ C = {} /\ D = {}
BY DEF One

(* One(): there is one element in all. *)
LEMMA OneCounted ==
  ASSUME NEW A, NEW B, NEW C, NEW D, NEW E, One(A, B, C, D, E)
  PROVE  Cardinality(A) + Cardinality(B) + Cardinality(C) + Cardinality(D) + Cardinality(E) = 1
<1>1. \A S : (S = {} => Cardinality(S) = 0) /\ ((\E x \in S : S = {x}) => Cardinality(S) = 1)
  BY FS_EmptySet, FS_Singleton
<1>2. CASE (\E x \in A : A = {x}) /\ B = {} /\ C = {} /\ D = {} /\ E = {}
  BY <1>1, <1>2
<1>3. CASE (\E x \in B : B = {x}) /\ A = {} /\ C = {} /\ D = {} /\ E = {}
  BY <1>1, <1>3
<1>4. CASE (\E x \in C : C = {x}) /\ A = {} /\ B = {} /\ D = {} /\ E = {}
  BY <1>1, <1>4
<1>5. CASE (\E x \in D : D = {x}) /\ A = {} /\ B = {} /\ C = {} /\ E = {}
  BY <1>1, <1>5
<1>6. CASE (\E x \in E : E = {x}) /\ A = {} /\ B = {} /\ C = {} /\ D = {}
  BY <1>1, <1>6
<1> QED
  BY <1>2, <1>3, <1>4, <1>5, <1>6 DEF One

(* A callback that is somewhere was accepted, and is nowhere else. *)
LEMMA OnePlace ==
  ASSUME PlaceInv, NEW c \in Callbacks \ m_recurring
  PROVE  /\ \A x \in WaitsAt(c) : /\ c \in given /\ WaitsAt(c) = {x} /\ RunsAt(c) = {}
                                  /\ AddedAt(c) = {} /\ ExpiredAt(c) = {} /\ ListsOf(c) = {}
         /\ \A x \in RunsAt(c) : /\ c \in given /\ RunsAt(c) = {x} /\ WaitsAt(c) = {}
                                 /\ AddedAt(c) = {} /\ ExpiredAt(c) = {} /\ ListsOf(c) = {}
         /\ \A x \in AddedAt(c) : /\ c \in given /\ AddedAt(c) = {x} /\ WaitsAt(c) = {}
                                  /\ RunsAt(c) = {} /\ ExpiredAt(c) = {} /\ ListsOf(c) = {}
         /\ \A x \in ExpiredAt(c) : /\ c \in given /\ ExpiredAt(c) = {x} /\ WaitsAt(c) = {}
                                    /\ RunsAt(c) = {} /\ AddedAt(c) = {} /\ ListsOf(c) = {}
         /\ \A x \in ListsOf(c) : /\ c \in given /\ ListsOf(c) = {x} /\ WaitsAt(c) = {}
                                  /\ RunsAt(c) = {} /\ AddedAt(c) = {} /\ ExpiredAt(c) = {}
<1>1. PlaceOf(c)
  BY DEF PlaceInv
<1>2. CASE c \in given
  <2>1. One(WaitsAt(c), RunsAt(c), AddedAt(c), ExpiredAt(c), ListsOf(c))
    BY <1>1, <1>2 DEF PlaceOf
  <2> QED
    BY <1>2, <2>1, OneIs
<1>3. CASE c \notin given
  BY <1>1, <1>3 DEF PlaceOf
<1> QED
  BY <1>2, <1>3

(* Hence no two contexts hold the same callback, no call is about to add   *)
(* one that waits or that another call is about to add, and one that is    *)
(* running or was not accepted yet is not orphaned.                        *)
UniqueInv ==
  /\ \A f, g \in Fds, d, e \in Directions :
       ctx[f][d] # None /\ ctx[f][d] = ctx[g][e] => f = g /\ d = e
  /\ \A t \in Threads, f \in Fds, d \in Directions : op[t][3] # None => op[t][3] # ctx[f][d]
  /\ \A t, u \in Threads : op[t][3] # None /\ op[t][3] = op[u][3] => t = u
  /\ None \notin orphaned

(* These facts follow from the invariant. *)
LEMMA Unique ==
  ASSUME TypeOK, LockInv, OpInv, PlaceInv, RecurringInv, OrphanInv
  PROVE  UniqueInv
<1>1. \A t \in Threads : op[t][3] \in (Callbacks \ m_recurring) \cup {None}
  BY DEF TypeOK, NoOp, RecurringInv, RecurringOf
<1>2. \A f \in Fds, d \in Directions : ctx[f][d] \in (Callbacks \ m_recurring) \cup {None}
  <2> SUFFICES ASSUME NEW f \in Fds, NEW d \in Directions
               PROVE  ctx[f][d] \in (Callbacks \ m_recurring) \cup {None}
    OBVIOUS
  <2>1. ctx[f][d] \in Callbacks \cup {None}
    BY DEF TypeOK
  <2>2. <<f, d>> \in WaitsAt(ctx[f][d])
    BY DEF WaitsAt
  <2>3. ctx[f][d] \notin m_recurring
    BY <2>2 DEF RecurringInv, RecurringOf
  <2> QED
    BY <2>1, <2>3
<1>3. \A t \in Threads : op[t][3] # None => t \in AddedAt(op[t][3]) \cup RunsAt(op[t][3])
  <2> SUFFICES ASSUME NEW t \in Threads, op[t][3] # None PROVE t \in AddedAt(op[t][3]) \cup RunsAt(op[t][3])
    OBVIOUS
  <2>1. pc[t] = "add"
    BY DEF OpInv, StepInv
  <2> QED
    BY <2>1 DEF AddedAt, RunsAt
<1>4. \A f \in Fds, d \in Directions : <<f, d>> \in WaitsAt(ctx[f][d])
  BY DEF WaitsAt
<1>5. ASSUME NEW f \in Fds, NEW g \in Fds, NEW d \in Directions, NEW e \in Directions,
             ctx[f][d] # None, ctx[f][d] = ctx[g][e]
      PROVE  f = g /\ d = e
  <2>1. WaitsAt(ctx[f][d]) = {<<f, d>>}
    BY <1>2, <1>4, <1>5, OnePlace
  <2>2. <<g, e>> \in {<<f, d>>}
    BY <1>4, <1>5, <2>1
  <2> QED
    BY <2>2
<1>6. ASSUME NEW t \in Threads, NEW f \in Fds, NEW d \in Directions, op[t][3] # None
      PROVE  op[t][3] # ctx[f][d]
  BY <1>1, <1>2, <1>3, <1>4, <1>6, OnePlace
<1>7. ASSUME NEW t \in Threads, NEW u \in Threads, op[t][3] # None, op[t][3] = op[u][3]
      PROVE  t = u
  <2>1. t \in AddedAt(op[t][3]) \cup RunsAt(op[t][3]) /\ u \in AddedAt(op[t][3]) \cup RunsAt(op[t][3])
    BY <1>3, <1>7
  <2>2. op[t][3] \in Callbacks \ m_recurring
    BY <1>1, <1>7
  <2> QED
    BY <2>1, <2>2, OnePlace
<1>8. None \notin orphaned
  BY IOAssumption DEF TypeOK
<1> QED
  BY <1>5, <1>6, <1>7, <1>8 DEF UniqueInv

-----------------------------------------------------------------------------
(* What a step leaves alone keeps the parts of the invariant *)

(* The calls on descriptors are kept by a step outside of them. *)
LEMMA CallFrame ==
  ASSUME TypeOK, CallInv,
         UNCHANGED <<events, ctx, holder, op, orphaned, interest, open>>,
         \A u \in Threads : pc'[u] = pc[u] \/ (pc[u] \notin InCall /\ pc'[u] \notin InCall)
  PROVE  CallInv'
<1>1. \A u \in Threads : /\ pc'[u] \in InCall <=> pc[u] \in InCall
                         /\ pc[u] \in InCall => pc'[u] = pc[u]
  OBVIOUS
<1>2. \A u \in Threads, l \in InCall : pc'[u] = l <=> pc[u] = l
  BY <1>1
<1>3. \A u \in Threads : /\ pc'[u] = "add" <=> pc[u] = "add"
                         /\ pc'[u] = "del" <=> pc[u] = "del"
                         /\ pc'[u] = "trigger" <=> pc[u] = "trigger"
                         /\ pc'[u] = "uncount" <=> pc[u] = "uncount"
  BY <1>2 DEF InCall
<1>4. LockInv'
  BY <1>1 DEF CallInv, LockInv, CallerInv, HolderInv
<1>5. OpInv'
  BY <1>3 DEF CallInv, OpInv, StepInv
<1>6. ContextInv'
  BY DEF CallInv, ContextInv
<1>7. InterestInv'
  <2> SUFFICES ASSUME NEW fd \in Fds PROVE WatchedInv(fd)'
    BY DEF InterestInv
  <2>1. WatchedInv(fd) /\ holder[fd] \in Threads \cup {None}
    BY DEF CallInv, InterestInv, TypeOK
  <2>2. Live(fd)' = Live(fd)
    BY DEF Live
  <2> QED
    BY <1>3, <2>1, <2>2 DEF WatchedInv
<1>8. AssertInv'
  BY <1>3 DEF CallInv, AssertInv, TriggerAssert, OneDirection
<1> QED
  BY <1>4, <1>5, <1>6, <1>7, <1>8 DEF CallInv

(* A callback whose places are the same is still in one. *)
LEMMA SamePlace ==
  ASSUME NEW c, PlaceOf(c), c \in given' <=> c \in given,
         WaitsAt(c)' = WaitsAt(c), RunsAt(c)' = RunsAt(c), AddedAt(c)' = AddedAt(c),
         ExpiredAt(c)' = ExpiredAt(c), ListsOf(c)' = ListsOf(c)
  PROVE  PlaceOf(c)'
BY DEF PlaceOf

(* The callbacks of recurring timers are kept where nothing of them moves. *)
LEMMA RecurringFrame ==
  ASSUME RecurringInv, m_recurring' = m_recurring,
         \A c \in m_recurring : /\ c \in m_timers' <=> c \in m_timers
                                /\ c \in removed' <=> c \in removed
                                /\ WaitsAt(c)' \subseteq WaitsAt(c)
                                /\ \A t \in Threads : op'[t][3] = c => op[t][3] = c
  PROVE  RecurringInv'
BY DEF RecurringInv, RecurringOf

(* The places of the callbacks are kept by a step that moves none. *)
LEMMA PlaceFrame ==
  ASSUME PlaceInv, OrphanInv, RecurringInv,
         UNCHANGED <<ctx, cb, cbs, m_timers, m_recurring, m_tasks, given, done, removed, orphaned>>,
         \A u \in Threads : op'[u][3] = op[u][3] /\ (pc'[u] = "yield" <=> pc[u] = "yield")
  PROVE  PlaceInv' /\ RecurringInv' /\ OrphanInv'
<1>1. ASSUME NEW c \in Callbacks \ m_recurring PROVE PlaceOf(c)'
  <2>1. WaitsAt(c)' = WaitsAt(c)
    BY DEF WaitsAt
  <2>2. RunsAt(c)' = RunsAt(c)
    BY DEF RunsAt
  <2>3. AddedAt(c)' = AddedAt(c) /\ ExpiredAt(c)' = ExpiredAt(c)
    BY DEF AddedAt, ExpiredAt
  <2>4. ListsOf(c)' = ListsOf(c)
    BY DEF ListsOf
  <2> QED
    BY <2>1, <2>2, <2>3, <2>4, SamePlace DEF PlaceInv
<1>2. OrphanInv'
  BY DEF OrphanInv, WaitsAt
<1>3. RecurringInv'
  <2>1. \A c : WaitsAt(c)' = WaitsAt(c)
    BY DEF WaitsAt
  <2> QED
    BY <2>1, RecurringFrame
<1> QED
  BY <1>1, <1>2, <1>3 DEF PlaceInv

(* The counters are kept by a step that registers, starts and ends nothing.*)
LEMMA CountFrame ==
  ASSUME CountInv, UNCHANGED <<events, cb, m_pendingEventCount, m_activeThreadCount>>,
         \A u \in Threads : /\ pc'[u] = "uncount" <=> pc[u] = "uncount"
                            /\ pc'[u] = "taken" <=> pc[u] = "taken"
  PROVE  CountInv'
<1>1. Registered' = Registered
  BY DEF Registered
<1>2. Uncounting' = Uncounting
  BY DEF Uncounting
<1>3. Active' = Active
  BY DEF Active
<1> QED
  BY <1>1, <1>2, <1>3 DEF CountInv, PendingExact, ActiveExact, Registered, Uncounting

(* Only the steps of stopping() bring a thread closer to its end, and what *)
(* is added after the end is late.                                         *)
LEMMA StopFrame ==
  ASSUME StopInv, NEW t \in Threads, pc'[t] \notin {"stopping", "pending", "gone"},
         \A u \in Threads : u # t => pc'[u] = pc[u],
         ended' = ended, late \subseteq late', m_timers' \subseteq m_timers \cup late',
         Waiting' \subseteq Waiting \cup late',
         \A u \in ended : op'[u][3] \in late' \cup {None, op[u][3]}
  PROVE  StopInv'
<1>1. (\A u \in Threads : u \in ended' \/ pc'[u] \in {"stopping", "pending"}) => m_timers' \subseteq late'
  BY DEF StopInv
<1>2. (\A u \in Threads : u \in ended') => Waiting' \subseteq late'
  BY DEF StopInv
<1>3. \A u \in ended' : op'[u][3] \in late' \cup {None}
  BY DEF StopInv
<1> QED
  BY <1>1, <1>2, <1>3 DEF StopInv

(* In most steps nothing is added. *)
LEMMA StopQuiet ==
  ASSUME IInv, NEW t \in Threads, pc'[t] \notin {"stopping", "pending", "gone"},
         \A u \in Threads : u # t => pc'[u] = pc[u] /\ op'[u] = op[u],
         UNCHANGED <<ctx, ended, late>>, m_timers' \subseteq m_timers,
         op'[t][3] \in {None, op[t][3]}
  PROVE  StopInv'
<1>1. Waiting' = Waiting
  BY DEF Waiting
<1>2. ended \subseteq Threads
  BY DEF IInv, TypeOK
<1> QED
  BY <1>1, <1>2, StopFrame DEF IInv

(* A thread goes to l, and no other moves. *)
LEMMA GotoStep ==
  ASSUME TypeOK, NEW t \in Threads, NEW l, Goto(t, l)
  PROVE  pc'[t] = l /\ \A u \in Threads : u # t => pc'[u] = pc[u]
BY DEF Goto, TypeOK

(* A thread goes from one point outside of the calls to another. *)
LEMMA QuietStep ==
  ASSUME IInv, NEW t \in Threads, NEW l, Goto(t, l),
         pc[t] \notin InCall \cup {"taken", "yield"}, l \notin InCall \cup {"taken", "yield"},
         UNCHANGED <<events, ctx, holder, op, orphaned, interest, open>>,
         UNCHANGED <<cb, cbs, m_timers, m_recurring, m_tasks, given, done, removed>>,
         UNCHANGED <<m_pendingEventCount, m_activeThreadCount>>
  PROVE  CallInv' /\ OrphanInv' /\ PlaceInv' /\ RecurringInv' /\ CountInv'
<1>1. pc'[t] = l /\ \A u \in Threads : u # t => pc'[u] = pc[u]
  BY GotoStep DEF IInv
<1>2. CallInv'
  BY <1>1, CallFrame DEF IInv
<1>3. PlaceInv' /\ RecurringInv' /\ OrphanInv'
  BY <1>1, PlaceFrame DEF IInv
<1>4. CountInv'
  <2>1. \A u \in Threads : /\ pc'[u] = "uncount" <=> pc[u] = "uncount"
                           /\ pc'[u] = "taken" <=> pc[u] = "taken"
    BY <1>1 DEF InCall
  <2> QED
    BY <2>1, CountFrame DEF IInv
<1> QED
  BY <1>2, <1>3, <1>4

-----------------------------------------------------------------------------
(* One lemma for each action: the descriptors, the timers, idle() *)

USE DEF epollVars, timerVars, worldVars, fdVars, schedVars, threadVars, historyVars

(* Nothing happens. *)
LEMMA StutterStep == IInv /\ UNCHANGED vars => IInv'
<1> SUFFICES ASSUME IInv, UNCHANGED vars PROVE IInv'
  OBVIOUS
<1>0. UNCHANGED <<open, ready, m_timers, due, m_recurring, cbs, interest, armed, events, ctx, holder>>
      /\ UNCHANGED <<m_pendingEventCount, m_tasks, m_activeThreadCount, m_stopping, ended>>
      /\ UNCHANGED <<pc, cb, op, got, given, done, removed, orphaned, late>>
  BY DEF vars
<1>1. TypeOK'
  BY <1>0 DEF IInv, TypeOK
<1>2. CallInv'
  BY <1>0, CallFrame DEF IInv
<1>3. PlaceInv' /\ RecurringInv' /\ OrphanInv'
  BY <1>0, PlaceFrame DEF IInv
<1>4. CountInv'
  BY <1>0, CountFrame DEF IInv
<1>5. LocalInv' /\ StopInv'
  BY <1>0 DEF IInv, LocalInv, StopInv, Waiting
<1> QED
  BY <1>1, <1>2, <1>3, <1>4, <1>5 DEF IInv

(* Nothing changes that the calls and stopping() rely on. *)
LEMMA WorldStep ==
  ASSUME IInv, TypeOK', UNCHANGED <<events, ctx, holder, interest, cbs, m_timers, m_recurring>>,
         UNCHANGED <<m_pendingEventCount, m_tasks, m_activeThreadCount, ended>>,
         UNCHANGED <<pc, cb, op, given, done, removed, orphaned, late>>,
         open \subseteq open'
  PROVE  IInv'
<1>2. CallInv'
  <2>1. LockInv' /\ ContextInv'
    BY DEF IInv, CallInv, LockInv, CallerInv, HolderInv, ContextInv
  <2>2. OpInv' /\ AssertInv'
    BY DEF IInv, CallInv, OpInv, StepInv, AssertInv, TriggerAssert, OneDirection
  <2>3. InterestInv'
    BY DEF IInv, CallInv, InterestInv, WatchedInv, Live
  <2> QED
    BY <2>1, <2>2, <2>3 DEF CallInv
<1>3. PlaceInv' /\ RecurringInv' /\ OrphanInv'
  BY PlaceFrame DEF IInv
<1>4. CountInv'
  BY CountFrame DEF IInv
<1>5. LocalInv' /\ StopInv'
  BY DEF IInv, LocalInv, StopInv, Waiting
<1> QED
  BY <1>2, <1>3, <1>4, <1>5 DEF IInv

(* A descriptor becomes ready: only what epoll has to report changes. *)
LEMMA EdgeStep ==
  ASSUME IInv, NEW fd \in Fds, NEW ev \in Directions \cup {HUP}, Edge(fd, ev)
  PROVE  IInv'
<1>1. TypeOK'
  BY DEF IInv, TypeOK, Edge
<1> QED
  BY <1>1, WorldStep DEF Edge

(* A closed descriptor's number is given to a new file. *)
LEMMA ReopenStep ==
  ASSUME IInv, NEW fd \in Fds, Reopen(fd)
  PROVE  IInv'
<1>1. TypeOK'
  BY DEF IInv, TypeOK, Reopen
<1> QED
  BY <1>1, WorldStep DEF Reopen

(* A callback reads or writes. *)
LEMMA ConsumeStep ==
  ASSUME IInv, NEW t \in Threads, NEW fd \in Fds, NEW ev \in Directions, Consume(t, fd, ev)
  PROVE  IInv'
<1>1. TypeOK'
  BY DEF IInv, TypeOK, Consume
<1> QED
  BY <1>1, WorldStep DEF Consume

(* A timer's time comes; it stays in m_timers. *)
LEMMA ExpireStep ==
  ASSUME IInv, NEW c \in Callbacks, Expire(c)
  PROVE  IInv'
<1>1. TypeOK'
  BY DEF IInv, TypeOK, Expire
<1> QED
  BY <1>1, WorldStep DEF Expire

(* stop() sets m_stopping. *)
LEMMA StopStep ==
  ASSUME IInv, Stop
  PROVE  IInv'
<1>1. TypeOK'
  BY DEF IInv, TypeOK, Stop
<1> QED
  BY <1>1, WorldStep DEF Stop

(* A thread without a task starts to idle. *)
LEMMA EnterIdleStep ==
  ASSUME IInv, NEW t \in Threads, EnterIdle(t)
  PROVE  IInv'
<1>1. pc[t] = "run" /\ pc'[t] = "timers" /\ \A u \in Threads : u # t => pc'[u] = pc[u]
  BY GotoStep DEF IInv, EnterIdle
<1>2. TypeOK'
  BY DEF IInv, TypeOK, EnterIdle, Goto
<1>3. CallInv' /\ OrphanInv' /\ PlaceInv' /\ RecurringInv' /\ CountInv'
  BY QuietStep DEF EnterIdle, InCall
<1>4. LocalInv'
  BY <1>1 DEF IInv, LocalInv, EnterIdle, Taskless
<1>5. StopInv'
  BY <1>1, StopQuiet DEF EnterIdle
<1> QED
  BY <1>2, <1>3, <1>4, <1>5 DEF IInv

(* A thread has handled its reports. *)
LEMMA LeaveIdleStep ==
  ASSUME IInv, NEW t \in Threads, LeaveIdle(t)
  PROVE  IInv'
<1>1. pc[t] = "events" /\ pc'[t] = "run" /\ \A u \in Threads : u # t => pc'[u] = pc[u]
  BY GotoStep DEF IInv, LeaveIdle
<1>2. TypeOK'
  BY DEF IInv, TypeOK, LeaveIdle, Goto
<1>3. CallInv' /\ OrphanInv' /\ PlaceInv' /\ RecurringInv' /\ CountInv'
  BY QuietStep DEF LeaveIdle, InCall
<1>4. LocalInv'
  BY <1>1 DEF IInv, LocalInv, LeaveIdle, Taskless
<1>5. StopInv'
  BY <1>1, StopQuiet DEF LeaveIdle
<1> QED
  BY <1>2, <1>3, <1>4, <1>5 DEF IInv

(* The thread that finds no timer was the last that could add one in time, *)
(* if no other is to ask again.                                            *)
LEMMA StoppingTimersStep ==
  ASSUME IInv, NEW t \in Threads, StoppingTimers(t)
  PROVE  IInv'
<1> DEFINE l == IF NoTimer THEN "stopping" ELSE "wait"
<1>1. pc[t] = "timers" /\ pc'[t] = l /\ \A u \in Threads : u # t => pc'[u] = pc[u]
  BY GotoStep DEF IInv, StoppingTimers
<1>2. TypeOK'
  BY DEF IInv, TypeOK, StoppingTimers, Goto
<1>3. CallInv' /\ OrphanInv' /\ PlaceInv' /\ RecurringInv' /\ CountInv'
  BY QuietStep DEF StoppingTimers, InCall
<1>4. LocalInv'
  BY <1>1 DEF IInv, LocalInv, StoppingTimers, Taskless
<1>5. StopInv'
  <2>1. t \notin ended
    BY <1>1 DEF IInv, LocalInv, Taskless
  <2> QED
    BY <1>1, <2>1 DEF IInv, StopInv, NoTimer, StoppingTimers
<1> QED
  BY <1>2, <1>3, <1>4, <1>5 DEF IInv

(* It stays so while the thread asks for tasks. *)
LEMMA StoppingStep ==
  ASSUME IInv, NEW t \in Threads, Stopping(t)
  PROVE  IInv'
<1> DEFINE l == IF m_stopping /\ m_tasks = {} /\ m_activeThreadCount = 0 THEN "pending" ELSE "wait"
<1>1. pc[t] = "stopping" /\ pc'[t] = l /\ \A u \in Threads : u # t => pc'[u] = pc[u]
  BY GotoStep DEF IInv, Stopping
<1>2. TypeOK'
  BY DEF IInv, TypeOK, Stopping, Goto
<1>3. CallInv' /\ OrphanInv' /\ PlaceInv' /\ RecurringInv' /\ CountInv'
  BY QuietStep DEF Stopping, InCall
<1>4. LocalInv'
  BY <1>1 DEF IInv, LocalInv, Stopping, Taskless
<1>5. StopInv'
  <2>1. t \notin ended
    BY <1>1 DEF IInv, LocalInv, Taskless
  <2> QED
    BY <1>1, <2>1 DEF IInv, StopInv, Stopping
<1> QED
  BY <1>2, <1>3, <1>4, <1>5 DEF IInv

(* The last thread whose idle fiber ends has seen the pending count at     *)
(* zero: then no context is in use.                                        *)
LEMMA StoppingPendingStep ==
  ASSUME IInv, NEW t \in Threads, StoppingPending(t)
  PROVE  IInv'
<1> DEFINE l == IF NothingPending THEN "run" ELSE "wait"
<1>0. Goto(t, l) /\ ended' = IF NothingPending THEN ended \cup {t} ELSE ended
  BY DEF StoppingPending
<1>1. pc[t] = "pending" /\ pc'[t] = l /\ \A u \in Threads : u # t => pc'[u] = pc[u]
  BY <1>0, GotoStep DEF IInv, StoppingPending
<1>2. TypeOK'
  BY <1>0 DEF IInv, TypeOK, StoppingPending, Goto
<1>3. CallInv' /\ OrphanInv' /\ PlaceInv' /\ RecurringInv' /\ CountInv'
  BY <1>0, QuietStep DEF StoppingPending, InCall
<1>4. LocalInv'
  BY <1>0, <1>1 DEF IInv, LocalInv, StoppingPending, Taskless
<1>5. UNCHANGED <<m_timers, late, ctx, op, m_tasks>> /\ t \notin ended
  BY <1>1 DEF StoppingPending, IInv, LocalInv, Taskless
<1>6. NothingPending => Waiting = {}
  <2> SUFFICES ASSUME NothingPending PROVE Waiting = {}
    OBVIOUS
  <2>1. m_pendingEventCount = Cardinality(Registered) + Cardinality(Uncounting)
    BY DEF IInv, CountInv, PendingExact, Registered, Uncounting
  <2>2. Cardinality(Registered) \in Nat /\ Cardinality(Uncounting) \in Nat
    BY Finite, FS_CardinalityType
  <2>3. Cardinality(Registered) = 0
    BY <2>1, <2>2 DEF NothingPending
  <2>4. Registered = {}
    BY <2>3, Finite, FS_EmptySet
  <2>5. ASSUME NEW fd \in Fds, NEW ev \in Directions PROVE ctx[fd][ev] = None
    <3>1. <<fd, ev>> \notin Registered
      BY <2>4
    <3>2. ev \notin events[fd]
      BY <3>1 DEF Registered
    <3> QED
      BY <3>2 DEF IInv, CallInv, ContextInv
  <2> QED
    BY <2>5 DEF Waiting
<1>7. Waiting' = Waiting /\ op[t][3] = None
  BY <1>1, <1>5 DEF Waiting, IInv, CallInv, OpInv, StepInv
<1>8. StopInv'
  <2>1. (\A u \in Threads : u \in ended' \/ pc'[u] \in {"stopping", "pending"}) => m_timers' \subseteq late'
    BY <1>0, <1>1, <1>5 DEF IInv, StopInv
  <2>2. (\A u \in Threads : u \in ended') => Waiting' \subseteq late'
    BY <1>0, <1>5, <1>6, <1>7
  <2>3. \A u \in ended' : op'[u][3] \in late' \cup {None}
    BY <1>0, <1>5, <1>7 DEF IInv, StopInv
  <2>4. pc'[t] # "gone"
    BY <1>1
  <2> QED
    BY <2>1, <2>2, <2>3, <2>4 DEF StopInv
<1> QED
  BY <1>2, <1>3, <1>4, <1>8 DEF IInv

(* A thread leaves run(); the last one leaves no task. *)
LEMMA ExitRunStep ==
  ASSUME IInv, NEW t \in Threads, ExitRun(t)
  PROVE  IInv'
<1>1. /\ pc[t] = "run" /\ pc'[t] = "gone" /\ \A u \in Threads : u # t => pc'[u] = pc[u]
      /\ t \in ended /\ m_tasks = {}
      /\ UNCHANGED <<m_timers, ctx, op, m_tasks, ended, late>>
  BY GotoStep DEF IInv, ExitRun
<1>2. TypeOK'
  BY DEF IInv, TypeOK, ExitRun, Goto
<1>3. CallInv' /\ OrphanInv' /\ PlaceInv' /\ RecurringInv' /\ CountInv'
  BY QuietStep DEF ExitRun, InCall
<1>4. LocalInv'
  BY <1>1 DEF IInv, LocalInv, ExitRun, Taskless
<1>5. StopInv'
  BY <1>1 DEF IInv, StopInv, Waiting
<1> QED
  BY <1>2, <1>3, <1>4, <1>5 DEF IInv

(* epoll_wait() takes the ready list; what is registered stays. *)
LEMMA EpollWaitStep ==
  ASSUME IInv, NEW t \in Threads, EpollWait(t)
  PROVE  IInv'
<1>1. pc[t] = "wait" /\ pc'[t] = "expired" /\ \A u \in Threads : u # t => pc'[u] = pc[u]
  BY GotoStep DEF IInv, EpollWait
<1>2. TypeOK'
  <2>1. {<<fd, Reports(fd)>> : fd \in {f \in Fds : Reports(f) # {}}}
          \in SUBSET (Fds \X (SUBSET (Directions \cup {HUP})))
    BY DEF IInv, TypeOK, Reports
  <2>2. got' \in [Threads -> SUBSET (Fds \X (SUBSET (Directions \cup {HUP})))]
    BY <2>1 DEF IInv, TypeOK, EpollWait
  <2>3. pc' \in [Threads -> {"run", "taken", "callback", "yield", "timers", "stopping", "pending",
                         "wait", "expired", "schedule", "events", "add", "del", "trigger",
                         "uncount", "gone"}]
        /\ armed' \in [Fds -> BOOLEAN]
    BY DEF IInv, TypeOK, EpollWait, Goto
  <2> QED
    BY <2>2, <2>3 DEF IInv, TypeOK, EpollWait
<1>3. CallInv' /\ OrphanInv' /\ PlaceInv' /\ RecurringInv' /\ CountInv'
  BY QuietStep DEF EpollWait, InCall
<1>4. LocalInv'
  BY <1>1 DEF IInv, LocalInv, EpollWait, Taskless
<1>5. StopInv'
  BY <1>1, StopQuiet DEF EpollWait
<1> QED
  BY <1>2, <1>3, <1>4, <1>5 DEF IInv

-----------------------------------------------------------------------------
(* Scheduler::run(): a callback goes from one place to another *)

(* Only the thread t starts, ends or leaves a callback. *)
LEMMA RunsMove ==
  ASSUME NEW t \in Threads, \A u \in Threads : u # t => pc'[u] = pc[u] /\ cb'[u] = cb[u], NEW c
  PROVE  RunsAt(c)' = (RunsAt(c) \ {t}) \cup {u \in {t} : cb'[t] = c /\ pc'[t] # "yield"}
BY DEF RunsAt

(* A callback in m_tasks, m_timers, done or removed is in that list. *)
LEMMA InList ==
  ASSUME NEW c
  PROVE  /\ "timers" \in ListsOf(c) <=> c \in m_timers
         /\ "tasks" \in ListsOf(c) <=> c \in m_tasks
         /\ "done" \in ListsOf(c) <=> c \in done
         /\ "removed" \in ListsOf(c) <=> c \in removed
BY DEF ListsOf

(* A new callback goes into m_timers, before its end or late. *)
LEMMA AddTimerStep ==
  ASSUME IInv, NEW t \in Threads, NEW c \in Callbacks, NEW recurring \in BOOLEAN,
         AddTimer(t, c, recurring)
  PROVE  IInv'
<1>0. /\ pc[t] = "callback" /\ c \notin given
      /\ m_timers' = m_timers \cup {c} /\ given' = given \cup {c}
      /\ m_recurring' \in {m_recurring, m_recurring \cup {c}}
      /\ c \in m_recurring' => c \in Recurring
      /\ t \in ended => late' = late \cup {c}
      /\ t \notin ended => late' = late \ {c}
      /\ UNCHANGED <<open, ready, due, cbs, interest, armed, events, ctx, holder>>
      /\ UNCHANGED <<m_pendingEventCount, m_tasks, m_activeThreadCount, m_stopping, ended>>
      /\ UNCHANGED <<pc, cb, op, got, done, removed, orphaned>>
  BY DEF AddTimer, Accept, IInv, TypeOK
<1>1. TypeOK'
  <2>1. late' \subseteq Callbacks
    BY <1>0 DEF IInv, TypeOK
  <2>2. m_recurring' \subseteq Recurring \cap given'
    BY <1>0 DEF IInv, TypeOK
  <2> QED
    BY <1>0, <2>1, <2>2 DEF IInv, TypeOK
<1>2. CallInv'
  BY <1>0, CallFrame DEF IInv
<1>3. c \notin m_recurring /\ PlaceOf(c)
  BY <1>0 DEF IInv, TypeOK, PlaceInv
<1>4. WaitsAt(c) = {} /\ RunsAt(c) = {} /\ AddedAt(c) = {} /\ ExpiredAt(c) = {} /\ ListsOf(c) = {}
  BY <1>0, <1>3 DEF PlaceOf
<1>5. PlaceInv'
  <2> SUFFICES ASSUME NEW b \in Callbacks \ m_recurring' PROVE PlaceOf(b)'
    BY DEF PlaceInv
  <2>1. PlaceOf(b)
    BY <1>0 DEF IInv, PlaceInv
  <2>2. WaitsAt(b)' = WaitsAt(b) /\ RunsAt(b)' = RunsAt(b) /\ AddedAt(b)' = AddedAt(b)
        /\ ExpiredAt(b)' = ExpiredAt(b)
    BY <1>0 DEF WaitsAt, RunsAt, AddedAt, ExpiredAt
  <2>3. CASE b = c
    <3>1. ListsOf(b)' = {"timers"}
      BY <1>0, <1>4, <2>3 DEF ListsOf
    <3> QED
      BY <1>0, <1>4, <2>2, <2>3, <3>1 DEF PlaceOf, One
  <2>4. CASE b # c
    <3>1. ListsOf(b)' = ListsOf(b)
      BY <1>0, <2>4 DEF ListsOf
    <3> QED
      BY <1>0, <2>1, <2>2, <2>4, <3>1, SamePlace
  <2> QED
    BY <2>3, <2>4
<1>6. RecurringInv'
  <2> SUFFICES ASSUME NEW b \in m_recurring' PROVE RecurringOf(b)'
    BY DEF RecurringInv
  <2>1. WaitsAt(b)' = WaitsAt(b) /\ op' = op
    BY <1>0 DEF WaitsAt
  <2>2. CASE b = c
    <3>1. c \notin removed
      BY <1>4, InList
    <3>2. ASSUME NEW u \in Threads, op[u][3] = c PROVE FALSE
      <4>1. pc[u] = "add"
        BY <3>2, IOAssumption DEF IInv, CallInv, OpInv, StepInv
      <4>2. u \in AddedAt(c) \/ u \in RunsAt(c)
        BY <3>2, <4>1 DEF AddedAt, RunsAt
      <4> QED
        BY <1>4, <4>2
    <3> QED
      BY <1>0, <1>4, <2>1, <2>2, <3>1, <3>2 DEF RecurringOf
  <2>3. CASE b # c
    BY <1>0, <2>1, <2>3 DEF IInv, RecurringInv, RecurringOf
  <2> QED
    BY <2>2, <2>3
<1>7. OrphanInv'
  BY <1>0 DEF IInv, OrphanInv, WaitsAt
<1>8. CountInv'
  BY <1>0, CountFrame DEF IInv
<1>9. LocalInv'
  BY <1>0 DEF IInv, LocalInv
<1>10. StopInv'
  <2>1. CASE t \in ended
    <3>1. Waiting' = Waiting
      BY <1>0 DEF Waiting
    <3> QED
      BY <1>0, <2>1, <3>1, StopFrame DEF IInv
  <2>2. CASE t \notin ended
    <3>1. \A u \in ended : op[u][3] # c
      <4> SUFFICES ASSUME NEW u \in Threads, op[u][3] = c PROVE FALSE
        BY DEF IInv, TypeOK
      <4>1. pc[u] = "add"
        BY IOAssumption DEF IInv, CallInv, OpInv, StepInv
      <4>2. u \in AddedAt(c) \/ u \in RunsAt(c)
        BY <4>1 DEF AddedAt, RunsAt
      <4> QED
        BY <1>4, <4>2
    <3> QED
      BY <1>0, <2>2, <3>1 DEF IInv, StopInv
  <2> QED
    BY <2>1, <2>2
<1> QED
  BY <1>1, <1>2, <1>5, <1>6, <1>7, <1>8, <1>9, <1>10 DEF IInv

(* A callback goes from m_timers to removed; a recurring one may run still.*)
LEMMA CancelTimerStep ==
  ASSUME IInv, NEW t \in Threads, NEW c \in Callbacks, CancelTimer(t, c)
  PROVE  IInv'
<1>0. /\ pc[t] = "callback" /\ c \in m_timers
      /\ m_timers' = m_timers \ {c} /\ due' = due \ {c} /\ removed' = removed \cup {c}
      /\ UNCHANGED <<open, ready, m_recurring, cbs, interest, armed, events, ctx, holder>>
      /\ UNCHANGED <<m_pendingEventCount, m_tasks, m_activeThreadCount, m_stopping, ended>>
      /\ UNCHANGED <<pc, cb, op, got, given, done, orphaned, late>>
  BY DEF CancelTimer
<1>1. TypeOK'
  BY <1>0 DEF IInv, TypeOK
<1>2. CallInv'
  BY <1>0, CallFrame DEF IInv
<1>3. PlaceInv'
  <2> SUFFICES ASSUME NEW b \in Callbacks \ m_recurring' PROVE PlaceOf(b)'
    BY DEF PlaceInv
  <2>1. PlaceOf(b) /\ b \in Callbacks \ m_recurring
    BY <1>0 DEF IInv, PlaceInv
  <2>2. WaitsAt(b)' = WaitsAt(b) /\ RunsAt(b)' = RunsAt(b) /\ AddedAt(b)' = AddedAt(b)
        /\ ExpiredAt(b)' = ExpiredAt(b)
    BY <1>0 DEF WaitsAt, RunsAt, AddedAt, ExpiredAt
  <2>3. CASE b = c
    <3>1. "timers" \in ListsOf(b)
      BY <1>0, <2>3, InList
    <3>2. /\ b \in given /\ ListsOf(b) = {"timers"} /\ WaitsAt(b) = {} /\ RunsAt(b) = {}
          /\ AddedAt(b) = {} /\ ExpiredAt(b) = {}
      BY <2>1, <3>1, OnePlace DEF IInv
    <3>3. ListsOf(b)' = {"removed"}
      BY <1>0, <2>3, <3>2 DEF ListsOf
    <3> QED
      BY <1>0, <2>2, <3>2, <3>3 DEF PlaceOf, One
  <2>4. CASE b # c
    <3>1. ListsOf(b)' = ListsOf(b)
      BY <1>0, <2>4 DEF ListsOf
    <3> QED
      BY <1>0, <2>1, <2>2, <2>4, <3>1, SamePlace
  <2> QED
    BY <2>3, <2>4
<1>4. OrphanInv' /\ RecurringInv'
  BY <1>0 DEF IInv, OrphanInv, RecurringInv, RecurringOf, WaitsAt
<1>5. CountInv'
  BY <1>0, CountFrame DEF IInv
<1>6. LocalInv'
  BY <1>0 DEF IInv, LocalInv
<1>7. StopInv'
  BY <1>0, StopQuiet
<1> QED
  BY <1>1, <1>2, <1>3, <1>4, <1>5, <1>6, <1>7 DEF IInv

(* A task goes from m_tasks to the thread that takes it. *)
LEMMA TakeTaskStep ==
  ASSUME IInv, NEW t \in Threads, TakeTask(t)
  PROVE  IInv'
<1>0. PICK c \in m_tasks : m_tasks' = m_tasks \ {c} /\ cb' = [cb EXCEPT ![t] = c]
  BY DEF TakeTask
<1>1. /\ pc[t] = "run" /\ pc'[t] = "taken" /\ \A u \in Threads : u # t => pc'[u] = pc[u]
      /\ UNCHANGED <<open, ready, m_timers, due, m_recurring, cbs, interest, armed, events, ctx, holder>>
      /\ UNCHANGED <<m_pendingEventCount, m_activeThreadCount, m_stopping, ended>>
      /\ UNCHANGED <<op, got, given, done, removed, orphaned, late>>
  BY GotoStep DEF IInv, TakeTask
<1>2. TypeOK'
  BY <1>0 DEF IInv, TypeOK, TakeTask, Goto
<1>3. c \in Callbacks /\ cb'[t] = c /\ c # None /\ cb[t] = None /\ \A u \in Threads : u # t => cb'[u] = cb[u]
  BY <1>0, <1>1, IOAssumption DEF IInv, TypeOK, LocalInv, Taskless
<1>4. op[t] = NoOp
  BY <1>1 DEF IInv, CallInv, LockInv, CallerInv, InCall
<1>5. CallInv'
  BY <1>1, CallFrame DEF IInv, InCall
<1>6. PlaceInv'
  <2> SUFFICES ASSUME NEW b \in Callbacks \ m_recurring' PROVE PlaceOf(b)'
    BY DEF PlaceInv
  <2>1. PlaceOf(b) /\ b # None /\ b \in Callbacks \ m_recurring
    BY <1>1, IOAssumption DEF IInv, PlaceInv
  <2>2. WaitsAt(b)' = WaitsAt(b) /\ ExpiredAt(b)' = ExpiredAt(b)
    BY <1>1 DEF WaitsAt, ExpiredAt
  <2>3. AddedAt(b)' = AddedAt(b)
    BY <1>1, <1>3, <1>4, <2>1 DEF AddedAt, NoOp
  <2>4. RunsAt(b)' = (RunsAt(b) \ {t}) \cup {u \in {t} : c = b}
    BY <1>1, <1>3, RunsMove
  <2>5. t \notin RunsAt(b)
    BY <1>3, <2>1 DEF RunsAt
  <2>6. CASE b = c
    <3>1. "tasks" \in ListsOf(b)
      BY <1>0, <2>6, InList
    <3>2. b \in given /\ ListsOf(b) = {"tasks"} /\ WaitsAt(b) = {} /\ RunsAt(b) = {} /\ AddedAt(b) = {}
          /\ ExpiredAt(b) = {}
      BY <2>1, <3>1, OnePlace DEF IInv
    <3>3. ListsOf(b)' = {}
      BY <1>0, <1>1, <2>6, <3>2 DEF ListsOf
    <3>4. RunsAt(b)' = {t}
      BY <2>4, <2>6, <3>2
    <3> QED
      BY <1>1, <2>2, <2>3, <3>2, <3>3, <3>4 DEF PlaceOf, One
  <2>7. CASE b # c
    <3>1. ListsOf(b)' = ListsOf(b)
      BY <1>0, <1>1, <2>7 DEF ListsOf
    <3>2. RunsAt(b)' = RunsAt(b)
      BY <2>4, <2>5, <2>7
    <3> QED
      BY <1>1, <2>1, <2>2, <2>3, <3>1, <3>2, SamePlace
  <2> QED
    BY <2>6, <2>7
<1>7. OrphanInv' /\ RecurringInv'
  BY <1>1, RecurringFrame DEF IInv, OrphanInv, WaitsAt
<1>8. CountInv'
  <2>1. Registered' = Registered /\ Uncounting' = Uncounting
    BY <1>1 DEF Registered, Uncounting
  <2>2. Active' = Active
    BY <1>1, <1>3 DEF Active
  <2> QED
    BY <1>1, <2>1, <2>2 DEF IInv, CountInv, PendingExact, ActiveExact, Registered, Uncounting
<1>9. LocalInv' /\ StopInv'
  <2>1. LocalInv'
    BY <1>1, <1>3 DEF IInv, LocalInv, Taskless
  <2> QED
    BY <1>1, <2>1, StopQuiet
<1> QED
  BY <1>2, <1>5, <1>6, <1>7, <1>8, <1>9 DEF IInv

(* The thread is counted only now; until then it is not in Active. *)
LEMMA CountActiveStep ==
  ASSUME IInv, NEW t \in Threads, CountActive(t)
  PROVE  IInv'
<1>1. /\ pc[t] = "taken" /\ pc'[t] = "callback" /\ \A u \in Threads : u # t => pc'[u] = pc[u]
      /\ m_activeThreadCount' = m_activeThreadCount + 1
      /\ UNCHANGED <<open, ready, m_timers, due, m_recurring, cbs, interest, armed, events, ctx, holder>>
      /\ UNCHANGED <<m_pendingEventCount, m_tasks, m_stopping, ended>>
      /\ UNCHANGED <<cb, op, got, given, done, removed, orphaned, late>>
  BY GotoStep DEF IInv, CountActive
<1>2. TypeOK'
  BY DEF IInv, TypeOK, CountActive, Goto
<1>3. CallInv'
  BY <1>1, CallFrame DEF IInv, InCall
<1>4. PlaceInv' /\ RecurringInv' /\ OrphanInv'
  BY <1>1, PlaceFrame DEF IInv
<1>5. CountInv'
  <2>1. Registered' = Registered /\ Uncounting' = Uncounting
    BY <1>1 DEF Registered, Uncounting
  <2>2. t \notin Active /\ Active' = Active \cup {t}
    BY <1>1 DEF Active, IInv, LocalInv
  <2>3. Cardinality(Active') = Cardinality(Active) + 1
    BY <2>2, Finite, OneMore
  <2> QED
    BY <1>1, <2>1, <2>3 DEF IInv, CountInv, PendingExact, ActiveExact, Registered, Uncounting
<1>6. LocalInv'
  BY <1>1 DEF IInv, LocalInv, Taskless
<1>7. StopInv'
  BY <1>1, StopQuiet
<1> QED
  BY <1>2, <1>3, <1>4, <1>5, <1>6, <1>7 DEF IInv

(* The thread is counted until it has left its callback. *)
LEMMA UncountActive ==
  ASSUME IInv, NEW t \in Threads, pc[t] \in {"callback", "yield"}, pc'[t] = "run", cb'[t] = None,
         \A u \in Threads : u # t => pc'[u] = pc[u] /\ cb'[u] = cb[u],
         m_activeThreadCount' = m_activeThreadCount - 1,
         UNCHANGED <<events, m_pendingEventCount>>
  PROVE  m_activeThreadCount' \in Nat /\ CountInv'
<1>1. Registered' = Registered /\ Uncounting' = Uncounting
  BY DEF Registered, Uncounting
<1>2. t \in Active /\ Active' = Active \ {t}
  BY DEF Active, IInv, LocalInv
<1>3. Cardinality(Active') = Cardinality(Active) - 1 /\ Cardinality(Active) > 0
  BY <1>2, Finite, OneLess
<1>4. Cardinality(Active) \in Nat
  BY Finite, FS_CardinalityType
<1>5. m_activeThreadCount = Cardinality(Active)
  BY DEF IInv, CountInv, ActiveExact
<1>6. ActiveExact' /\ m_activeThreadCount' \in Nat
  BY <1>3, <1>4, <1>5 DEF ActiveExact
<1>7. PendingExact'
  BY <1>1 DEF IInv, CountInv, PendingExact, Registered, Uncounting
<1> QED
  BY <1>6, <1>7 DEF CountInv

(* A callback that has run goes to done. *)
LEMMA FinishCallbackStep ==
  ASSUME IInv, NEW t \in Threads, FinishCallback(t)
  PROVE  IInv'
<1>1. /\ pc[t] = "callback" /\ pc'[t] = "run" /\ \A u \in Threads : u # t => pc'[u] = pc[u]
      /\ m_activeThreadCount' = m_activeThreadCount - 1
      /\ done' = done \cup {cb[t]}
      /\ UNCHANGED <<open, ready, m_timers, due, m_recurring, cbs, interest, armed, events, ctx, holder>>
      /\ UNCHANGED <<m_pendingEventCount, m_tasks, m_stopping, ended>>
      /\ UNCHANGED <<op, got, given, removed, orphaned, late>>
  BY GotoStep DEF IInv, FinishCallback
<1>2. cb'[t] = None /\ cb[t] \in Callbacks /\ \A u \in Threads : u # t => cb'[u] = cb[u]
  BY <1>1 DEF IInv, TypeOK, LocalInv, FinishCallback
<1>3. CountInv' /\ m_activeThreadCount' \in Nat
  BY <1>1, <1>2, UncountActive
<1>4. TypeOK'
  BY <1>2, <1>3 DEF IInv, TypeOK, FinishCallback, Goto
<1>5. op[t] = NoOp
  BY <1>1 DEF IInv, CallInv, LockInv, CallerInv, InCall
<1>6. CallInv'
  BY <1>1, CallFrame DEF IInv, InCall
<1>7. PlaceInv'
  <2> SUFFICES ASSUME NEW b \in Callbacks \ m_recurring' PROVE PlaceOf(b)'
    BY DEF PlaceInv
  <2>1. PlaceOf(b) /\ b # None /\ b \in Callbacks \ m_recurring
    BY <1>1, IOAssumption DEF IInv, PlaceInv
  <2>2. WaitsAt(b)' = WaitsAt(b) /\ ExpiredAt(b)' = ExpiredAt(b)
    BY <1>1 DEF WaitsAt, ExpiredAt
  <2>3. AddedAt(b)' = AddedAt(b)
    BY <1>1, <1>2, <1>5, <2>1 DEF AddedAt, NoOp
  <2>4. RunsAt(b)' = RunsAt(b) \ {t}
    BY <1>1, <1>2, <2>1, RunsMove
  <2>5. CASE b = cb[t]
    <3>1. t \in RunsAt(b)
      BY <1>1, <2>5 DEF RunsAt
    <3>2. b \in given /\ ListsOf(b) = {} /\ WaitsAt(b) = {} /\ RunsAt(b) = {t} /\ AddedAt(b) = {}
          /\ ExpiredAt(b) = {}
      BY <2>1, <3>1, OnePlace DEF IInv
    <3>3. ListsOf(b)' = {"done"}
      BY <1>1, <2>5, <3>2 DEF ListsOf
    <3>4. RunsAt(b)' = {}
      BY <2>4, <3>2
    <3> QED
      BY <1>1, <2>2, <2>3, <3>2, <3>3, <3>4 DEF PlaceOf, One
  <2>6. CASE b # cb[t]
    <3>1. ListsOf(b)' = ListsOf(b)
      BY <1>1, <2>6 DEF ListsOf
    <3>2. RunsAt(b)' = RunsAt(b)
      BY <2>4, <2>6 DEF RunsAt
    <3> QED
      BY <1>1, <2>1, <2>2, <2>3, <3>1, <3>2, SamePlace
  <2> QED
    BY <2>5, <2>6
<1>8. OrphanInv' /\ RecurringInv'
  BY <1>1, RecurringFrame DEF IInv, OrphanInv, WaitsAt
<1>9. LocalInv' /\ StopInv'
  <2>1. LocalInv'
    BY <1>1, <1>2 DEF IInv, LocalInv, Taskless
  <2> QED
    BY <1>1, <2>1, StopQuiet
<1> QED
  BY <1>3, <1>4, <1>6, <1>7, <1>8, <1>9 DEF IInv

(* The callback of a thread that yields is where it waits, or has been     *)
(* resumed elsewhere: letting go of it moves nothing.                      *)
LEMMA YieldToHoldStep ==
  ASSUME IInv, NEW t \in Threads, YieldToHold(t)
  PROVE  IInv'
<1>1. /\ pc[t] = "yield" /\ pc'[t] = "run" /\ \A u \in Threads : u # t => pc'[u] = pc[u]
      /\ m_activeThreadCount' = m_activeThreadCount - 1
      /\ UNCHANGED <<open, ready, m_timers, due, m_recurring, cbs, interest, armed, events, ctx, holder>>
      /\ UNCHANGED <<m_pendingEventCount, m_tasks, m_stopping, ended>>
      /\ UNCHANGED <<op, got, given, done, removed, orphaned, late>>
  BY GotoStep DEF IInv, YieldToHold
<1>2. cb'[t] = None /\ cb[t] \in Callbacks /\ \A u \in Threads : u # t => cb'[u] = cb[u]
  BY <1>1 DEF IInv, TypeOK, LocalInv, YieldToHold
<1>3. CountInv' /\ m_activeThreadCount' \in Nat
  BY <1>1, <1>2, UncountActive
<1>4. TypeOK'
  BY <1>2, <1>3 DEF IInv, TypeOK, YieldToHold, Goto
<1>5. op[t] = NoOp
  BY <1>1 DEF IInv, CallInv, LockInv, CallerInv, InCall
<1>6. CallInv'
  BY <1>1, CallFrame DEF IInv, InCall
<1>7. PlaceInv'
  <2> SUFFICES ASSUME NEW b \in Callbacks \ m_recurring' PROVE PlaceOf(b)'
    BY DEF PlaceInv
  <2>1. PlaceOf(b) /\ b # None /\ b \in Callbacks \ m_recurring
    BY <1>1, IOAssumption DEF IInv, PlaceInv
  <2>2. WaitsAt(b)' = WaitsAt(b) /\ ExpiredAt(b)' = ExpiredAt(b) /\ ListsOf(b)' = ListsOf(b)
    BY <1>1 DEF WaitsAt, ExpiredAt, ListsOf
  <2>3. AddedAt(b)' = AddedAt(b)
    BY <1>1, <1>2, <1>5, <2>1 DEF AddedAt, NoOp
  <2>4. RunsAt(b)' = RunsAt(b)
    BY <1>1, <1>2, <2>1 DEF RunsAt
  <2> QED
    BY <1>1, <2>1, <2>2, <2>3, <2>4, SamePlace
<1>8. OrphanInv' /\ RecurringInv'
  BY <1>1, RecurringFrame DEF IInv, OrphanInv, WaitsAt
<1>9. LocalInv' /\ StopInv'
  <2>1. LocalInv'
    BY <1>1, <1>2 DEF IInv, LocalInv, Taskless
  <2> QED
    BY <1>1, <2>1, StopQuiet
<1> QED
  BY <1>3, <1>4, <1>6, <1>7, <1>8, <1>9 DEF IInv

(* All callbacks that are due go from m_timers to the vector. *)
LEMMA ListExpiredCbStep ==
  ASSUME IInv, NEW t \in Threads, ListExpiredCb(t)
  PROVE  IInv'
<1>1. /\ pc[t] = "expired" /\ pc'[t] = (IF due = {} THEN "events" ELSE "schedule")
      /\ \A u \in Threads : u # t => pc'[u] = pc[u]
      /\ m_timers' = m_timers \ (due \ m_recurring) /\ due' = {}
      /\ UNCHANGED <<open, ready, m_recurring, interest, armed, events, ctx, holder>>
      /\ UNCHANGED <<m_pendingEventCount, m_tasks, m_activeThreadCount, m_stopping, ended>>
      /\ UNCHANGED <<cb, op, got, given, done, removed, orphaned, late>>
  BY GotoStep DEF IInv, ListExpiredCb
<1>2. cbs'[t] = due /\ cbs[t] = {} /\ \A u \in Threads : u # t => cbs'[u] = cbs[u]
  BY <1>1 DEF IInv, TypeOK, LocalInv, ListExpiredCb
<1>3. TypeOK'
  BY DEF IInv, TypeOK, ListExpiredCb, Goto
<1>4. CallInv'
  BY <1>1, CallFrame DEF IInv, InCall
<1>5. PlaceInv'
  <2> SUFFICES ASSUME NEW b \in Callbacks \ m_recurring' PROVE PlaceOf(b)'
    BY DEF PlaceInv
  <2>1. PlaceOf(b) /\ b \in Callbacks \ m_recurring
    BY <1>1 DEF IInv, PlaceInv
  <2>2. WaitsAt(b)' = WaitsAt(b) /\ AddedAt(b)' = AddedAt(b) /\ RunsAt(b)' = RunsAt(b)
    BY <1>1 DEF WaitsAt, AddedAt, RunsAt
  <2>3. CASE b \in due
    <3>1. "timers" \in ListsOf(b)
      BY <2>3, InList DEF IInv, TypeOK
    <3>2. b \in given /\ ListsOf(b) = {"timers"} /\ WaitsAt(b) = {} /\ RunsAt(b) = {} /\ AddedAt(b) = {}
          /\ ExpiredAt(b) = {}
      BY <2>1, <3>1, OnePlace DEF IInv
    <3>3. ListsOf(b)' = {}
      BY <1>1, <2>3, <3>2 DEF ListsOf
    <3>4. ExpiredAt(b)' = {t}
      BY <1>2, <2>3, <3>2 DEF ExpiredAt
    <3> QED
      BY <1>1, <2>2, <3>2, <3>3, <3>4 DEF PlaceOf, One
  <2>4. CASE b \notin due
    <3>1. ListsOf(b)' = ListsOf(b)
      BY <1>1, <2>4 DEF ListsOf
    <3>2. ExpiredAt(b)' = ExpiredAt(b)
      BY <1>2, <2>4 DEF ExpiredAt
    <3> QED
      BY <1>1, <2>1, <2>2, <3>1, <3>2, SamePlace
  <2> QED
    BY <2>3, <2>4
<1>6. OrphanInv' /\ RecurringInv'
  BY <1>1, RecurringFrame DEF IInv, OrphanInv, WaitsAt
<1>7. CountInv'
  BY <1>1, CountFrame DEF IInv
<1>8. LocalInv' /\ StopInv'
  <2>1. LocalInv'
    BY <1>1, <1>2 DEF IInv, LocalInv, Taskless
  <2> QED
    BY <1>1, <2>1, StopQuiet
<1> QED
  BY <1>3, <1>4, <1>5, <1>6, <1>7, <1>8 DEF IInv

(* All callbacks of the thread's vector go to m_tasks. *)
LEMMA ScheduleCbsStep ==
  ASSUME IInv, NEW t \in Threads, ScheduleCbs(t)
  PROVE  IInv'
<1>1. /\ pc[t] = "schedule" /\ pc'[t] = "events"
      /\ \A u \in Threads : u # t => pc'[u] = pc[u]
      /\ m_tasks' = m_tasks \cup cbs[t]
      /\ UNCHANGED <<open, ready, m_timers, due, m_recurring, interest, armed, events, ctx, holder>>
      /\ UNCHANGED <<m_pendingEventCount, m_activeThreadCount, m_stopping, ended>>
      /\ UNCHANGED <<cb, op, got, given, done, removed, orphaned, late>>
  BY GotoStep DEF IInv, ScheduleCbs, ScheduledCbs
<1>2. cbs'[t] = {} /\ \A u \in Threads : u # t => cbs'[u] = cbs[u]
  BY <1>1 DEF IInv, TypeOK, ScheduleCbs
<1>3. TypeOK'
  BY DEF IInv, TypeOK, ScheduleCbs, ScheduledCbs, Goto
<1>4. CallInv'
  BY <1>1, CallFrame DEF IInv, InCall
<1>5. PlaceInv'
  <2> SUFFICES ASSUME NEW b \in Callbacks \ m_recurring' PROVE PlaceOf(b)'
    BY DEF PlaceInv
  <2>1. PlaceOf(b) /\ b \in Callbacks \ m_recurring
    BY <1>1 DEF IInv, PlaceInv
  <2>2. WaitsAt(b)' = WaitsAt(b) /\ AddedAt(b)' = AddedAt(b) /\ RunsAt(b)' = RunsAt(b)
    BY <1>1 DEF WaitsAt, AddedAt, RunsAt
  <2>3. CASE b \in cbs[t]
    <3>1. t \in ExpiredAt(b)
      BY <2>3 DEF ExpiredAt
    <3>2. b \in given /\ ListsOf(b) = {} /\ WaitsAt(b) = {} /\ RunsAt(b) = {} /\ AddedAt(b) = {}
          /\ ExpiredAt(b) = {t}
      BY <2>1, <3>1, OnePlace DEF IInv
    <3>3. ListsOf(b)' = {"tasks"}
      BY <1>1, <2>3, <3>2 DEF ListsOf
    <3>4. ExpiredAt(b)' = {}
      BY <1>2, <2>3, <3>2 DEF ExpiredAt
    <3> QED
      BY <1>1, <2>2, <3>2, <3>3, <3>4 DEF PlaceOf, One
  <2>4. CASE b \notin cbs[t]
    <3>1. ListsOf(b)' = ListsOf(b)
      BY <1>1, <2>4 DEF ListsOf
    <3>2. ExpiredAt(b)' = ExpiredAt(b)
      BY <1>2, <2>4 DEF ExpiredAt
    <3> QED
      BY <1>1, <2>1, <2>2, <3>1, <3>2, SamePlace
  <2> QED
    BY <2>3, <2>4
<1>6. OrphanInv' /\ RecurringInv'
  BY <1>1, RecurringFrame DEF IInv, OrphanInv, WaitsAt
<1>7. CountInv'
  BY <1>1, CountFrame DEF IInv
<1>8. LocalInv' /\ StopInv'
  <2>1. LocalInv'
    BY <1>1, <1>2 DEF IInv, LocalInv, Taskless
  <2> QED
    BY <1>1, <2>1, StopQuiet
<1> QED
  BY <1>3, <1>4, <1>5, <1>6, <1>7, <1>8 DEF IInv

-----------------------------------------------------------------------------
(* The calls on a descriptor *)

(* A step of thread t in, into or out of a call on fd keeps what the       *)
(* invariant says of every other thread and descriptor.                    *)
LEMMA OthersKeep ==
  ASSUME IInv, NEW t \in Threads, NEW fd \in Fds,
         holder[fd] \in {t, None}, pc[t] \in InCall => op[t][1] = fd,
         \A u \in Threads : u # t => pc'[u] = pc[u] /\ op'[u] = op[u],
         \A u \in Threads : u # t => (op[u][3] \in orphaned' <=> op[u][3] \in orphaned),
         \A f \in Fds : f # fd => /\ holder'[f] = holder[f] /\ events'[f] = events[f]
                                  /\ interest'[f] = interest[f] /\ Live(f)' = Live(f),
         open' = open,
         CallerInv(t)', HolderInv(fd)', StepInv(t)', ContextInv', WatchedInv(fd)',
         OneDirection /\ pc'[t] = "trigger" => First(op'[t][2]) \in events'[op'[t][1]]
  PROVE  CallInv'
<1>1. ASSUME NEW u \in Threads, u # t, pc[u] \in InCall
      PROVE  op[u][1] \in Fds /\ op[u][1] # fd
  BY <1>1, IOAssumption DEF IInv, CallInv, LockInv, CallerInv
<1>2. ASSUME NEW f \in Fds, f # fd
      PROVE  holder[f] # t
  <2>1. HolderInv(f) /\ CallerInv(t)
    BY DEF IInv, CallInv, LockInv
  <2> QED
    BY <1>2, <2>1, IOAssumption DEF HolderInv, CallerInv, NoOp
<1>3. LockInv'
  <2>1. ASSUME NEW u \in Threads PROVE CallerInv(u)'
    <3>1. CASE u = t
      BY <3>1
    <3>2. CASE u # t
      BY <1>1, <3>2 DEF IInv, CallInv, LockInv, CallerInv
    <3> QED
      BY <3>1, <3>2
  <2>2. ASSUME NEW f \in Fds PROVE HolderInv(f)'
    <3>1. CASE f = fd
      BY <3>1
    <3>2. CASE f # fd
      <4>1. HolderInv(f) /\ holder[f] \in Threads \cup {None}
        BY DEF IInv, CallInv, LockInv, TypeOK
      <4> QED
        BY <1>2, <3>2, <4>1 DEF HolderInv
    <3> QED
      BY <3>1, <3>2
  <2> QED
    BY <2>1, <2>2 DEF LockInv
<1>4. OpInv'
  <2> SUFFICES ASSUME NEW u \in Threads PROVE StepInv(u)'
    BY DEF OpInv
  <2>1. CASE u = t
    BY <2>1
  <2>2. CASE u # t
    <3>1. StepInv(u)
      BY DEF IInv, CallInv, OpInv
    <3>2. pc[u] \in InCall => events'[op[u][1]] = events[op[u][1]]
      BY <1>1, <2>2
    <3> QED
      BY <2>2, <3>1, <3>2 DEF StepInv, InCall
  <2> QED
    BY <2>1, <2>2
<1>5. InterestInv'
  <2> SUFFICES ASSUME NEW f \in Fds PROVE WatchedInv(f)'
    BY DEF InterestInv
  <2>1. CASE f = fd
    BY <2>1
  <2>2. CASE f # fd
    <3>1. WatchedInv(f) /\ holder[f] \in Threads \cup {None}
      BY DEF IInv, CallInv, InterestInv, TypeOK
    <3> QED
      BY <1>2, <2>2, <3>1 DEF WatchedInv
  <2> QED
    BY <2>1, <2>2
<1>6. AssertInv'
  <2> SUFFICES ASSUME OneDirection, NEW u \in Threads, pc'[u] = "trigger"
               PROVE  First(op'[u][2]) \in events'[op'[u][1]]
    BY DEF AssertInv, TriggerAssert, OneDirection
  <2>1. CASE u = t
    BY <2>1
  <2>2. CASE u # t
    BY <1>1, <2>2 DEF IInv, CallInv, AssertInv, TriggerAssert, InCall
  <2> QED
    BY <2>1, <2>2
<1> QED
  BY <1>3, <1>4, <1>5, <1>6 DEF CallInv

(* A call that enters: what it changes. *)
EntersWith(t, fd, add, set, evs, c, l) ==
  /\ op[t] = NoOp /\ holder[fd] = None /\ holder'[fd] = t
  /\ pc'[t] = l /\ op'[t] = <<fd, evs, c>>
  /\ interest'[fd] = (IF Accepts(fd, add) THEN set ELSE interest[fd])
  /\ \A u \in Threads : u # t => pc'[u] = pc[u] /\ op'[u] = op[u]
  /\ \A f \in Fds : f # fd => holder'[f] = holder[f] /\ interest'[f] = interest[f]

(* The types of the variables that a call changes when it enters. *)
EnterTypes ==
  /\ holder \in [Fds -> Threads \cup {None}]
  /\ op \in [Threads -> {NoOp} \cup (Fds \X (SUBSET Directions) \X (Callbacks \cup {None}))]
  /\ interest \in [Fds -> SUBSET Directions] /\ armed \in [Fds -> BOOLEAN]
  /\ pc \in [Threads -> {"run", "taken", "callback", "yield", "timers", "stopping", "pending",
                         "wait", "expired", "schedule", "events", "add", "del", "trigger",
                         "uncount", "gone"}]

(* Enter() does what EntersWith() says. *)
LEMMA EnterFacts ==
  ASSUME IInv, NEW t \in Threads, NEW fd \in Fds, NEW add, NEW set \in SUBSET Directions,
         NEW evs \in SUBSET Directions, NEW c \in Callbacks \cup {None}, NEW l \in InCall,
         pc[t] \notin InCall, Enter(t, fd, add, set, evs, c, l)
  PROVE  EnterTypes' /\ EntersWith(t, fd, add, set, evs, c, l)
<1>1. op[t] = NoOp
  BY DEF IInv, CallInv, LockInv, CallerInv
<1>2. /\ holder' \in [Fds -> Threads \cup {None}] /\ holder[fd] = None /\ holder'[fd] = t
      /\ \A f \in Fds : f # fd => holder'[f] = holder[f]
  BY DEF Enter, IInv, TypeOK
<1>3. /\ op' \in [Threads -> {NoOp} \cup (Fds \X (SUBSET Directions) \X (Callbacks \cup {None}))]
      /\ op'[t] = <<fd, evs, c>> /\ \A u \in Threads : u # t => op'[u] = op[u]
  BY DEF Enter, IInv, TypeOK
<1>4. /\ interest' \in [Fds -> SUBSET Directions] /\ armed' \in [Fds -> BOOLEAN]
      /\ interest'[fd] = (IF Accepts(fd, add) THEN set ELSE interest[fd])
      /\ \A f \in Fds : f # fd => interest'[f] = interest[f]
  <2>1. interest \in [Fds -> SUBSET Directions] /\ armed \in [Fds -> BOOLEAN]
    BY DEF IInv, TypeOK
  <2>2. CASE Accepts(fd, add)
    <3>1. /\ interest' = [interest EXCEPT ![fd] = set]
          /\ armed' = [armed EXCEPT ![fd] = set # {} /\ (@ \/ ready[fd] \cap (set \cup {HUP}) # {})]
      BY <2>2 DEF Enter, EpollCtl
    <3>2. (set # {} /\ (armed[fd] \/ ready[fd] \cap (set \cup {HUP}) # {})) \in BOOLEAN
      OBVIOUS
    <3>3. armed' \in [Fds -> BOOLEAN]
      BY <2>1, <3>1, <3>2
    <3> QED
      BY <2>1, <2>2, <3>1, <3>3
  <2>3. CASE ~Accepts(fd, add)
    BY <2>1, <2>3 DEF Enter, EpollCtl
  <2> QED
    BY <2>2, <2>3
<1>5. /\ pc' \in [Threads -> {"run", "taken", "callback", "yield", "timers", "stopping", "pending",
                         "wait", "expired", "schedule", "events", "add", "del", "trigger",
                         "uncount", "gone"}]
      /\ pc'[t] = l /\ \A u \in Threads : u # t => pc'[u] = pc[u]
  BY DEF Enter, Goto, IInv, TypeOK, InCall
<1>6. EnterTypes'
  BY <1>2, <1>3, <1>4, <1>5 DEF EnterTypes
<1>7. EntersWith(t, fd, add, set, evs, c, l)
  BY <1>1, <1>2, <1>3, <1>4, <1>5 DEF EntersWith
<1> QED
  BY <1>6, <1>7

(* delEvent(), cancelEvent(), cancelAll() and idle() enter to remove evs:  *)
(* epoll has been told what will be left, unless the descriptor was closed *)
(* and epoll watches nothing anyway.                                       *)
LEMMA RemoveStep ==
  ASSUME IInv, NEW t \in Threads, NEW fd \in Fds, NEW evs \in SUBSET Directions, evs # {},
         NEW l \in {"del", "trigger"}, pc[t] \in {"callback", "events"},
         Enter(t, fd, FALSE, events[fd] \ evs, evs, None, l),
         l = "del" => pc[t] = "callback",
         l = "del" => \E ev \in Directions : evs = {ev} /\ ev \in events[fd],
         l = "trigger" => events[fd] # {},
         got' \in [Threads -> SUBSET (Fds \X (SUBSET (Directions \cup {HUP})))],
         UNCHANGED <<open, ready, m_timers, due, m_recurring, cbs, events, ctx>>,
         UNCHANGED <<m_pendingEventCount, m_tasks, m_activeThreadCount, m_stopping, ended, cb>>,
         UNCHANGED <<given, done, removed, orphaned, late>>
  PROVE  IInv'
<1>0. events[fd] \ evs \in SUBSET Directions /\ None \in Callbacks \cup {None} /\ pc[t] \notin InCall /\ l \in InCall
  BY DEF IInv, TypeOK, InCall
<1>1. EnterTypes' /\ EntersWith(t, fd, FALSE, events[fd] \ evs, evs, None, l)
  BY <1>0, EnterFacts
<1>2. /\ op[t] = NoOp /\ holder[fd] = None /\ holder'[fd] = t
      /\ pc'[t] = l /\ op'[t] = <<fd, evs, None>>
      /\ interest'[fd] = (IF Accepts(fd, FALSE) THEN events[fd] \ evs ELSE interest[fd])
      /\ \A u \in Threads : u # t => pc'[u] = pc[u] /\ op'[u] = op[u]
      /\ \A f \in Fds : f # fd => holder'[f] = holder[f] /\ interest'[f] = interest[f]
  BY <1>1 DEF EntersWith
<1>3. TypeOK'
  BY <1>1 DEF IInv, TypeOK, EnterTypes
<1>4. \A f \in Fds : Live(f)' = Live(f)
  BY DEF Live
<1>5. CallInv'
  <2>1. CallerInv(t)' /\ HolderInv(fd)'
    BY <1>0, <1>2 DEF CallerInv, HolderInv
  <2>2. StepInv(t)'
    BY <1>2 DEF StepInv
  <2>3. ContextInv'
    BY DEF IInv, CallInv, ContextInv
  <2>4. WatchedInv(fd)'
    <3>1. WatchedInv(fd)
      BY DEF IInv, CallInv, InterestInv
    <3>2. interest[fd] = Live(fd) /\ (Live(fd) = {} \/ Live(fd) = events[fd])
          /\ (fd \notin open => interest[fd] = {})
      BY <1>2, <3>1 DEF WatchedInv
    <3>3. interest'[fd] = Live(fd) \ evs
      BY <1>2, <3>2 DEF Accepts
    <3>4. fd \notin open => interest'[fd] = {}
      BY <3>2, <3>3
    <3>5. holder'[fd] # None /\ pc'[holder'[fd]] # "add" /\ op'[holder'[fd]][2] = evs
      BY <1>2, IOAssumption
    <3> QED
      BY <1>4, <3>2, <3>3, <3>4, <3>5 DEF WatchedInv
  <2>5. OneDirection /\ pc'[t] = "trigger" => First(op'[t][2]) \in events'[op'[t][1]]
    <3> SUFFICES ASSUME OneDirection, l = "trigger" PROVE First(evs) \in events[fd]
      BY <1>2
    <3>1. First(evs) \in evs
      BY FirstIn
    <3> QED
      BY <3>1 DEF OneDirection, IInv, TypeOK
  <2> QED
    BY <1>0, <1>2, <1>4, <2>1, <2>2, <2>3, <2>4, <2>5, OthersKeep
<1>6. PlaceInv' /\ RecurringInv' /\ OrphanInv'
  <2>1. \A u \in Threads : op'[u][3] = op[u][3] /\ (pc'[u] = "yield" <=> pc[u] = "yield")
    BY <1>2 DEF NoOp
  <2> QED
    BY <2>1, PlaceFrame DEF IInv
<1>7. CountInv'
  <2>1. \A u \in Threads : /\ pc'[u] = "uncount" <=> pc[u] = "uncount"
                           /\ pc'[u] = "taken" <=> pc[u] = "taken"
    BY <1>2
  <2> QED
    BY <2>1, CountFrame DEF IInv
<1>8. StopInv'
  BY <1>2, StopQuiet DEF NoOp
<1>9. LocalInv'
  BY <1>2 DEF IInv, LocalInv, Taskless
<1> QED
  BY <1>3, <1>5, <1>6, <1>7, <1>8, <1>9 DEF IInv

(* delEvent(), to epoll_ctl() *)
LEMMA DelEventStep ==
  ASSUME IInv, NEW t \in Threads, NEW fd \in Fds, NEW ev \in Directions, DelEvent(t, fd, ev)
  PROVE  IInv'
<1>1. /\ Enter(t, fd, FALSE, events[fd] \ {ev}, {ev}, None, "del")
      /\ pc[t] = "callback" /\ ev \in events[fd]
      /\ UNCHANGED <<open, ready, m_timers, due, m_recurring, cbs, events, ctx>>
      /\ UNCHANGED <<m_pendingEventCount, m_tasks, m_activeThreadCount, m_stopping, ended, cb, got>>
      /\ UNCHANGED <<given, done, removed, orphaned, late>>
  BY DEF DelEvent
<1>2. got' \in [Threads -> SUBSET (Fds \X (SUBSET (Directions \cup {HUP})))]
  BY <1>1 DEF IInv, TypeOK
<1> QED
  BY <1>1, <1>2, RemoveStep

(* cancelEvent(), to epoll_ctl() *)
LEMMA CancelEventStep ==
  ASSUME IInv, NEW t \in Threads, NEW fd \in Fds, NEW ev \in Directions, CancelEvent(t, fd, ev)
  PROVE  IInv'
<1>1. /\ Enter(t, fd, FALSE, events[fd] \ {ev}, {ev}, None, "trigger")
      /\ pc[t] = "callback" /\ events[fd] # {}
      /\ UNCHANGED <<open, ready, m_timers, due, m_recurring, cbs, events, ctx>>
      /\ UNCHANGED <<m_pendingEventCount, m_tasks, m_activeThreadCount, m_stopping, ended, cb, got>>
      /\ UNCHANGED <<given, done, removed, orphaned, late>>
  BY DEF CancelEvent
<1>2. got' \in [Threads -> SUBSET (Fds \X (SUBSET (Directions \cup {HUP})))]
  BY <1>1 DEF IInv, TypeOK
<1> QED
  BY <1>1, <1>2, RemoveStep

(* cancelAll(), to epoll_ctl() *)
LEMMA CancelAllStep ==
  ASSUME IInv, NEW t \in Threads, NEW fd \in Fds, CancelAll(t, fd)
  PROVE  IInv'
<1>1. /\ Enter(t, fd, FALSE, {}, events[fd], None, "trigger")
      /\ pc[t] = "callback" /\ events[fd] # {}
      /\ UNCHANGED <<open, ready, m_timers, due, m_recurring, cbs, events, ctx>>
      /\ UNCHANGED <<m_pendingEventCount, m_tasks, m_activeThreadCount, m_stopping, ended, cb, got>>
      /\ UNCHANGED <<given, done, removed, orphaned, late>>
  BY DEF CancelAll
<1>2. got' \in [Threads -> SUBSET (Fds \X (SUBSET (Directions \cup {HUP})))]
      /\ events[fd] \in SUBSET Directions
  BY <1>1 DEF IInv, TypeOK
<1>3. events[fd] \ events[fd] = {}
  OBVIOUS
<1> QED
  BY <1>1, <1>2, <1>3, RemoveStep

(* idle() drops a report, or goes on like cancelEvent(). *)
LEMMA HandleEventStep ==
  ASSUME IInv, NEW t \in Threads, HandleEvent(t)
  PROVE  IInv'
<1>1. PICK e \in got[t] :
        /\ got' = [got EXCEPT ![t] = @ \ {e}]
        /\ IF Skipped(e[1], RealEvents(e[1], e[2])) \/ ~Accepts(e[1], FALSE)
           THEN /\ holder[e[1]] = None
                /\ UNCHANGED <<epollVars, holder, op, pc>>
           ELSE Enter(t, e[1], FALSE, LeftEvents(e[1], RealEvents(e[1], e[2])),
                      RealEvents(e[1], e[2]), None, "trigger")
  BY DEF HandleEvent
<1> DEFINE fd == e[1]
           real == RealEvents(e[1], e[2])
<1>2. /\ pc[t] = "events"
      /\ UNCHANGED <<open, ready, m_timers, due, m_recurring, cbs, events, ctx>>
      /\ UNCHANGED <<m_pendingEventCount, m_tasks, m_activeThreadCount, m_stopping, ended, cb>>
      /\ UNCHANGED <<given, done, removed, orphaned, late>>
  BY DEF HandleEvent
<1>3. /\ got' \in [Threads -> SUBSET (Fds \X (SUBSET (Directions \cup {HUP})))]
      /\ fd \in Fds /\ e[2] \in SUBSET (Directions \cup {HUP})
  BY <1>1 DEF IInv, TypeOK
<1>4. real \in SUBSET Directions
  BY <1>3 DEF RealEvents, IInv, TypeOK
<1>5. CASE Skipped(fd, real) \/ ~Accepts(fd, FALSE)
  <2>1. UNCHANGED <<interest, armed, holder, op, pc>>
    BY <1>1, <1>5
  <2>2. TypeOK'
    BY <1>2, <1>3, <2>1 DEF IInv, TypeOK
  <2> QED
    BY <1>2, <2>1, <2>2, WorldStep
<1>6. CASE ~(Skipped(fd, real) \/ ~Accepts(fd, FALSE))
  <2>1. Enter(t, fd, FALSE, events[fd] \ real, real, None, "trigger")
    BY <1>1, <1>6 DEF LeftEvents
  <2>2. real # {} /\ events[fd] # {}
    BY <1>6 DEF Skipped
  <2> HIDE DEF real, fd
  <2> QED
    BY <1>2, <1>3, <1>4, <2>1, <2>2, RemoveStep
<1> QED
  BY <1>5, <1>6

(* The only thread that adds a callback is the one that holds it, and it   *)
(* was not closed under: it is new, or it is what the thread runs.         *)
LEMMA AddEventStep ==
  ASSUME IInv, NEW t \in Threads, NEW fd \in Fds, NEW ev \in Directions, NEW c \in Callbacks,
         AddEvent(t, fd, ev, c)
  PROVE  IInv'
<1>1. /\ Enter(t, fd, events[fd] = {}, events[fd] \cup {ev}, {ev}, c, "add")
      /\ c \notin given \/ c = cb[t]
      /\ ev \notin events[fd] /\ Accepts(fd, events[fd] = {})
      /\ c \notin m_recurring /\ given' = given \cup {c}
      /\ t \in ended => late' = late \cup {c}
      /\ t \notin ended => late' = late \ {c}
      /\ UNCHANGED <<open, ready, m_timers, due, m_recurring, cbs, events, ctx>>
      /\ UNCHANGED <<m_pendingEventCount, m_tasks, m_activeThreadCount, m_stopping, ended, cb, got>>
      /\ UNCHANGED <<done, removed, orphaned>>
  BY DEF AddEvent, AddInterest, Accept, IInv, TypeOK
<1>2. events[fd] \cup {ev} \in SUBSET Directions /\ {ev} \in SUBSET Directions
      /\ pc[t] = "callback" /\ pc[t] \notin InCall /\ "add" \in InCall
  BY <1>1 DEF IInv, TypeOK, InCall, AddEvent
<1>3. EnterTypes' /\ EntersWith(t, fd, events[fd] = {}, events[fd] \cup {ev}, {ev}, c, "add")
  BY <1>1, <1>2, EnterFacts
<1>4. /\ op[t] = NoOp /\ holder[fd] = None /\ holder'[fd] = t
      /\ pc'[t] = "add" /\ op'[t] = <<fd, {ev}, c>>
      /\ interest'[fd] = events[fd] \cup {ev}
      /\ \A u \in Threads : u # t => pc'[u] = pc[u] /\ op'[u] = op[u]
      /\ \A f \in Fds : f # fd => holder'[f] = holder[f] /\ interest'[f] = interest[f]
  BY <1>1, <1>3 DEF EntersWith
<1>5. TypeOK'
  <2>1. late' \subseteq Callbacks
    BY <1>1 DEF IInv, TypeOK
  <2> QED
    BY <1>1, <1>3, <2>1 DEF IInv, TypeOK, EnterTypes
<1>6. \A f \in Fds : Live(f)' = Live(f)
  BY <1>1 DEF Live
<1>7. c # None /\ cb[t] # None
  BY <1>2, IOAssumption DEF IInv, LocalInv
<1>8. WaitsAt(c) = {} /\ AddedAt(c) = {} /\ RunsAt(c) \subseteq {t}
  <2>1. CASE c \notin given
    BY <1>1, <2>1 DEF IInv, PlaceInv, PlaceOf
  <2>2. CASE c = cb[t]
    <3>1. t \in RunsAt(c)
      BY <1>2, <2>2 DEF RunsAt
    <3> QED
      BY <1>1, <3>1, OnePlace DEF IInv
  <2> QED
    BY <1>1, <2>1, <2>2
<1>9. \A u \in Threads : op[u][3] # c
  <2> SUFFICES ASSUME NEW u \in Threads, op[u][3] = c PROVE FALSE
    OBVIOUS
  <2>1. pc[u] = "add"
    BY <1>7 DEF IInv, CallInv, OpInv, StepInv
  <2>2. u \in AddedAt(c) \/ u \in RunsAt(c)
    BY <2>1 DEF AddedAt, RunsAt
  <2> QED
    BY <1>2, <1>8, <2>1, <2>2
<1>10. c \notin orphaned
  BY <1>8, <1>9 DEF IInv, OrphanInv
<1>11. CallInv'
  <2>1. CallerInv(t)' /\ HolderInv(fd)'
    BY <1>2, <1>4 DEF CallerInv, HolderInv
  <2>2. StepInv(t)'
    BY <1>1, <1>4 DEF StepInv
  <2>3. ContextInv'
    BY <1>1 DEF IInv, CallInv, ContextInv
  <2>4. WatchedInv(fd)'
    <3>1. WatchedInv(fd)
      BY DEF IInv, CallInv, InterestInv
    <3>2. interest[fd] = Live(fd) /\ (Live(fd) = {} \/ Live(fd) = events[fd])
      BY <1>4, <3>1 DEF WatchedInv
    <3>3. Live(fd) = events[fd] /\ fd \in open
      BY <1>1, <3>2 DEF Accepts, Live
    <3>4. holder'[fd] # None /\ pc'[holder'[fd]] = "add" /\ op'[holder'[fd]] = <<fd, {ev}, c>>
      BY <1>4, IOAssumption
    <3> QED
      BY <1>1, <1>4, <1>6, <1>10, <3>3, <3>4 DEF WatchedInv
  <2> QED
    BY <1>1, <1>2, <1>4, <1>6, <2>1, <2>2, <2>3, <2>4, OthersKeep
<1>12. PlaceInv'
  <2> SUFFICES ASSUME NEW b \in Callbacks \ m_recurring' PROVE PlaceOf(b)'
    BY DEF PlaceInv
  <2>1. PlaceOf(b) /\ b # None /\ b \in Callbacks \ m_recurring
    BY <1>1, IOAssumption DEF IInv, PlaceInv
  <2>2. WaitsAt(b)' = WaitsAt(b) /\ ExpiredAt(b)' = ExpiredAt(b) /\ ListsOf(b)' = ListsOf(b)
    BY <1>1 DEF WaitsAt, ExpiredAt, ListsOf
  <2>3. RunsAt(b)' = RunsAt(b)
    BY <1>1, <1>2, <1>4 DEF RunsAt
  <2>4. CASE b = c /\ c # cb[t]
    <3>1. AddedAt(b)' = {t}
      BY <1>1, <1>4, <1>9, <2>4 DEF AddedAt
    <3>2. b \notin given
      BY <1>1, <2>4
    <3> QED
      BY <1>1, <2>1, <2>2, <2>3, <2>4, <3>1, <3>2 DEF PlaceOf, One
  <2>5. CASE b # c \/ c = cb[t]
    <3>1. AddedAt(b)' = AddedAt(b)
      BY <1>1, <1>4, <2>1, <2>5 DEF AddedAt, NoOp
    <3>2. b \in given' <=> b \in given
      <4>1. CASE b # c
        BY <1>1, <4>1
      <4>2. CASE c = cb[t] /\ b = c
        <5>1. t \in RunsAt(b)
          BY <1>2, <4>2 DEF RunsAt
        <5> QED
          BY <1>1, <5>1, OnePlace DEF IInv
      <4> QED
        BY <2>5, <4>1, <4>2
    <3> QED
      BY <2>1, <2>2, <2>3, <3>1, <3>2, SamePlace
  <2> QED
    BY <2>4, <2>5
<1>13. OrphanInv'
  <2> SUFFICES ASSUME NEW b \in orphaned PROVE WaitsAt(b)' # {} \/ \E u \in Threads : op'[u][3] = b
    BY <1>1 DEF OrphanInv
  <2>1. WaitsAt(b)' = WaitsAt(b)
    BY <1>1 DEF WaitsAt
  <2>2. b # None
    BY IOAssumption DEF IInv, TypeOK
  <2> QED
    BY <1>4, <2>1, <2>2 DEF IInv, OrphanInv, NoOp
<1>14. CountInv'
  <2>1. \A u \in Threads : /\ pc'[u] = "uncount" <=> pc[u] = "uncount"
                           /\ pc'[u] = "taken" <=> pc[u] = "taken"
    BY <1>2, <1>4
  <2> QED
    BY <1>1, <2>1, CountFrame DEF IInv
<1>15. StopInv'
  <2>1. CASE t \in ended
    <3>1. Waiting' = Waiting
      BY <1>1 DEF Waiting
    <3>2. ended \subseteq Threads
      BY DEF IInv, TypeOK
    <3> QED
      BY <1>1, <1>4, <2>1, <3>1, <3>2, StopFrame DEF IInv
  <2>2. CASE t \notin ended
    <3>1. ended \subseteq Threads
      BY DEF IInv, TypeOK
    <3> QED
      BY <1>1, <1>4, <1>9, <2>2, <3>1 DEF IInv, StopInv
  <2> QED
    BY <2>1, <2>2
<1>16. LocalInv'
  BY <1>1, <1>2, <1>4 DEF IInv, LocalInv, Taskless
<1>17. RecurringInv'
  <2>1. \A b : WaitsAt(b)' = WaitsAt(b)
    BY <1>1 DEF WaitsAt
  <2>2. \A b \in m_recurring, u \in Threads : op'[u][3] = b => op[u][3] = b
    BY <1>1, <1>4
  <2> QED
    BY <1>1, <2>1, <2>2, RecurringFrame DEF IInv
<1> QED
  BY <1>5, <1>11, <1>12, <1>13, <1>14, <1>15, <1>16, <1>17 DEF IInv

(* A call that leaves: what it changes. *)
LeavesFrom(t, fd) ==
  /\ holder'[fd] = None /\ op'[t] = NoOp
  /\ cb[t] = None => pc'[t] = "events"
  /\ cb[t] # None /\ op[t][3] = cb[t] => pc'[t] = "yield"
  /\ cb[t] # None /\ op[t][3] # cb[t] => pc'[t] = "callback"
  /\ \A u \in Threads : u # t => pc'[u] = pc[u] /\ op'[u] = op[u]
  /\ \A f \in Fds : f # fd => holder'[f] = holder[f]

(* Leave() does what LeavesFrom() says. *)
LEMMA LeaveFacts ==
  ASSUME TypeOK, NEW t \in Threads, NEW fd \in Fds, Leave(t, fd), UNCHANGED <<interest, armed>>
  PROVE  EnterTypes' /\ LeavesFrom(t, fd)
<1> DEFINE l == CASE cb[t] = None -> "events"
                  [] cb[t] # None /\ op[t][3] = cb[t] -> "yield"
                  [] OTHER -> "callback"
<1>1. /\ cb[t] = None => l = "events"
      /\ cb[t] # None /\ op[t][3] = cb[t] => l = "yield"
      /\ cb[t] # None /\ op[t][3] # cb[t] => l = "callback"
  OBVIOUS
<1>2. l \in {"events", "yield", "callback"}
  BY <1>1
<1>3. Goto(t, l) /\ holder' = [holder EXCEPT ![fd] = None] /\ op' = [op EXCEPT ![t] = NoOp]
  BY DEF Leave
<1> HIDE DEF l
<1>4. pc'[t] = l /\ \A u \in Threads : u # t => pc'[u] = pc[u]
  BY <1>3, GotoStep
<1>5. EnterTypes'
  BY <1>2, <1>3 DEF TypeOK, EnterTypes, Goto
<1>6. LeavesFrom(t, fd)
  BY <1>1, <1>3, <1>4 DEF LeavesFrom, TypeOK
<1> QED
  BY <1>5, <1>6

(* One context changes. *)
LEMMA WaitsMove ==
  ASSUME NEW fd \in Fds, NEW ev \in Directions, NEW c,
         \A f \in Fds, e \in Directions : f # fd \/ e # ev => ctx'[f][e] = ctx[f][e]
  PROVE  WaitsAt(c)' = (WaitsAt(c) \ {<<fd, ev>>}) \cup {x \in {<<fd, ev>>} : ctx'[fd][ev] = c}
BY DEF WaitsAt

(* The set of one event has one element to choose. *)
LEMMA ChooseOne == \A d : (CHOOSE e \in {d} : TRUE) = d
OBVIOUS

(* The rest of addEvent(): the callback goes into its context. *)
LEMMA AddContextStep ==
  ASSUME IInv, NEW t \in Threads, AddContext(t)
  PROVE  IInv'
<1>0. op[t][1] \in Fds /\ op[t][3] \in Callbacks
  BY DEF AddContext, IInv, CallInv, LockInv, CallerInv, OpInv, StepInv, InCall
<1>f. PICK fd \in Fds : fd = op[t][1]
  BY <1>0
<1>c. PICK c \in Callbacks : c = op[t][3]
  BY <1>0
<1>1. PICK ev \in Directions : op[t][2] = {ev} /\ ev \notin events[fd]
  BY <1>f DEF AddContext, IInv, CallInv, OpInv, StepInv
<1>2. (CHOOSE e \in op[t][2] : TRUE) = ev
  BY <1>1, ChooseOne
<1>3. holder[fd] = t /\ pc[t] = "add" /\ cb[t] # None /\ pc[t] \in InCall
  BY <1>f DEF AddContext, IInv, CallInv, LockInv, CallerInv, LocalInv, InCall
<1>4. /\ m_pendingEventCount' = m_pendingEventCount + 1
      /\ events' = [events EXCEPT ![fd] = @ \cup {ev}]
      /\ ctx' = [ctx EXCEPT ![fd][ev] = c]
      /\ Leave(t, fd)
      /\ UNCHANGED <<open, ready, m_timers, due, m_recurring, cbs, interest, armed>>
      /\ UNCHANGED <<m_tasks, m_activeThreadCount, m_stopping, ended, cb, got>>
      /\ UNCHANGED <<given, done, removed, orphaned, late>>
  BY <1>2, <1>f, <1>c DEF AddContext
<1>5. /\ events' \in [Fds -> SUBSET Directions] /\ events'[fd] = events[fd] \cup {ev}
      /\ \A f \in Fds : f # fd => events'[f] = events[f]
  BY <1>3, <1>4 DEF IInv, TypeOK
<1>6. /\ ctx' \in [Fds -> [Directions -> Callbacks \cup {None}]]
      /\ ctx'[fd][ev] = c
      /\ \A f \in Fds, e \in Directions : f # fd \/ e # ev => ctx'[f][e] = ctx[f][e]
  <2>1. TypeOK /\ c \in Callbacks \cup {None} /\ ctx' = [ctx EXCEPT ![fd][ev] = c]
    BY <1>4 DEF IInv
  <2> QED
    BY <2>1 DEF TypeOK
<1>7. EnterTypes' /\ LeavesFrom(t, fd)
  BY <1>3, <1>4, LeaveFacts DEF IInv
<1>8. /\ holder'[fd] = None /\ op'[t] = NoOp
      /\ c = cb[t] => pc'[t] = "yield"
      /\ c # cb[t] => pc'[t] = "callback"
      /\ \A u \in Threads : u # t => pc'[u] = pc[u] /\ op'[u] = op[u]
      /\ \A f \in Fds : f # fd => holder'[f] = holder[f]
  BY <1>3, <1>7, <1>c DEF LeavesFrom
<1>9. TypeOK'
  BY <1>4, <1>5, <1>6, <1>7 DEF IInv, TypeOK, EnterTypes
<1>10. CallInv'
  <2>1. CallerInv(t)' /\ HolderInv(fd)'
    BY <1>8 DEF CallerInv, HolderInv, InCall
  <2>2. StepInv(t)'
    BY <1>8 DEF StepInv, NoOp
  <2>3. ContextInv'
    <3> SUFFICES ASSUME NEW f \in Fds, NEW e \in Directions
                 PROVE  ctx'[f][e] = None <=> e \notin events'[f]
      BY DEF ContextInv
    <3>1. CASE f = fd /\ e = ev
      BY <1>3, <1>5, <1>6, <3>1, IOAssumption
    <3>2. CASE f # fd \/ e # ev
      BY <1>5, <1>6, <3>2 DEF IInv, CallInv, ContextInv
    <3> QED
      BY <3>1, <3>2
  <2>4. ASSUME NEW f \in Fds, f # fd PROVE Live(f)' = Live(f)
    <3>1. \A e \in events[f] : ctx'[f][e] = ctx[f][e]
      BY <1>6, <2>4 DEF IInv, TypeOK
    <3> QED
      BY <1>4, <1>5, <2>4, <3>1 DEF Live
  <2>5. WatchedInv(fd)'
    <3>1. WatchedInv(fd)
      BY <1>3 DEF IInv, CallInv, InterestInv
    <3>2. /\ fd \notin open => interest[fd] = {}
          /\ Live(fd) = {} \/ Live(fd) = events[fd]
          /\ interest[fd] = Live(fd) \cup (IF c \in orphaned THEN {} ELSE {ev})
          /\ events[fd] # {} => (c \in orphaned <=> Live(fd) = {})
      BY <1>1, <1>3, <3>1, IOAssumption, <1>c DEF WatchedInv
    <3>3. \A e \in events[fd] : ctx'[fd][e] = ctx[fd][e]
      BY <1>1, <1>3, <1>6, <1>f DEF IInv, TypeOK
    <3>4. Live(fd)' = Live(fd) \cup (IF c \in orphaned THEN {} ELSE {ev})
      BY <1>4, <1>5, <1>6, <3>3 DEF Live
    <3>5. Live(fd) \subseteq events[fd]
      BY DEF Live
    <3>6. Live(fd)' = {} \/ Live(fd)' = events'[fd]
      BY <1>5, <3>2, <3>4, <3>5
    <3> QED
      BY <1>4, <1>8, <3>2, <3>4, <3>6 DEF WatchedInv
  <2>6. pc'[t] # "trigger" /\ (pc[t] \in InCall => op[t][1] = fd)
    BY <1>8, <1>f
  <2> QED
    BY <1>3, <1>4, <1>5, <1>8, <2>1, <2>2, <2>3, <2>4, <2>5, <2>6, OthersKeep
<1>11. <<fd, ev>> \notin WaitsAt(c) /\ <<fd, ev>> \in Fds \X Directions /\ ctx[fd][ev] = None
  BY <1>1, <1>3, IOAssumption, <1>f DEF IInv, CallInv, ContextInv, WaitsAt
<1>12. PlaceInv'
  <2> SUFFICES ASSUME NEW b \in Callbacks \ m_recurring' PROVE PlaceOf(b)'
    BY DEF PlaceInv
  <2>1. PlaceOf(b) /\ b # None /\ b \in Callbacks \ m_recurring
    BY <1>4, IOAssumption DEF IInv, PlaceInv
  <2>2. ExpiredAt(b)' = ExpiredAt(b) /\ ListsOf(b)' = ListsOf(b)
    BY <1>4 DEF ExpiredAt, ListsOf
  <2>3. WaitsAt(b)' = (WaitsAt(b) \ {<<fd, ev>>}) \cup {x \in {<<fd, ev>>} : c = b}
    BY <1>3, <1>6, WaitsMove
  <2>4. RunsAt(b)' = (RunsAt(b) \ {t}) \cup {u \in {t} : cb[t] = b /\ c # cb[t]}
    <3>1. pc'[t] # "yield" <=> c # cb[t]
      BY <1>8
    <3> QED
      BY <1>4, <1>8, <3>1, RunsMove
  <2>5. AddedAt(b)' = AddedAt(b) \ {t}
    BY <1>4, <1>8, <2>1 DEF AddedAt, NoOp
  <2>6. CASE b = c
    <3>1. CASE c = cb[t]
      <4>1. t \in RunsAt(b)
        BY <1>3, <2>6, <3>1 DEF RunsAt
      <4>2. /\ b \in given /\ RunsAt(b) = {t} /\ WaitsAt(b) = {} /\ AddedAt(b) = {}
            /\ ExpiredAt(b) = {} /\ ListsOf(b) = {}
        BY <2>1, <4>1, OnePlace DEF IInv
      <4>3. WaitsAt(b)' = {<<fd, ev>>} /\ RunsAt(b)' = {} /\ AddedAt(b)' = {}
        BY <2>3, <2>4, <2>5, <2>6, <3>1, <4>2
      <4> QED
        BY <1>4, <2>2, <4>2, <4>3 DEF PlaceOf, One
    <3>2. CASE c # cb[t]
      <4>1. t \in AddedAt(b)
        BY <2>6, <3>2, <1>c DEF AddedAt
      <4>2. /\ b \in given /\ AddedAt(b) = {t} /\ WaitsAt(b) = {} /\ RunsAt(b) = {}
            /\ ExpiredAt(b) = {} /\ ListsOf(b) = {}
        BY <2>1, <4>1, OnePlace DEF IInv
      <4>3. WaitsAt(b)' = {<<fd, ev>>} /\ RunsAt(b)' = {} /\ AddedAt(b)' = {}
        BY <2>3, <2>4, <2>5, <2>6, <3>2, <4>2
      <4> QED
        BY <1>4, <2>2, <4>2, <4>3 DEF PlaceOf, One
    <3> QED
      BY <3>1, <3>2
  <2>7. CASE b # c
    <3>1. <<fd, ev>> \notin WaitsAt(b)
      BY <1>11, <2>1 DEF WaitsAt
    <3>2. WaitsAt(b)' = WaitsAt(b)
      BY <2>3, <2>7, <3>1
    <3>3. t \notin AddedAt(b)
      BY <2>7, <1>c DEF AddedAt
    <3>4. AddedAt(b)' = AddedAt(b)
      BY <2>5, <3>3
    <3>5. t \in RunsAt(b) <=> cb[t] = b
      BY <1>3 DEF RunsAt
    <3>6. RunsAt(b)' = RunsAt(b)
      BY <2>4, <2>7, <3>5
    <3> QED
      BY <1>4, <2>1, <2>2, <3>2, <3>4, <3>6, SamePlace
  <2> QED
    BY <2>6, <2>7
<1>13. OrphanInv'
  <2> SUFFICES ASSUME NEW b \in orphaned PROVE WaitsAt(b)' # {} \/ \E u \in Threads : op'[u][3] = b
    BY <1>4 DEF OrphanInv
  <2>1. WaitsAt(b)' = (WaitsAt(b) \ {<<fd, ev>>}) \cup {x \in {<<fd, ev>>} : c = b}
    BY <1>3, <1>6, WaitsMove
  <2>2. b # None
    BY IOAssumption DEF IInv, TypeOK
  <2>3. <<fd, ev>> \notin WaitsAt(b)
    BY <1>11, <2>2 DEF WaitsAt
  <2>4. CASE b = c
    BY <2>1, <2>4
  <2>5. CASE b # c
    BY <1>8, <2>1, <2>3, <2>5, <1>c DEF IInv, OrphanInv
  <2> QED
    BY <2>4, <2>5
<1>14. CountInv'
  <2>1. Active' = Active /\ Uncounting' = Uncounting
    BY <1>3, <1>4, <1>8 DEF Active, Uncounting
  <2>2. <<fd, ev>> \notin Registered
    BY <1>1, <1>3 DEF Registered
  <2>3. Registered' = Registered \cup {<<fd, ev>>}
    BY <1>3, <1>5 DEF Registered
  <2>4. Cardinality(Registered') = Cardinality(Registered) + 1
    BY <2>2, <2>3, Finite, OneMore
  <2>5. Cardinality(Registered) \in Nat /\ Cardinality(Uncounting) \in Nat
    BY Finite, FS_CardinalityType
  <2>6. m_pendingEventCount = Cardinality(Registered) + Cardinality(Uncounting)
    BY DEF IInv, CountInv, PendingExact, Registered, Uncounting
  <2>7. m_pendingEventCount' = Cardinality(Registered') + Cardinality(Uncounting')
    BY <1>4, <2>1, <2>4, <2>5, <2>6
  <2>8. PendingExact'
    BY <2>7 DEF PendingExact, Registered, Uncounting
  <2> QED
    BY <1>4, <2>1, <2>8 DEF IInv, CountInv, ActiveExact
<1>15. StopInv'
  <2>1. t \in ended => c \in late
    BY <1>c, IOAssumption DEF IInv, StopInv
  <2>2. \A f \in Fds, e \in Directions : ctx'[f][e] \in {c, ctx[f][e]}
    BY <1>6
  <2>3. Waiting' \subseteq Waiting \cup {c}
    BY <2>2 DEF Waiting
  <2>4. ended \subseteq Threads
    BY DEF IInv, TypeOK
  <2>5. CASE t \in ended
    BY <1>4, <1>8, <2>1, <2>3, <2>4, <2>5, StopFrame DEF IInv, NoOp
  <2>6. CASE t \notin ended
    BY <1>4, <1>8, <2>4, <2>6 DEF IInv, StopInv
  <2> QED
    BY <2>5, <2>6
<1>16. LocalInv'
  BY <1>3, <1>4, <1>8 DEF IInv, LocalInv, Taskless
<1>17. RecurringInv'
  <2>1. c \notin m_recurring /\ None \notin m_recurring
    BY <1>c, IOAssumption DEF IInv, RecurringInv, RecurringOf, TypeOK
  <2>2. \A b : WaitsAt(b)' = (WaitsAt(b) \ {<<fd, ev>>}) \cup {x \in {<<fd, ev>>} : c = b}
    BY <1>3, <1>6, WaitsMove
  <2>3. \A b \in m_recurring : WaitsAt(b)' \subseteq WaitsAt(b)
    BY <2>1, <2>2
  <2>4. \A b \in m_recurring, u \in Threads : op'[u][3] = b => op[u][3] = b
    BY <1>8, <2>1 DEF NoOp
  <2> QED
    BY <1>4, <2>3, <2>4, RecurringFrame DEF IInv
<1> QED
  BY <1>9, <1>10, <1>12, <1>13, <1>14, <1>15, <1>16, <1>17 DEF IInv

(* resetContext() and triggerEvent() take the callback k out of a context. *)
Drops(fd, ev, k) ==
  /\ ev \in events[fd] /\ k = ctx[fd][ev]
  /\ events' = [events EXCEPT ![fd] = @ \ {ev}]
  /\ ctx' = [ctx EXCEPT ![fd][ev] = None]
  /\ orphaned' = orphaned \ {k}

Dropped(fd, ev, k) ==
  /\ events' \in [Fds -> SUBSET Directions] /\ events'[fd] = events[fd] \ {ev}
  /\ \A f \in Fds : f # fd => events'[f] = events[f] /\ Live(f)' = Live(f)
  /\ ctx' \in [Fds -> [Directions -> Callbacks \cup {None}]]
  /\ Live(fd)' = Live(fd) \ {ev}
  /\ ContextInv'
  /\ \A u \in Threads : op[u][3] \in orphaned' <=> op[u][3] \in orphaned
  /\ k \in Callbacks /\ k \in given
  /\ WaitsAt(k) # {} /\ WaitsAt(k)' = {} /\ RunsAt(k) = {} /\ AddedAt(k) = {}
  /\ ExpiredAt(k) = {} /\ ListsOf(k) = {}
  /\ \A b \in Callbacks : b # k => WaitsAt(b)' = WaitsAt(b)
  /\ <<fd, ev>> \in Registered /\ Registered' = Registered \ {<<fd, ev>>}
  /\ k \notin m_recurring /\ \A b \in m_recurring : WaitsAt(b)' \subseteq WaitsAt(b)
  /\ Waiting' \subseteq Waiting

(* The descriptor and the callback k once it is out of its context. *)
LEMMA DropFacts ==
  ASSUME IInv, NEW fd \in Fds, NEW ev \in Directions, NEW k, Drops(fd, ev, k)
  PROVE  Dropped(fd, ev, k)
<1>0. UniqueInv
  BY Unique DEF IInv, CallInv
<1>1. /\ events' \in [Fds -> SUBSET Directions] /\ events'[fd] = events[fd] \ {ev}
      /\ \A f \in Fds : f # fd => events'[f] = events[f]
  BY DEF Drops, IInv, TypeOK
<1>2. /\ ctx' \in [Fds -> [Directions -> Callbacks \cup {None}]]
      /\ ctx'[fd][ev] = None
      /\ \A f \in Fds, e \in Directions : f # fd \/ e # ev => ctx'[f][e] = ctx[f][e]
  <2>1. TypeOK /\ ctx' = [ctx EXCEPT ![fd][ev] = None]
    BY DEF Drops, IInv
  <2> QED
    BY <2>1 DEF TypeOK
<1>3. ev \in events[fd] /\ k = ctx[fd][ev] /\ k # None /\ k \in Callbacks /\ k \notin m_recurring
      /\ orphaned' = orphaned \ {k}
  <2>1. ev \in events[fd] /\ k = ctx[fd][ev] /\ orphaned' = orphaned \ {k}
    BY DEF Drops
  <2>2. k # None
    BY <2>1 DEF IInv, CallInv, ContextInv
  <2>3. ctx[fd][ev] \in Callbacks \cup {None}
    BY DEF IInv, TypeOK
  <2>4. <<fd, ev>> \in WaitsAt(k)
    BY <2>1 DEF WaitsAt
  <2>5. k \notin m_recurring
    BY <2>4 DEF IInv, RecurringInv, RecurringOf
  <2> QED
    BY <2>1, <2>2, <2>3, <2>5
<1>4. \A f \in Fds, e \in Directions :
        f # fd \/ e # ev => (ctx'[f][e] \in orphaned' <=> ctx[f][e] \in orphaned)
  BY <1>0, <1>2, <1>3 DEF UniqueInv
<1>5. \A f \in Fds : events[f] \subseteq Directions
  BY DEF IInv, TypeOK
<1>6. ASSUME NEW f \in Fds, f # fd PROVE Live(f)' = Live(f)
  BY <1>1, <1>4, <1>5, <1>6 DEF Live
<1>7. Live(fd)' = Live(fd) \ {ev}
  BY <1>1, <1>4, <1>5 DEF Live
<1>8. ContextInv'
  <2> SUFFICES ASSUME NEW f \in Fds, NEW e \in Directions
               PROVE  ctx'[f][e] = None <=> e \notin events'[f]
    BY DEF ContextInv
  <2>1. CASE f = fd /\ e = ev
    BY <1>1, <1>2, <2>1
  <2>2. CASE f # fd \/ e # ev
    BY <1>1, <1>2, <2>2 DEF IInv, CallInv, ContextInv
  <2> QED
    BY <2>1, <2>2
<1>9. \A u \in Threads : op[u][3] \in orphaned' <=> op[u][3] \in orphaned
  BY <1>0, <1>3 DEF UniqueInv
<1>10. <<fd, ev>> \in WaitsAt(k)
  BY <1>3 DEF WaitsAt
<1>11. /\ k \in given /\ WaitsAt(k) = {<<fd, ev>>} /\ RunsAt(k) = {} /\ AddedAt(k) = {}
       /\ ExpiredAt(k) = {} /\ ListsOf(k) = {}
  BY <1>3, <1>10, OnePlace DEF IInv
<1>12. \A b : WaitsAt(b)' = (WaitsAt(b) \ {<<fd, ev>>}) \cup {x \in {<<fd, ev>>} : None = b}
  BY <1>2, WaitsMove
<1>13. WaitsAt(k)' = {}
  BY <1>3, <1>11, <1>12
<1>14. ASSUME NEW b \in Callbacks, b # k PROVE WaitsAt(b)' = WaitsAt(b)
  <2>1. <<fd, ev>> \notin WaitsAt(b) /\ b # None
    BY <1>3, <1>14, IOAssumption DEF WaitsAt
  <2> QED
    BY <1>12, <2>1
<1>15. <<fd, ev>> \in Registered
  BY <1>3 DEF Registered
<1>16. Registered' = Registered \ {<<fd, ev>>}
  BY <1>1 DEF Registered
<1>17. \A b \in m_recurring : WaitsAt(b)' \subseteq WaitsAt(b)
  <2>1. m_recurring \subseteq Callbacks
    BY IOAssumption DEF IInv, TypeOK
  <2> QED
    BY <1>3, <1>14, <2>1
<1>18. Waiting' \subseteq Waiting
  <2>1. \A f \in Fds, e \in Directions : ctx'[f][e] \in {None, ctx[f][e]}
    BY <1>2
  <2> QED
    BY <2>1 DEF Waiting
<1> QED
  BY <1>1, <1>2, <1>3, <1>6, <1>7, <1>8, <1>9, <1>11, <1>13, <1>14, <1>15, <1>16, <1>17, <1>18
  DEF Dropped

(* The rest of delEvent(): the callback is dropped. *)
LEMMA DelContextStep ==
  ASSUME IInv, NEW t \in Threads, DelContext(t)
  PROVE  IInv'
<1>0. op[t][1] \in Fds
  BY DEF DelContext, IInv, CallInv, LockInv, CallerInv, InCall
<1>f. PICK fd \in Fds : fd = op[t][1]
  BY <1>0
<1>1. PICK ev \in Directions : op[t][2] = {ev} /\ ev \in events[fd]
  BY <1>f DEF DelContext, IInv, CallInv, OpInv, StepInv
<1>2. (CHOOSE e \in op[t][2] : TRUE) = ev
  BY <1>1, ChooseOne
<1>k. PICK k : k = ctx[fd][ev]
  OBVIOUS
<1>3. holder[fd] = t /\ pc[t] = "del" /\ cb[t] # None /\ pc[t] \in InCall /\ op[t][3] = None
  BY <1>f DEF DelContext, IInv, CallInv, LockInv, CallerInv, OpInv, StepInv, LocalInv, InCall
<1>4. /\ m_pendingEventCount' = m_pendingEventCount - 1
      /\ removed' = removed \cup {k}
      /\ Leave(t, fd)
      /\ UNCHANGED <<open, ready, m_timers, due, m_recurring, cbs, interest, armed>>
      /\ UNCHANGED <<m_tasks, m_activeThreadCount, m_stopping, ended, cb, got>>
      /\ UNCHANGED <<given, done, late>>
  BY <1>2, <1>f, <1>k DEF DelContext, CountAfterDel
<1>5. Drops(fd, ev, k)
  BY <1>1, <1>2, <1>f, <1>k DEF DelContext, Drops
<1>6. Dropped(fd, ev, k)
  BY <1>5, DropFacts
<1>7. EnterTypes' /\ LeavesFrom(t, fd)
  BY <1>4, LeaveFacts DEF IInv
<1>8. /\ holder'[fd] = None /\ op'[t] = NoOp /\ pc'[t] = "callback"
      /\ \A u \in Threads : u # t => pc'[u] = pc[u] /\ op'[u] = op[u]
      /\ \A f \in Fds : f # fd => holder'[f] = holder[f]
  BY <1>3, <1>7 DEF LeavesFrom
<1>9. CountInv' /\ m_pendingEventCount' \in Nat
  <2>1. Active' = Active /\ Uncounting' = Uncounting
    BY <1>3, <1>4, <1>8 DEF Active, Uncounting
  <2>2. <<fd, ev>> \in Registered /\ Registered' = Registered \ {<<fd, ev>>}
    BY <1>6 DEF Dropped
  <2>3. Cardinality(Registered') = Cardinality(Registered) - 1 /\ Cardinality(Registered) > 0
    BY <2>2, Finite, OneLess
  <2>4. Cardinality(Registered) \in Nat /\ Cardinality(Uncounting) \in Nat
    BY Finite, FS_CardinalityType
  <2>5. m_pendingEventCount = Cardinality(Registered) + Cardinality(Uncounting)
    BY DEF IInv, CountInv, PendingExact, Registered, Uncounting
  <2>6. m_pendingEventCount' = Cardinality(Registered') + Cardinality(Uncounting')
        /\ m_pendingEventCount' \in Nat
    BY <1>4, <2>1, <2>3, <2>4, <2>5
  <2>7. PendingExact'
    BY <2>6 DEF PendingExact, Registered, Uncounting
  <2> QED
    BY <1>4, <2>1, <2>6, <2>7 DEF IInv, CountInv, ActiveExact
<1>10. TypeOK'
  BY <1>4, <1>5, <1>6, <1>7, <1>9 DEF IInv, TypeOK, EnterTypes, Dropped, Drops
<1>11. CallInv'
  <2>1. CallerInv(t)' /\ HolderInv(fd)'
    BY <1>8 DEF CallerInv, HolderInv, InCall
  <2>2. StepInv(t)'
    BY <1>8 DEF StepInv, NoOp
  <2>3. WatchedInv(fd)'
    <3>1. WatchedInv(fd)
      BY DEF IInv, CallInv, InterestInv
    <3>2. /\ fd \notin open => interest[fd] = {}
          /\ Live(fd) = {} \/ Live(fd) = events[fd]
          /\ interest[fd] = Live(fd) \ {ev}
      BY <1>1, <1>3, <3>1, IOAssumption DEF WatchedInv
    <3>3. Live(fd)' = Live(fd) \ {ev} /\ events'[fd] = events[fd] \ {ev}
      BY <1>6 DEF Dropped
    <3> QED
      BY <1>4, <1>8, <3>2, <3>3 DEF WatchedInv
  <2>4. ContextInv' /\ pc'[t] # "trigger" /\ op[t][1] = fd
    BY <1>6, <1>8, <1>f DEF Dropped
  <2>5. /\ \A u \in Threads : op[u][3] \in orphaned' <=> op[u][3] \in orphaned
        /\ \A f \in Fds : f # fd => events'[f] = events[f] /\ Live(f)' = Live(f)
    BY <1>6 DEF Dropped
  <2> QED
    BY <1>3, <1>4, <1>8, <2>1, <2>2, <2>3, <2>4, <2>5, OthersKeep
<1>12. PlaceInv'
  <2> SUFFICES ASSUME NEW b \in Callbacks \ m_recurring' PROVE PlaceOf(b)'
    BY DEF PlaceInv
  <2>1. PlaceOf(b) /\ b # None /\ b \in Callbacks \ m_recurring
    BY <1>4, IOAssumption DEF IInv, PlaceInv
  <2>2. ExpiredAt(b)' = ExpiredAt(b) /\ RunsAt(b)' = RunsAt(b) /\ AddedAt(b)' = AddedAt(b)
    BY <1>3, <1>4, <1>8, <2>1 DEF ExpiredAt, RunsAt, AddedAt, NoOp
  <2>3. CASE b = k
    <3>1. ListsOf(b)' = {"removed"}
      <4>1. ListsOf(b) = {}
        BY <1>6, <2>3 DEF Dropped
      <4> QED
        BY <1>4, <2>3, <4>1 DEF ListsOf
    <3> QED
      BY <1>4, <1>6, <2>2, <2>3, <3>1 DEF PlaceOf, One, Dropped
  <2>4. CASE b # k
    <3>1. ListsOf(b)' = ListsOf(b)
      BY <1>4, <2>4 DEF ListsOf
    <3>2. WaitsAt(b)' = WaitsAt(b)
      BY <1>6, <2>4 DEF Dropped
    <3> QED
      BY <1>4, <2>1, <2>2, <3>1, <3>2, SamePlace
  <2> QED
    BY <2>3, <2>4
<1>13. OrphanInv'
  <2> SUFFICES ASSUME NEW b \in orphaned' PROVE WaitsAt(b)' # {} \/ \E u \in Threads : op'[u][3] = b
    BY DEF OrphanInv
  <2>1. b \in orphaned /\ b # k /\ b \in Callbacks /\ b # None
    BY <1>5, IOAssumption DEF Drops, IInv, TypeOK
  <2>2. WaitsAt(b)' = WaitsAt(b)
    BY <1>6, <2>1 DEF Dropped
  <2> QED
    BY <1>3, <1>8, <2>1, <2>2 DEF IInv, OrphanInv
<1>14. StopInv' /\ RecurringInv'
  <2>1. /\ Waiting' \subseteq Waiting /\ k \notin m_recurring
        /\ \A b \in m_recurring : WaitsAt(b)' \subseteq WaitsAt(b)
    BY <1>6 DEF Dropped
  <2>2. ended \subseteq Threads /\ None \notin m_recurring
    BY IOAssumption DEF IInv, TypeOK
  <2>3. StopInv'
    BY <1>4, <1>8, <2>1, <2>2, StopFrame DEF IInv, NoOp
  <2>4. \A b \in m_recurring, u \in Threads : op'[u][3] = b => op[u][3] = b
    BY <1>8, <2>2 DEF NoOp
  <2>5. RecurringInv'
    BY <1>4, <2>1, <2>4, RecurringFrame DEF IInv
  <2> QED
    BY <2>3, <2>5
<1>15. LocalInv'
  BY <1>3, <1>4, <1>8 DEF IInv, LocalInv, Taskless
<1> QED
  BY <1>9, <1>10, <1>11, <1>12, <1>13, <1>14, <1>15 DEF IInv

(* triggerEvent(): the callback goes from its context to m_tasks. *)
LEMMA TriggerEventStep ==
  ASSUME IInv, NEW t \in Threads, TriggerEvent(t)
  PROVE  IInv'
<1>0. op[t][1] \in Fds /\ op[t][2] \in SUBSET Directions /\ op[t][2] # {}
  <2>1. op[t][1] \in Fds /\ op[t][2] # {}
    BY DEF TriggerEvent, IInv, CallInv, LockInv, CallerInv, InCall
  <2> QED
    BY <2>1, IOAssumption DEF IInv, TypeOK, NoOp
<1>f. PICK fd \in Fds : fd = op[t][1]
  BY <1>0
<1>e. PICK ev \in Directions : ev = First(op[t][2])
  BY <1>0, FirstIn
<1>1. ev \in op[t][2] /\ ev \in events[fd]
  BY <1>0, <1>e, <1>f, FirstIn DEF TriggerEvent
<1>k. PICK k : k = ctx[fd][ev]
  OBVIOUS
<1>2. /\ pc[t] = "trigger" /\ pc'[t] = "uncount" /\ \A u \in Threads : u # t => pc'[u] = pc[u]
      /\ m_tasks' = m_tasks \cup {k}
      /\ UNCHANGED <<open, ready, m_timers, due, m_recurring, cbs, interest, armed, holder>>
      /\ UNCHANGED <<m_pendingEventCount, m_activeThreadCount, m_stopping, ended, cb, op, got>>
      /\ UNCHANGED <<given, done, removed, late>>
  BY <1>f, <1>e, <1>k, GotoStep DEF IInv, TriggerEvent
<1>3. holder[fd] = t /\ pc[t] \in InCall /\ op[t][3] = None
  BY <1>f, <1>2 DEF IInv, CallInv, LockInv, CallerInv, OpInv, StepInv, InCall
<1>5. Drops(fd, ev, k)
  BY <1>1, <1>f, <1>e, <1>k DEF TriggerEvent, Drops, Taken
<1>6. Dropped(fd, ev, k)
  BY <1>5, DropFacts
<1>9. CountInv'
  <2>1. Active' = Active
    BY <1>2 DEF Active
  <2>2. t \notin Uncounting /\ Uncounting' = Uncounting \cup {t}
    BY <1>2 DEF Uncounting
  <2>3. <<fd, ev>> \in Registered /\ Registered' = Registered \ {<<fd, ev>>}
    BY <1>6 DEF Dropped
  <2>4. Cardinality(Registered') = Cardinality(Registered) - 1 /\ Cardinality(Registered) > 0
    BY <2>3, Finite, OneLess
  <2>5. Cardinality(Uncounting') = Cardinality(Uncounting) + 1
    BY <2>2, Finite, OneMore
  <2>6. Cardinality(Registered) \in Nat /\ Cardinality(Uncounting) \in Nat
    BY Finite, FS_CardinalityType
  <2>7. m_pendingEventCount = Cardinality(Registered) + Cardinality(Uncounting)
    BY DEF IInv, CountInv, PendingExact, Registered, Uncounting
  <2>8. m_pendingEventCount' = Cardinality(Registered') + Cardinality(Uncounting')
    BY <1>2, <2>4, <2>5, <2>6, <2>7
  <2>9. PendingExact'
    BY <2>8 DEF PendingExact, Registered, Uncounting
  <2> QED
    BY <1>2, <2>1, <2>9 DEF IInv, CountInv, ActiveExact
<1>10. TypeOK'
  <2>1. pc' \in [Threads -> {"run", "taken", "callback", "yield", "timers", "stopping", "pending",
                         "wait", "expired", "schedule", "events", "add", "del", "trigger",
                         "uncount", "gone"}]
    BY DEF TriggerEvent, Goto, IInv, TypeOK
  <2> QED
    BY <1>2, <1>5, <1>6, <2>1 DEF IInv, TypeOK, Dropped, Drops
<1>11. CallInv'
  <2>1. CallerInv(t)' /\ HolderInv(fd)'
    BY <1>2, <1>3, <1>0, <1>f DEF CallerInv, HolderInv, InCall
  <2>2. StepInv(t)'
    BY <1>2, <1>3, <1>6, <1>e, <1>f DEF StepInv, Dropped
  <2>3. WatchedInv(fd)'
    <3>1. WatchedInv(fd)
      BY DEF IInv, CallInv, InterestInv
    <3>2. /\ fd \notin open => interest[fd] = {}
          /\ Live(fd) = {} \/ Live(fd) = events[fd]
          /\ interest[fd] = Live(fd) \ op[t][2]
      BY <1>2, <1>3, <3>1, IOAssumption DEF WatchedInv
    <3>3. Live(fd)' = Live(fd) \ {ev} /\ events'[fd] = events[fd] \ {ev}
      BY <1>6 DEF Dropped
    <3>4. interest'[fd] = Live(fd)' \ op'[t][2]
      BY <1>1, <1>2, <3>2, <3>3
    <3>5. holder'[fd] = t /\ t # None /\ pc'[t] # "add"
      BY <1>2, <1>3, IOAssumption
    <3> QED
      BY <1>2, <3>2, <3>3, <3>4, <3>5 DEF WatchedInv
  <2>4. ContextInv' /\ pc'[t] # "trigger" /\ op[t][1] = fd
    BY <1>6, <1>2, <1>f DEF Dropped
  <2>5. /\ \A u \in Threads : op[u][3] \in orphaned' <=> op[u][3] \in orphaned
        /\ \A f \in Fds : f # fd => events'[f] = events[f] /\ Live(f)' = Live(f)
    BY <1>6 DEF Dropped
  <2> QED
    BY <1>2, <1>3, <2>1, <2>2, <2>3, <2>4, <2>5, OthersKeep
<1>12. PlaceInv'
  <2> SUFFICES ASSUME NEW b \in Callbacks \ m_recurring' PROVE PlaceOf(b)'
    BY DEF PlaceInv
  <2>1. PlaceOf(b) /\ b # None /\ b \in Callbacks \ m_recurring
    BY <1>2, IOAssumption DEF IInv, PlaceInv
  <2>2. ExpiredAt(b)' = ExpiredAt(b) /\ RunsAt(b)' = RunsAt(b) /\ AddedAt(b)' = AddedAt(b)
    BY <1>2 DEF ExpiredAt, RunsAt, AddedAt
  <2>3. CASE b = k
    <3>1. ListsOf(b)' = {"tasks"}
      <4>1. ListsOf(b) = {}
        BY <1>6, <2>3 DEF Dropped
      <4> QED
        BY <1>2, <2>3, <4>1 DEF ListsOf
    <3> QED
      BY <1>2, <1>6, <2>2, <2>3, <3>1 DEF PlaceOf, One, Dropped
  <2>4. CASE b # k
    <3>1. ListsOf(b)' = ListsOf(b)
      BY <1>2, <2>4 DEF ListsOf
    <3>2. WaitsAt(b)' = WaitsAt(b)
      BY <1>6, <2>4 DEF Dropped
    <3> QED
      BY <1>2, <2>1, <2>2, <3>1, <3>2, SamePlace
  <2> QED
    BY <2>3, <2>4
<1>13. OrphanInv'
  <2> SUFFICES ASSUME NEW b \in orphaned' PROVE WaitsAt(b)' # {} \/ \E u \in Threads : op'[u][3] = b
    BY DEF OrphanInv
  <2>1. b \in orphaned /\ b # k /\ b \in Callbacks
    BY <1>5 DEF Drops, IInv, TypeOK
  <2>2. WaitsAt(b)' = WaitsAt(b)
    BY <1>6, <2>1 DEF Dropped
  <2> QED
    BY <1>2, <2>1, <2>2 DEF IInv, OrphanInv
<1>14. StopInv' /\ RecurringInv'
  <2>1. /\ Waiting' \subseteq Waiting
        /\ \A b \in m_recurring : WaitsAt(b)' \subseteq WaitsAt(b)
    BY <1>6 DEF Dropped
  <2>2. StopInv'
    BY <1>2, <2>1, StopFrame DEF IInv
  <2>3. RecurringInv'
    BY <1>2, <2>1, RecurringFrame DEF IInv
  <2> QED
    BY <2>2, <2>3
<1>15. LocalInv'
  BY <1>2 DEF IInv, LocalInv, Taskless
<1> QED
  BY <1>9, <1>10, <1>11, <1>12, <1>13, <1>14, <1>15 DEF IInv

(* The event is uncounted, and the call goes on or leaves. *)
LEMMA UncountStep ==
  ASSUME IInv, NEW t \in Threads, Uncount(t)
  PROVE  IInv'
<1>0. op[t][1] \in Fds /\ op[t] \in Fds \X (SUBSET Directions) \X (Callbacks \cup {None}) /\ op[t][2] # {}
  <2>1. op[t][1] \in Fds /\ op[t][2] # {}
    BY DEF Uncount, IInv, CallInv, LockInv, CallerInv, InCall
  <2> QED
    BY <2>1, IOAssumption DEF IInv, TypeOK, NoOp
<1>f. PICK fd \in Fds : fd = op[t][1]
  BY <1>0
<1>l. PICK left : left = op[t][2] \ {First(op[t][2])}
  OBVIOUS
<1>1. /\ pc[t] = "uncount" /\ m_pendingEventCount' = m_pendingEventCount - 1
      /\ IF left = {}
         THEN Leave(t, fd)
         ELSE op' = [op EXCEPT ![t][2] = left] /\ Goto(t, "trigger") /\ UNCHANGED holder
      /\ UNCHANGED <<open, ready, m_timers, due, m_recurring, cbs, interest, armed, events, ctx>>
      /\ UNCHANGED <<m_tasks, m_activeThreadCount, m_stopping, ended, cb, got>>
      /\ UNCHANGED <<given, done, removed, orphaned, late>>
  BY <1>f, <1>l DEF Uncount
<1>2. holder[fd] = t /\ pc[t] \in InCall /\ op[t][3] = None /\ First(op[t][2]) \notin events[fd]
  BY <1>f, <1>1 DEF IInv, CallInv, LockInv, CallerInv, OpInv, StepInv, InCall
<1>3. left \in SUBSET Directions /\ First(op[t][2]) \in op[t][2]
  BY <1>0, <1>l, FirstIn
<1>4. /\ EnterTypes'
      /\ \A u \in Threads : u # t => pc'[u] = pc[u] /\ op'[u] = op[u]
      /\ \A f \in Fds : f # fd => holder'[f] = holder[f]
      /\ op'[t][3] = None
      /\ left = {} => /\ holder'[fd] = None /\ op'[t] = NoOp
                      /\ pc'[t] = (IF cb[t] = None THEN "events" ELSE "callback")
      /\ left # {} => holder'[fd] = t /\ op'[t] = <<fd, left, None>> /\ pc'[t] = "trigger"
  <2>1. CASE left = {}
    <3>1. EnterTypes' /\ LeavesFrom(t, fd)
      BY <1>1, <2>1, LeaveFacts DEF IInv
    <3> QED
      BY <1>2, <2>1, <3>1 DEF LeavesFrom, NoOp
  <2>2. CASE left # {}
    <3>1. op' = [op EXCEPT ![t][2] = left] /\ Goto(t, "trigger") /\ UNCHANGED holder
      BY <1>1, <2>2
    <3>2. pc'[t] = "trigger" /\ \A u \in Threads : u # t => pc'[u] = pc[u]
      BY <3>1, GotoStep DEF IInv
    <3>3. op'[t] = <<fd, left, None>> /\ \A u \in Threads : u # t => op'[u] = op[u]
      <4>1. op[t] = <<fd, op[t][2], None>>
        BY <1>0, <1>2, <1>f
      <4>2. /\ op'[t] = [op[t] EXCEPT ![2] = left]
            /\ \A u \in Threads : u # t => op'[u] = op[u]
        BY <3>1 DEF IInv, TypeOK
      <4> QED
        BY <4>1, <4>2
    <3>4. op' \in [Threads -> {NoOp} \cup (Fds \X (SUBSET Directions) \X (Callbacks \cup {None}))]
      <4>1. op' = [u \in Threads |-> IF u = t THEN [op[t] EXCEPT ![2] = left] ELSE op[u]]
        BY <3>1 DEF IInv, TypeOK
      <4>2. op' = [u \in Threads |-> op'[u]]
        BY <4>1
      <4>3. \A u \in Threads : op'[u] \in {NoOp} \cup (Fds \X (SUBSET Directions) \X (Callbacks \cup {None}))
        <5>1. op'[t] \in Fds \X (SUBSET Directions) \X (Callbacks \cup {None})
          BY <1>3, <3>3
        <5>2. \A u \in Threads : op[u] \in {NoOp} \cup (Fds \X (SUBSET Directions) \X (Callbacks \cup {None}))
          BY DEF IInv, TypeOK
        <5> QED
          BY <3>3, <5>1, <5>2
      <4> QED
        BY <4>2, <4>3
    <3>5. EnterTypes'
      BY <1>1, <3>1, <3>4 DEF IInv, TypeOK, EnterTypes, Goto
    <3> QED
      BY <1>2, <2>2, <3>1, <3>2, <3>3, <3>5
  <2> QED
    BY <2>1, <2>2
<1>5. pc'[t] \in {"events", "callback", "trigger"}
  BY <1>4
<1>6. CountInv' /\ m_pendingEventCount' \in Nat
  <2>1. Active' = Active /\ Registered' = Registered
    BY <1>1, <1>4, <1>5 DEF Active, Registered
  <2>2. t \in Uncounting /\ Uncounting' = Uncounting \ {t}
    BY <1>1, <1>4, <1>5 DEF Uncounting
  <2>3. Cardinality(Uncounting') = Cardinality(Uncounting) - 1 /\ Cardinality(Uncounting) > 0
    BY <2>2, Finite, OneLess
  <2>4. Cardinality(Registered) \in Nat /\ Cardinality(Uncounting) \in Nat
    BY Finite, FS_CardinalityType
  <2>5. m_pendingEventCount = Cardinality(Registered) + Cardinality(Uncounting)
    BY DEF IInv, CountInv, PendingExact, Registered, Uncounting
  <2>6. m_pendingEventCount' = Cardinality(Registered') + Cardinality(Uncounting')
        /\ m_pendingEventCount' \in Nat
    BY <1>1, <2>1, <2>3, <2>4, <2>5
  <2>7. PendingExact'
    BY <2>6 DEF PendingExact, Registered, Uncounting
  <2> QED
    BY <1>1, <2>1, <2>6, <2>7 DEF IInv, CountInv, ActiveExact
<1>7. TypeOK'
  BY <1>1, <1>4, <1>6 DEF IInv, TypeOK, EnterTypes
<1>8. CallInv'
  <2>1. CallerInv(t)' /\ HolderInv(fd)'
    <3>1. CASE left = {}
      BY <1>4, <1>5, <3>1 DEF CallerInv, HolderInv, InCall
    <3>2. CASE left # {}
      BY <1>4, <3>2 DEF CallerInv, HolderInv, InCall
    <3> QED
      BY <3>1, <3>2
  <2>2. StepInv(t)'
    BY <1>4, <1>5 DEF StepInv
  <2>3. ContextInv' /\ \A f \in Fds : Live(f)' = Live(f)
    BY <1>1 DEF IInv, CallInv, ContextInv, Live
  <2>4. WatchedInv(fd)'
    <3>1. WatchedInv(fd)
      BY DEF IInv, CallInv, InterestInv
    <3>2. /\ fd \notin open => interest[fd] = {}
          /\ Live(fd) = {} \/ Live(fd) = events[fd]
          /\ interest[fd] = Live(fd) \ op[t][2]
      BY <1>1, <1>2, <3>1, IOAssumption DEF WatchedInv
    <3>3. interest[fd] = Live(fd) \ left
      BY <1>2, <1>l, <3>2 DEF Live
    <3>4. CASE left = {}
      BY <1>1, <1>4, <2>3, <3>2, <3>3, <3>4 DEF WatchedInv
    <3>5. CASE left # {}
      <4>1. holder'[fd] = t /\ t # None /\ pc'[t] # "add" /\ op'[t][2] = left
        BY <1>4, <3>5, IOAssumption
      <4> QED
        BY <1>1, <2>3, <3>2, <3>3, <4>1 DEF WatchedInv
    <3> QED
      BY <3>4, <3>5
  <2>5. OneDirection /\ pc'[t] = "trigger" => First(op'[t][2]) \in events'[op'[t][1]]
    <3>1. OneDirection => left = {}
      BY <1>0, <1>3, <1>l DEF OneDirection
    <3> QED
      BY <1>4, <1>5, <3>1
  <2>6. op[t][1] = fd /\ holder'[fd] \in {t, None}
    BY <1>4, <1>f
  <2> QED
    BY <1>1, <1>2, <1>4, <2>1, <2>2, <2>3, <2>4, <2>5, <2>6, OthersKeep
<1>9. PlaceInv' /\ RecurringInv' /\ OrphanInv'
  <2>1. \A u \in Threads : op'[u][3] = op[u][3] /\ (pc'[u] = "yield" <=> pc[u] = "yield")
    BY <1>1, <1>2, <1>4, <1>5
  <2> QED
    BY <1>1, <2>1, PlaceFrame DEF IInv
<1>10. StopInv'
  BY <1>1, <1>2, <1>4, <1>5, StopQuiet DEF NoOp
<1>11. LocalInv'
  BY <1>1, <1>4 DEF IInv, LocalInv, Taskless
<1> QED
  BY <1>6, <1>7, <1>8, <1>9, <1>10, <1>11 DEF IInv

(* close() orphans what waits for the descriptor, or is about to, and      *)
(* nothing else: every callback is in one place.                           *)
LEMMA CloseStep ==
  ASSUME IInv, NEW t \in Threads, NEW fd \in Fds, Close(t, fd)
  PROVE  IInv'
<1>0. UniqueInv
  BY Unique DEF IInv, CallInv
<1>1. /\ open' = open \ {fd}
      /\ interest' = [interest EXCEPT ![fd] = {}]
      /\ UNCHANGED <<m_timers, due, m_recurring, cbs, events, ctx, holder>>
      /\ UNCHANGED <<m_pendingEventCount, m_tasks, m_activeThreadCount, m_stopping, ended, pc, cb, op, got>>
      /\ UNCHANGED <<given, done, removed, late>>
  BY DEF Close
<1>2. /\ interest'[fd] = {} /\ \A f \in Fds : f # fd => interest'[f] = interest[f]
  BY <1>1 DEF IInv, TypeOK
<1>3. \A b : b \in orphaned' <=>
        \/ b \in orphaned
        \/ b # None /\ \E ev \in Directions : b = ctx[fd][ev]
        \/ b # None /\ \E u \in Threads : op[u][1] = fd /\ b = op[u][3]
  BY DEF Close
<1>4. TypeOK'
  <2>1. orphaned' \subseteq Callbacks
    <3>1. \A u \in Threads : op[u][3] \in Callbacks \cup {None}
      BY DEF IInv, TypeOK, NoOp
    <3>2. \A ev \in Directions : ctx[fd][ev] \in Callbacks \cup {None}
      BY DEF IInv, TypeOK
    <3>3. orphaned \subseteq Callbacks
      BY DEF IInv, TypeOK
    <3> QED
      BY <1>3, <3>1, <3>2, <3>3
  <2>2. /\ interest' \in [Fds -> SUBSET Directions] /\ armed' \in [Fds -> BOOLEAN]
        /\ ready' \in [Fds -> SUBSET (Directions \cup {HUP})]
    BY DEF Close, IInv, TypeOK
  <2> QED
    BY <1>1, <2>1, <2>2 DEF IInv, TypeOK
<1>5. \A f \in Fds, e \in Directions : f # fd => (ctx[f][e] \in orphaned' <=> ctx[f][e] \in orphaned)
  BY <1>0, <1>3 DEF UniqueInv
<1>6. \A u \in Threads : op[u][1] # fd => (op[u][3] \in orphaned' <=> op[u][3] \in orphaned)
  BY <1>0, <1>3 DEF UniqueInv
<1>7. \A f \in Fds : events[f] \subseteq Directions
  BY DEF IInv, TypeOK
<1>8. \A f \in Fds : f # fd => Live(f)' = Live(f)
  BY <1>1, <1>5, <1>7 DEF Live
<1>9. Live(fd)' = {}
  <2>1. \A e \in events[fd] : ctx[fd][e] # None
    BY <1>7 DEF IInv, CallInv, ContextInv
  <2> QED
    BY <1>1, <1>3, <1>7, <2>1 DEF Live
<1>10. CallInv'
  <2>1. LockInv' /\ ContextInv'
    BY <1>1 DEF IInv, CallInv, LockInv, CallerInv, HolderInv, ContextInv
  <2>2. OpInv' /\ AssertInv'
    BY <1>1 DEF IInv, CallInv, OpInv, StepInv, AssertInv, TriggerAssert, OneDirection
  <2>3. ASSUME NEW f \in Fds PROVE WatchedInv(f)'
    <3>1. WatchedInv(f) /\ HolderInv(f) /\ holder[f] \in Threads \cup {None}
      BY DEF IInv, CallInv, InterestInv, LockInv, TypeOK
    <3>2. CASE f = fd
      <4>1. ASSUME holder[fd] # None, pc[holder[fd]] = "add" PROVE op[holder[fd]][3] \in orphaned'
        <5>1. StepInv(holder[fd])
          BY <3>1, <3>2, <4>1 DEF IInv, CallInv, OpInv
        <5>2. op[holder[fd]][3] # None
          BY <4>1, <5>1, IOAssumption DEF StepInv
        <5> QED
          BY <1>3, <3>1, <3>2, <4>1, <5>2 DEF HolderInv
      <4> QED
        BY <1>1, <1>2, <1>9, <3>2, <4>1 DEF WatchedInv
    <3>3. CASE f # fd
      <4>1. holder[f] # None => (op[holder[f]][3] \in orphaned' <=> op[holder[f]][3] \in orphaned)
        BY <1>6, <3>1, <3>3 DEF HolderInv
      <4> QED
        BY <1>1, <1>2, <1>8, <3>1, <3>3, <4>1 DEF WatchedInv
    <3> QED
      BY <3>2, <3>3
  <2> QED
    BY <2>1, <2>2, <2>3 DEF CallInv, InterestInv
<1>11. PlaceInv'
  <2> SUFFICES ASSUME NEW b \in Callbacks \ m_recurring' PROVE PlaceOf(b)'
    BY DEF PlaceInv
  <2>1. /\ WaitsAt(b)' = WaitsAt(b) /\ RunsAt(b)' = RunsAt(b) /\ AddedAt(b)' = AddedAt(b)
        /\ ExpiredAt(b)' = ExpiredAt(b) /\ ListsOf(b)' = ListsOf(b)
    BY <1>1 DEF WaitsAt, RunsAt, AddedAt, ExpiredAt, ListsOf
  <2> QED
    BY <1>1, <2>1, SamePlace DEF IInv, PlaceInv
<1>12. OrphanInv'
  <2> SUFFICES ASSUME NEW b \in orphaned' PROVE WaitsAt(b)' # {} \/ \E u \in Threads : op'[u][3] = b
    BY DEF OrphanInv
  <2>1. WaitsAt(b)' = WaitsAt(b)
    BY <1>1 DEF WaitsAt
  <2>2. CASE b \in orphaned
    <3>1. WaitsAt(b) # {} \/ \E u \in Threads : op[u][3] = b
      BY <2>2 DEF IInv, OrphanInv
    <3>2. op' = op
      BY <1>1
    <3> QED
      BY <2>1, <3>1, <3>2
  <2>3. CASE \E ev \in Directions : b = ctx[fd][ev]
    <3>1. PICK ev \in Directions : b = ctx[fd][ev]
      BY <2>3
    <3>2. <<fd, ev>> \in WaitsAt(b)
      BY <3>1 DEF WaitsAt
    <3> QED
      BY <2>1, <3>2
  <2>4. CASE \E u \in Threads : op[u][1] = fd /\ b = op[u][3]
    BY <1>1, <2>4
  <2> QED
    BY <1>3, <2>2, <2>3, <2>4
<1>13. CountInv'
  BY <1>1, CountFrame DEF IInv
<1>14. LocalInv' /\ StopInv'
  BY <1>1 DEF IInv, LocalInv, StopInv, Waiting
<1>15. RecurringInv'
  <2>1. \A b : WaitsAt(b)' = WaitsAt(b)
    BY <1>1 DEF WaitsAt
  <2> QED
    BY <1>1, <2>1, RecurringFrame DEF IInv
<1> QED
  BY <1>4, <1>10, <1>11, <1>12, <1>13, <1>14, <1>15 DEF IInv

-----------------------------------------------------------------------------
(* The invariant and what follows from it *)

(* The initial states satisfy the invariant. *)
LEMMA InitInv == Init => IInv
<1> SUFFICES ASSUME Init PROVE IInv
  OBVIOUS
<1>1. TypeOK
  BY IOAssumption DEF Init, TypeOK
<1>2. CallInv
  <2>1. LockInv /\ OpInv /\ ContextInv
    BY DEF Init, LockInv, CallerInv, HolderInv, OpInv, StepInv, ContextInv, InCall, NoOp
  <2>2. InterestInv /\ AssertInv
    BY DEF Init, InterestInv, WatchedInv, Live, AssertInv, TriggerAssert
  <2> QED
    BY <2>1, <2>2 DEF CallInv
<1>3. LocalInv /\ OrphanInv
  BY DEF Init, LocalInv, OrphanInv, Taskless
<1>4. PlaceInv
  <2> SUFFICES ASSUME NEW c \in Callbacks \ m_recurring PROVE PlaceOf(c)
    BY DEF PlaceInv
  <2>0. c # None
    BY IOAssumption
  <2>1. WaitsAt(c) = {} /\ RunsAt(c) = {} /\ AddedAt(c) = {} /\ ExpiredAt(c) = {}
    BY <2>0 DEF Init, WaitsAt, RunsAt, AddedAt, ExpiredAt, NoOp
  <2>2. ListsOf(c) = IF c = Main THEN {"tasks"} ELSE {}
    BY DEF Init, ListsOf
  <2>3. given = {Main}
    BY DEF Init
  <2>4. CASE c = Main
    BY <2>1, <2>2, <2>3, <2>4 DEF PlaceOf, One
  <2>5. CASE c # Main
    BY <2>1, <2>2, <2>3, <2>5 DEF PlaceOf
  <2> QED
    BY <2>4, <2>5
<1>5. CountInv
  <2>1. Registered = {} /\ Uncounting = {} /\ Active = {}
    BY DEF Init, Registered, Uncounting, Active
  <2>2. m_pendingEventCount = 0 /\ m_activeThreadCount = 0
    BY DEF Init
  <2>3. PendingExact
    BY <2>1, <2>2, FS_EmptySet DEF PendingExact, Registered, Uncounting
  <2> QED
    BY <2>1, <2>2, <2>3, FS_EmptySet DEF CountInv, ActiveExact
<1>6. StopInv
  BY PoolAssumption DEF Init, StopInv
<1>7. RecurringInv
  BY DEF Init, RecurringInv
<1> QED
  BY <1>1, <1>2, <1>3, <1>4, <1>5, <1>6, <1>7 DEF IInv

(* Every step keeps it. *)
LEMMA NextInv == IInv /\ [Next]_vars => IInv'
<1> SUFFICES ASSUME IInv, [Next]_vars PROVE IInv'
  OBVIOUS
<1>1. CASE UNCHANGED vars
  BY <1>1, StutterStep
<1>2. ASSUME NEW t \in Threads, Callback(t) PROVE IInv'
  BY <1>2, AddEventStep, DelEventStep, CancelEventStep, ConsumeStep, CancelAllStep, CloseStep,
     AddTimerStep, CancelTimerStep DEF Callback
<1>3. ASSUME NEW t \in Threads, Run(t) PROVE IInv'
  BY <1>3, AddContextStep, DelContextStep, TriggerEventStep, UncountStep, TakeTaskStep,
     CountActiveStep, FinishCallbackStep, YieldToHoldStep, EnterIdleStep, ExitRunStep, StoppingTimersStep,
     StoppingStep, StoppingPendingStep, EpollWaitStep, ListExpiredCbStep, ScheduleCbsStep,
     HandleEventStep, LeaveIdleStep DEF Run
<1>4. ASSUME NEW fd \in Fds, Reopen(fd) \/ \E ev \in Directions \cup {HUP} : Edge(fd, ev) PROVE IInv'
  BY <1>4, ReopenStep, EdgeStep
<1>5. ASSUME NEW c \in Callbacks, Expire(c) PROVE IInv'
  BY <1>5, ExpireStep
<1>6. CASE Stop
  BY <1>6, StopStep
<1> QED
  BY <1>1, <1>2, <1>3, <1>4, <1>5, <1>6 DEF Next

(* The inductive invariant of the IOManager: in every reachable state the  *)
(* mutexes, epoll, the contexts, the callbacks' places and the counters    *)
(* agree, whatever the threads do between the steps of a call.             *)
THEOREM IOInvariant == Spec => []IInv
BY InitInv, NextInv, PTL DEF Spec

(* Every variable keeps its type; m_pendingEventCount and                  *)
(* m_activeThreadCount, which the code declares unsigned, never go below 0.*)
THEOREM TypeCorrect == Spec => []TypeOK
<1>1. IInv => TypeOK
  BY DEF IInv
<1> QED
  BY <1>1, IOInvariant, PTL

(* While no call holds the mutex of a descriptor, epoll watches it for the *)
(* events registered since it was last closed, and a context holds a       *)
(* callback exactly while its event is registered.                         *)
THEOREM EpollAgrees == Spec => []FdConsistent
<1>1. IInv => FdConsistent
  BY DEF IInv, CallInv, ContextInv, InterestInv, WatchedInv, Live, FdConsistent
<1> QED
  BY <1>1, IOInvariant, PTL

(* m_pendingEventCount is the number of registered events and of threads   *)
(* between triggerEvent() and the decrement.                               *)
THEOREM PendingCounted == Spec => []PendingExact
<1>1. IInv => PendingExact
  BY DEF IInv, CountInv
<1> QED
  BY <1>1, IOInvariant, PTL

(* A callback that addEvent() or addTimer() accepted is in one place, and  *)
(* runs at most once: none is lost or run twice.  That of a recurring timer*)
(* stays armed until cancel().                                             *)
THEOREM CallbackInOnePlace == Spec => []CallbackOnce
<1>1. ASSUME IInv, NEW c \in Callbacks \ m_recurring
      PROVE  Cardinality(WaitsAt(c)) + Cardinality(RunsAt(c)) + Cardinality(AddedAt(c))
               + Cardinality(ExpiredAt(c)) + Cardinality(ListsOf(c))
             = IF c \in given THEN 1 ELSE 0
  <2>1. PlaceOf(c)
    BY <1>1 DEF IInv, PlaceInv
  <2>2. Cardinality({}) = 0
    BY FS_EmptySet
  <2>3. CASE c \in given
    <3>1. One(WaitsAt(c), RunsAt(c), AddedAt(c), ExpiredAt(c), ListsOf(c))
      BY <2>1, <2>3 DEF PlaceOf
    <3> QED
      BY <2>3, <3>1, OneCounted
  <2>4. CASE c \notin given
    BY <2>1, <2>2, <2>4 DEF PlaceOf
  <2> QED
    BY <2>3, <2>4
<1>2. ASSUME IInv, NEW c \in m_recurring PROVE c \in m_timers <=> c \notin removed
  BY <1>2 DEF IInv, RecurringInv, RecurringOf
<1>3. IInv => CallbackOnce
  BY <1>1, <1>2 DEF CallbackOnce
<1> QED
  BY <1>3, IOInvariant, PTL

(* When the last thread has left, no task was left behind, and no callback *)
(* waits for a descriptor or for its time but those that a thread added    *)
(* while it ran a task after its idle fiber had ended.                     *)
THEOREM StopLeavesNothing == Spec => []StopKeepsCallbacks
<1>1. ASSUME IInv, \A t \in Threads : pc[t] = "gone"
      PROVE  m_tasks = {} /\ Waiting \cup m_timers \subseteq late /\ \A t \in Threads : cbs[t] = {}
  <2>1. \A t \in Threads : t \in ended /\ cbs[t] = {}
    BY <1>1 DEF IInv, LocalInv
  <2> QED
    BY <1>1, <2>1 DEF IInv, StopInv
<1>2. IInv => StopKeepsCallbacks
  BY <1>1 DEF StopKeepsCallbacks
<1> QED
  BY <1>2, IOInvariant, PTL

(* triggerEvent()'s assertion holds in a program whose callbacks wait in   *)
(* one direction only, whatever calls it makes; with both directions it    *)
(* may fail, as the runs that expect a violation show.                     *)
THEOREM AssertWithOneDirection ==
  ASSUME OneDirection
  PROVE  Spec => []TriggerAssert
<1>1. IInv => TriggerAssert
  BY DEF IInv, CallInv, AssertInv
<1> QED
  BY <1>1, IOInvariant, PTL
=============================================================================
