------------------------- MODULE ConservationProofs -------------------------
(***************************************************************************)
(* What becomes of the fibers and callbacks handed to Scheduler: none is   *)
(* lost, none is run twice, stop() leaves none behind, and so the          *)
(* scheduler implements Executor.                                          *)
(***************************************************************************)
EXTENDS SchedulerProofs

(* What a step does to the callbacks that are still to be started: nothing,*)
(* it accepts some, or it starts one.                                      *)
Quiet == Pending' = Pending /\ entered' = entered

Accepts ==
  /\ \E C \in (SUBSET Cbs) \ {{}} :
       C \cap (Pending \cup entered) = {} /\ Pending' = Pending \cup C
  /\ entered' = entered

Enters ==
  \E c \in Pending : Pending' = Pending \ {c} /\ entered' = entered \cup {c}

-----------------------------------------------------------------------------
(* The callbacks to be started, place by place. *)

(* A callback is pending if a list entry or a thread's task starts it. *)
LEMMA PendingIs ==
  \A c : c \in Pending <=> \/ \E i \in 1..Len(m_tasks) : c \in Starts(m_tasks[i])
                           \/ \E t \in Threads : c \in Starts(tk[t])
BY DEF Pending

(* The empty task starts nothing. *)
LEMMA NoTaskStarts == Starts(NoTask) = {}
BY DEF Starts, NoTask

(* What is started is a callback. *)
LEMMA StartsCbs ==
  ASSUME IInv
  PROVE  Pending \subseteq Cbs
<1>1. ASSUME NEW i \in 1..Len(m_tasks) PROVE Starts(m_tasks[i]) \subseteq Cbs
  <2>1. m_tasks[i] \in Task
    BY TasksTyped DEF IInv, TypeOK
  <2>. QED BY <2>1 DEF IInv, OwnershipInv, QueueInv, Starts, Task
<1>2. ASSUME NEW t \in Threads PROVE Starts(tk[t]) \subseteq Cbs
  <2>1. tk[t] \in Task
    BY DEF IInv, TypeOK
  <2>2. CASE pc[t] \in {"took", "dispatch"}
    BY <2>1, <2>2 DEF IInv, OwnershipInv, StatesInv, Starts, Task
  <2>3. CASE pc[t] \in Attached
    BY <2>1, <2>3 DEF IInv, OwnershipInv, StatesInv, LocalsInv, Starts, Task, Attached,
         OnFiber, Current
  <2>4. CASE pc[t] \notin Attached \cup {"took", "dispatch"}
    BY <2>4, NoTaskStarts DEF IInv, OwnershipInv, LocalsInv
  <2>. QED BY <2>2, <2>3, <2>4
<1>. QED BY <1>1, <1>2, PendingIs

(* A thread on a fiber, or just off it, has nothing to start. *)
LEMMA AttachedStarts ==
  ASSUME IInv, NEW t \in Threads, pc[t] \notin {"took", "dispatch"}
  PROVE  Starts(tk[t]) = {}
<1>1. CASE pc[t] \in Attached
  BY <1>1 DEF IInv, OwnershipInv, StatesInv, LocalsInv, Starts, Attached, OnFiber, Current
<1>2. CASE pc[t] \notin Attached
  BY <1>2, NoTaskStarts DEF IInv, OwnershipInv, LocalsInv
<1>. QED BY <1>1, <1>2

(* The list grows by entries that start the new callbacks of C, one each,  *)
(* and nothing else changes about what is to be started.                   *)
LEMMA StartsGrow ==
  ASSUME StartsInv, NEW C \in SUBSET Cbs, C \cap (Pending \cup entered) = {},
         posted' = posted \cup C, entered' = entered,
         Len(m_tasks) \in Nat, Len(m_tasks)' \in Nat, Len(m_tasks)' >= Len(m_tasks),
         \A i \in 1..Len(m_tasks) : Starts(m_tasks[i])' = Starts(m_tasks[i]),
         \A t \in Threads : Starts(tk[t])' = Starts(tk[t]),
         \A i \in 1..Len(m_tasks)' : i > Len(m_tasks) => Starts(m_tasks[i])' \subseteq C,
         \A c \in C : \E i \in 1..Len(m_tasks)' : c \in Starts(m_tasks[i])',
         \A i, j \in 1..Len(m_tasks)' :
           i > Len(m_tasks) /\ j > Len(m_tasks) /\ i # j =>
             Starts(m_tasks[i])' \cap Starts(m_tasks[j])' = {}
  PROVE  /\ StartsInv'
         /\ Pending' = Pending \cup C
<1>. DEFINE n == Len(m_tasks)
            S(i) == Starts(m_tasks[i])
            T(t) == Starts(tk[t])
<1>1. \A c : c \in Pending <=> (\E i \in 1..n : c \in S(i)) \/ (\E t \in Threads : c \in T(t))
  BY PendingIs
<1>2. \A c : c \in Pending' <=>
        (\E i \in 1..n' : c \in S(i)') \/ (\E t \in Threads : c \in T(t)')
  BY DEF Pending
<1>3. n \in Nat /\ n' \in Nat /\ n' >= n
  OBVIOUS
<1>4. /\ \A i \in 1..n : S(i)' = S(i)
      /\ \A t \in Threads : T(t)' = T(t)
      /\ \A i \in 1..n' : i > n => S(i)' \subseteq C
      /\ \A c \in C : \E i \in 1..n' : c \in S(i)'
      /\ \A i, j \in 1..n' : i > n /\ j > n /\ i # j => S(i)' \cap S(j)' = {}
  OBVIOUS
<1>5. /\ posted = entered \cup Pending /\ entered \cap Pending = {}
      /\ \A i, j \in 1..n : S(i) \cap S(j) # {} => i = j
      /\ \A t \in Threads, i \in 1..n : S(i) \cap T(t) = {}
      /\ \A t, u \in Threads : T(t) \cap T(u) # {} => t = u
  BY DEF StartsInv, NoCallbackLost
<1>. HIDE DEF n, S, T
<1>6. \A i \in 1..n' : i \in 1..n \/ i > n
  BY <1>3
<1>7. \A i \in 1..n : i \in 1..n'
  BY <1>3
<1>8. Pending' = Pending \cup C
  BY <1>1, <1>2, <1>4, <1>6, <1>7
<1>9. \A i \in 1..n : S(i) \cap C = {}
  BY <1>1
<1>10. \A t \in Threads : T(t) \cap C = {}
  BY <1>1
<1>11. \A i, j \in 1..n' : S(i)' \cap S(j)' # {} => i = j
  BY <1>4, <1>5, <1>6, <1>9
<1>12. \A t \in Threads, i \in 1..n' : S(i)' \cap T(t)' = {}
  BY <1>4, <1>5, <1>6, <1>10
<1>13. \A t, u \in Threads : T(t)' \cap T(u)' # {} => t = u
  BY <1>4, <1>5
<1>14. posted' = entered' \cup Pending' /\ entered' \cap Pending' = {}
  BY <1>5, <1>8
<1>15. StartsInv'
  BY <1>11, <1>12, <1>13, <1>14 DEF StartsInv, NoCallbackLost, n, S, T
<1>. QED BY <1>8, <1>15

(* What a fiber starts when it is first swapped into. *)
Fresh(f) == IF m_state[f] = "INIT" THEN {m_cb[f]} ELSE {}

Listed(f) ==
  (\E i \in 1..Len(m_tasks) : m_tasks[i].fiber = f) \/ (\E t \in Threads : tk[t].fiber = f)

(* If a step changes that for no fiber that a task refers to, it changes   *)
(* nothing for the tasks.                                                  *)
LEMMA TaskKept ==
  ASSUME NEW k \in Task, k.fiber # NoFiber => Fresh(k.fiber)' = Fresh(k.fiber)
  PROVE  Starts(k)' = Starts(k)
BY DEF Starts, Fresh

LEMMA TasksKept ==
  ASSUME IInv, \A f \in Fibers : Listed(f) => Fresh(f)' = Fresh(f)
  PROVE  /\ \A i \in 1..Len(m_tasks) : \A k \in Task : k = m_tasks[i] => Starts(k)' = Starts(k)
         /\ \A t \in Threads : \A k \in Task : k = tk[t] => Starts(k)' = Starts(k)
<1>1. ASSUME NEW i \in 1..Len(m_tasks), NEW k \in Task, k = m_tasks[i]
      PROVE  Starts(k)' = Starts(k)
  <2>1. k.fiber # NoFiber => k.fiber \in Fibers /\ Listed(k.fiber)
    BY <1>1 DEF Listed, Task
  <2>. QED BY <2>1, TaskKept
<1>2. ASSUME NEW t \in Threads, NEW k \in Task, k = tk[t]
      PROVE  Starts(k)' = Starts(k)
  <2>1. k.fiber # NoFiber => k.fiber \in Fibers /\ Listed(k.fiber)
    BY <1>2 DEF Listed, Task
  <2>. QED BY <2>1, TaskKept
<1>. QED BY <1>1, <1>2

(* A thread's task is the same, or is done with. *)
LEMMA ThreadStartsKept ==
  ASSUME IInv, \A f \in Fibers : Listed(f) => Fresh(f)' = Fresh(f),
         \A t \in Threads : tk'[t] = tk[t] \/ (tk'[t] = NoTask /\ Starts(tk[t]) = {})
  PROVE  \A t \in Threads : Starts(tk[t])' = Starts(tk[t])
<1>. SUFFICES ASSUME NEW t \in Threads PROVE Starts(tk[t])' = Starts(tk[t])
  OBVIOUS
<1>1. CASE tk'[t] = NoTask /\ Starts(tk[t]) = {}
  <2>1. Starts(NoTask)' = {}
    BY DEF Starts, NoTask
  <2>. QED BY <1>1, <2>1 DEF Starts
<1>2. CASE tk'[t] = tk[t]
  <2>1. PICK k \in Task : k = tk[t]
    BY DEF IInv, TypeOK
  <2>2. Starts(k)' = Starts(k)
    BY <2>1, TasksKept
  <2>. QED BY <1>2, <2>1, <2>2 DEF Starts
<1>. QED BY <1>1, <1>2

(* Entries are appended that start the new callbacks of C, one each.       *)
LEMMA StartsAppend ==
  ASSUME IInv, StartsInv, NEW s \in Seq(Task), m_tasks' = m_tasks \o s,
         NEW C \in SUBSET Cbs, C \cap (Pending \cup entered) = {},
         posted' = posted \cup C, entered' = entered,
         \A f \in Fibers : Listed(f) => Fresh(f)' = Fresh(f),
         \A t \in Threads : tk'[t] = tk[t] \/ (tk'[t] = NoTask /\ Starts(tk[t]) = {}),
         \A i \in 1..Len(s) : Starts(s[i])' \subseteq C,
         \A c \in C : \E i \in 1..Len(s) : c \in Starts(s[i])',
         \A i, j \in 1..Len(s) : i # j => Starts(s[i])' \cap Starts(s[j])' = {}
  PROVE  StartsInv' /\ Pending' = Pending \cup C
<1>0. PICK n \in Nat : n = Len(m_tasks)
  BY DEF IInv, TypeOK
<1>1. /\ n \in Nat /\ Len(s) \in Nat /\ Len(m_tasks)' = n + Len(s)
      /\ \A i \in 1..n : m_tasks'[i] = m_tasks[i]
      /\ \A i \in 1..Len(s) : m_tasks'[n + i] = s[i]
  BY <1>0 DEF IInv, TypeOK
<1>l. n + Len(s) \in Nat /\ Len(m_tasks)' \in Nat
  BY <1>1
<1>2. \A t \in Threads : Starts(tk[t])' = Starts(tk[t])
  BY ThreadStartsKept
<1>3. ASSUME NEW i \in 1..n PROVE Starts(m_tasks[i])' = Starts(m_tasks[i])
  <2>1. PICK k \in Task : k = m_tasks[i]
    BY <1>0, TasksTyped DEF IInv, TypeOK
  <2>2. Starts(k)' = Starts(k)
    BY <1>0, <2>1, TasksKept
  <2>. QED BY <1>1, <2>1, <2>2 DEF Starts
<1>4. ASSUME NEW i \in 1..Len(m_tasks)', i > n
      PROVE  i - n \in 1..Len(s) /\ Starts(m_tasks[i])' = Starts(s[i - n])'
  <2>1. i - n \in 1..Len(s) /\ n + (i - n) = i
    BY <1>1, <1>4
  <2>2. m_tasks'[i] = s[i - n]
    BY <1>1, <2>1
  <2>. QED BY <2>1, <2>2 DEF Starts
<1>5. ASSUME NEW i \in 1..Len(s)
      PROVE  n + i \in 1..Len(m_tasks)' /\ Starts(m_tasks[n + i])' = Starts(s[i])'
  <2>1. m_tasks'[n + i] = s[i]
    BY <1>1
  <2>2. n + i \in 1..Len(m_tasks)'
    BY <1>l, <1>1
  <2>. QED BY <2>1, <2>2 DEF Starts
<1>6. Len(m_tasks)' \in Nat /\ Len(m_tasks)' >= n
  BY <1>1
<1>7. \A i \in 1..Len(m_tasks)' : i > n => Starts(m_tasks[i])' \subseteq C
  BY <1>4
<1>8. \A c \in C : \E i \in 1..Len(m_tasks)' : c \in Starts(m_tasks[i])'
  BY <1>5
<1>9. ASSUME NEW i \in 1..Len(m_tasks)', NEW j \in 1..Len(m_tasks)', i > n, j > n, i # j
      PROVE  Starts(m_tasks[i])' \cap Starts(m_tasks[j])' = {}
  <2>1. PICK k \in 1..Len(s) : k = i - n
    BY <1>4, <1>9
  <2>2. PICK l \in 1..Len(s) : l = j - n
    BY <1>4, <1>9
  <2>3. k # l
    BY <1>0, <1>6, <1>9, <2>1, <2>2
  <2>4. Starts(m_tasks[i])' = Starts(s[k])' /\ Starts(m_tasks[j])' = Starts(s[l])'
    BY <1>4, <1>9, <2>1, <2>2
  <2>. QED BY <2>3, <2>4
<1>10. \A i \in 1..Len(m_tasks) : Starts(m_tasks[i])' = Starts(m_tasks[i])
  BY <1>0, <1>3
<1>11. \A i \in 1..Len(m_tasks)' : i > Len(m_tasks) => Starts(m_tasks[i])' \subseteq C
  BY <1>0, <1>7
<1>12. \A i, j \in 1..Len(m_tasks)' :
         i > Len(m_tasks) /\ j > Len(m_tasks) /\ i # j =>
           Starts(m_tasks[i])' \cap Starts(m_tasks[j])' = {}
  BY <1>0, <1>9
<1>. QED BY <1>0, <1>2, <1>6, <1>8, <1>10, <1>11, <1>12, StartsGrow

(* Nothing changes about what is to be started. *)
LEMMA StartsSame ==
  ASSUME IInv, StartsInv, UNCHANGED <<m_tasks, posted, entered>>,
         \A f \in Fibers : Listed(f) => Fresh(f)' = Fresh(f),
         \A t \in Threads : tk'[t] = tk[t] \/ (tk'[t] = NoTask /\ Starts(tk[t]) = {})
  PROVE  StartsInv' /\ Quiet
<1>1. m_tasks' = m_tasks \o <<>> /\ <<>> \in Seq(Task) /\ Len(<<>>) = 0
  BY DEF IInv, TypeOK
<1>2. {} \in SUBSET Cbs /\ {} \cap (Pending \cup entered) = {} /\ posted' = posted \cup {}
  OBVIOUS
<1>3. StartsInv' /\ Pending' = Pending \cup {}
  <2>. DEFINE e == <<>>
  <2>1. \A i \in 1..Len(e) : FALSE
    OBVIOUS
  <2>2. m_tasks' = m_tasks \o e /\ e \in Seq(Task)
    BY <1>1
  <2>. HIDE DEF e
  <2>. QED BY <1>2, <2>1, <2>2, StartsAppend
<1>. QED BY <1>3 DEF Quiet

(* An entry of the list becomes a thread's task. *)
LEMMA StartsTake ==
  ASSUME IInv, StartsInv, UNCHANGED <<posted, fiberVars>>,
         NEW t \in Threads, tk[t] = NoTask, NEW i \in 1..Len(m_tasks),
         tk' = [tk EXCEPT ![t] = m_tasks[i]], m_tasks' = RemoveAt(m_tasks, i)
  PROVE  StartsInv' /\ Quiet
<1>0. PICK n \in Nat : n = Len(m_tasks)
  BY DEF IInv, TypeOK
<1>1. PICK S \in [1..n -> SUBSET Cbs], T \in [Threads -> SUBSET Cbs] :
        /\ n = Len(m_tasks)
        /\ \A j \in 1..n : S[j] = Starts(m_tasks[j])
        /\ \A u \in Threads : T[u] = Starts(tk[u])
  <2>. DEFINE S == [j \in 1..Len(m_tasks) |-> Starts(m_tasks[j])]
              T == [u \in Threads |-> Starts(tk[u])]
  <2>1. S \in [1..Len(m_tasks) -> SUBSET Cbs]
    BY StartsCbs, PendingIs
  <2>2. T \in [Threads -> SUBSET Cbs]
    BY StartsCbs, PendingIs
  <2>. QED BY <1>0, <2>1, <2>2
<1>2. /\ Len(m_tasks)' = n - 1
      /\ \A k \in 1..(n - 1) : m_tasks'[k] = IF k < i THEN m_tasks[k] ELSE m_tasks[k + 1]
  BY <1>1, EraseFacts DEF IInv, TypeOK
<1>3. T[t] = {} /\ tk'[t] = m_tasks[i] /\ \A u \in Threads : u # t => tk'[u] = tk[u]
  BY <1>1, NoTaskStarts DEF IInv, TypeOK
<1>4. ASSUME NEW k \in 1..(n - 1)
      PROVE  Starts(m_tasks[k])' = IF k < i THEN S[k] ELSE S[k + 1]
  <2>1. k \in 1..n /\ k + 1 \in 1..n
    BY <1>1
  <2>. QED BY <1>1, <1>2, <2>1 DEF Starts, fiberVars
<1>5. ASSUME NEW u \in Threads
      PROVE  Starts(tk[u])' = IF u = t THEN S[i] ELSE T[u]
  <2>1. CASE u = t
    BY <1>1, <1>3, <2>1 DEF Starts, fiberVars
  <2>2. CASE u # t
    BY <1>1, <1>3, <2>2 DEF Starts, fiberVars
  <2>. QED BY <2>1, <2>2
<1>6. /\ posted = entered \cup Pending /\ entered \cap Pending = {}
      /\ \A j, k \in 1..n : S[j] \cap S[k] # {} => j = k
      /\ \A u \in Threads, j \in 1..n : S[j] \cap T[u] = {}
      /\ \A u, v \in Threads : T[u] \cap T[v] # {} => u = v
  BY <1>1 DEF StartsInv, NoCallbackLost
<1>7. ASSUME NEW j \in 1..n, j # i
      PROVE  \E k \in 1..(n - 1) : Starts(m_tasks[k])' = S[j]
  <2>1. CASE j < i
    <3>1. j \in 1..(n - 1)
      BY <2>1, <1>1
    <3>. QED BY <3>1, <2>1, <1>4
  <2>2. CASE ~(j < i)
    <3>1. j - 1 \in 1..(n - 1) /\ ~(j - 1 < i) /\ (j - 1) + 1 = j
      BY <2>2, <1>7, <1>1
    <3>. QED BY <3>1, <1>4
  <2>. QED BY <2>1, <2>2
<1>8. ASSUME NEW k \in 1..(n - 1)
      PROVE  \E j \in 1..n : j # i /\ Starts(m_tasks[k])' = S[j]
  BY <1>1, <1>4
<1>9. \A c : c \in Pending' <=> c \in Pending
  <2>1. \A c : c \in Pending' <=> \/ \E k \in 1..(n - 1) : c \in Starts(m_tasks[k])'
                                  \/ \E u \in Threads : c \in Starts(tk[u])'
    BY <1>2 DEF Pending
  <2>2. \A c : c \in Pending <=> (\E j \in 1..n : c \in S[j]) \/ (\E u \in Threads : c \in T[u])
    BY <1>1, PendingIs
  <2>3. ASSUME NEW c, c \in Pending PROVE c \in Pending'
    BY <2>1, <2>2, <2>3, <1>1, <1>3, <1>5, <1>7
  <2>4. ASSUME NEW c, c \in Pending' PROVE c \in Pending
    BY <2>1, <2>2, <2>4, <1>1, <1>5, <1>8
  <2>. QED BY <2>3, <2>4
<1>10. Quiet
  BY <1>9 DEF Quiet, fiberVars
<1>11. ASSUME NEW k \in 1..(n - 1), NEW l \in 1..(n - 1),
              Starts(m_tasks[k])' \cap Starts(m_tasks[l])' # {}
       PROVE  k = l
  <2>. DEFINE o(m) == IF m < i THEN m ELSE m + 1
  <2>1. o(k) \in 1..n /\ o(l) \in 1..n /\ (o(k) = o(l) => k = l)
    BY <1>1
  <2>2. Starts(m_tasks[k])' = S[o(k)] /\ Starts(m_tasks[l])' = S[o(l)]
    BY <1>4
  <2>. HIDE DEF o
  <2>. QED BY <2>1, <2>2, <1>6, <1>11
<1>12. ASSUME NEW u \in Threads, NEW k \in 1..(n - 1)
       PROVE  Starts(m_tasks[k])' \cap Starts(tk[u])' = {}
  BY <1>1, <1>5, <1>6, <1>8
<1>13. ASSUME NEW u \in Threads, NEW v \in Threads, Starts(tk[u])' \cap Starts(tk[v])' # {}
       PROVE  u = v
  BY <1>1, <1>5, <1>6, <1>13
<1>14. StartsInv'
  <2>1. posted' = entered' \cup Pending' /\ entered' \cap Pending' = {}
    BY <1>6, <1>10 DEF Quiet
  <2>. QED BY <2>1, <1>2, <1>11, <1>12, <1>13 DEF StartsInv, NoCallbackLost
<1>. QED BY <1>10, <1>14

(* A thread starts the callback of its task. *)
LEMMA StartsEnter ==
  ASSUME IInv, StartsInv, UNCHANGED <<m_tasks, posted>>,
         NEW t \in Threads, NEW c, Starts(tk[t]) = {c}, Starts(tk[t])' = {},
         entered' = entered \cup {c},
         \A i \in 1..Len(m_tasks) : Starts(m_tasks[i])' = Starts(m_tasks[i]),
         \A u \in Threads : u # t => Starts(tk[u])' = Starts(tk[u])
  PROVE  StartsInv' /\ Enters
<1>. DEFINE S(i) == Starts(m_tasks[i])
            T(u) == Starts(tk[u])
<1>1. /\ Len(m_tasks)' = Len(m_tasks) /\ \A i \in 1..Len(m_tasks) : S(i)' = S(i)
      /\ T(t) = {c} /\ T(t)' = {} /\ \A u \in Threads : u # t => T(u)' = T(u)
  OBVIOUS
<1>2. \A d : d \in Pending <=>
        (\E i \in 1..Len(m_tasks) : d \in S(i)) \/ (\E u \in Threads : d \in T(u))
  BY PendingIs
<1>3. \A d : d \in Pending' <=>
        (\E i \in 1..Len(m_tasks) : d \in S(i)') \/ (\E u \in Threads : d \in T(u)')
  BY DEF Pending
<1>4. /\ posted = entered \cup Pending /\ entered \cap Pending = {}
      /\ \A i, j \in 1..Len(m_tasks) : S(i) \cap S(j) # {} => i = j
      /\ \A u \in Threads, i \in 1..Len(m_tasks) : S(i) \cap T(u) = {}
      /\ \A u, v \in Threads : T(u) \cap T(v) # {} => u = v
  BY DEF StartsInv, NoCallbackLost
<1>. HIDE DEF S, T
<1>5. c \in Pending /\ c \notin Pending'
  BY <1>1, <1>2, <1>3, <1>4
<1>6. \A d : d # c => (d \in Pending' <=> d \in Pending)
  BY <1>1, <1>2, <1>3
<1>7. Pending' = Pending \ {c}
  BY <1>5, <1>6
<1>8. posted' = entered' \cup Pending' /\ entered' \cap Pending' = {}
  BY <1>4, <1>5, <1>7
<1>9. /\ \A i, j \in 1..Len(m_tasks) : S(i)' \cap S(j)' # {} => i = j
      /\ \A u \in Threads, i \in 1..Len(m_tasks) : S(i)' \cap T(u)' = {}
      /\ \A u, v \in Threads : T(u)' \cap T(v)' # {} => u = v
  BY <1>1, <1>4
<1>10. StartsInv'
  BY <1>1, <1>8, <1>9 DEF StartsInv, NoCallbackLost, S, T
<1>. QED BY <1>5, <1>7, <1>10 DEF Enters

-----------------------------------------------------------------------------
(* The steps of the threads. *)

Kept == StartsInv' /\ PlacesInv' /\ YieldInv' /\ EndInv' /\ SeenInv'

(* A thread moves inside run() and will scan again.  What it adds to the   *)
(* list it may take itself, unless clients pin to other threads.           *)
LEMMA StaysInRun ==
  ASSUME IInv, EndInv, SeenInv, NEW t \in Threads, NEW l, pc' = [pc EXCEPT ![t] = l],
         pc[t] \notin {"none", "exit"}, l \notin {"none", "exit", "notask"},
         UNCHANGED stopVars,
         \A u \in Threads : u # t => idle_fiber'[u] = idle_fiber[u],
         idle_fiber'[t] \in {"TERM"} \ {idle_fiber[t]} => m_stopping,
         \A k \in 1..Len(m_tasks)' :
           \/ m_tasks'[k].thread \in {AnyThread, t} \/ PinOther
           \/ \E j \in 1..Len(m_tasks) : m_tasks'[k].thread = m_tasks[j].thread
  PROVE  EndInv' /\ SeenInv'
<1>0. /\ pc'[t] = l
      /\ \A u \in Threads : u # t => pc'[u] = pc[u] /\ idle_fiber'[u] = idle_fiber[u]
      /\ ~m_stopping /\ idle_fiber[t] # "TERM" => idle_fiber'[t] # "TERM"
      /\ UNCHANGED <<caller, m_stopping>>
  BY DEF IInv, TypeOK, stopVars
<1>1. LooksAgain(t)'
  BY <1>0 DEF LooksAgain
<1>2. \A u \in Threads : LooksAgain(u) => LooksAgain(u)'
  BY <1>0, <1>1 DEF LooksAgain
<1>3. SeenInv'
  <2>1. ASSUME NEW k \in 1..Len(m_tasks)'
        PROVE  /\ m_tasks'[k].thread = AnyThread => \E u \in Threads : LooksAgain(u)'
               /\ m_tasks'[k].thread \in Threads => PinOther \/ LooksAgain(m_tasks[k].thread)'
    <3>1. PICK p : p = m_tasks'[k].thread
      OBVIOUS
    <3>2. p \in Threads => PinOther \/ LooksAgain(p)'
      BY <3>1, <1>1, <1>2, ThreadsAssumption DEF SeenInv
    <3>3. LooksAgain(p)' => LooksAgain(m_tasks[k].thread)'
      BY <3>1 DEF LooksAgain
    <3>. QED BY <1>1, <3>1, <3>2, <3>3
  <2>. QED BY <2>1 DEF SeenInv
<1>4. EndInv'
  BY <1>0 DEF EndInv, Workers
<1>. QED BY <1>3, <1>4

(* Steps of run() that touch no fiber and no task. *)
LEMMA ControlKeeps ==
  ASSUME ConservationInv, NEW t \in Threads,
         CountActive(t) \/ UncountActive(t) \/ EnterIdle(t) \/ Idle(t) \/ LeaveIdle(t) \/ SwapOut(t)
  PROVE  Kept /\ Quiet
<1>. USE DEF ConservationInv
<1>1. /\ UNCHANGED <<m_tasks, posted, entered, m_state, m_cb, tk, cb_fiber, waiting, stopVars>>
      /\ pc[t] \notin {"none", "exit", "notask"} \/ (pc[t] = "notask" /\ idle_fiber[t] # "TERM")
      /\ \E l : /\ pc' = [pc EXCEPT ![t] = l] /\ l \notin {"none", "exit", "notask"}
                /\ \/ pc[t] \notin Attached /\ l \notin Attached
                   \/ pc[t] \in {"swapout", "back"} /\ l \in {"back", "post"}
      /\ \A u \in Threads : u # t => idle_fiber'[u] = idle_fiber[u]
      /\ idle_fiber'[t] \in {"TERM"} \ {idle_fiber[t]} => m_stopping
  BY DEF CountActive, UncountActive, EnterIdle, Idle, LeaveIdle, SwapOut, swapOut, Goto,
       fiberVars, queueVars, stopVars, localVars, clientVars, stopping, Attached, OnFiber,
       IInv, TypeOK
<1>2. PICK l : /\ pc' = [pc EXCEPT ![t] = l] /\ l \notin {"none", "exit", "notask"}
               /\ \/ pc[t] \notin Attached /\ l \notin Attached
                  \/ pc[t] \in {"swapout", "back"} /\ l \in {"back", "post"}
  BY <1>1
<1>3. EndInv' /\ SeenInv'
  BY <1>1, <1>2, StaysInRun
<1>4. StartsInv' /\ Quiet
  BY <1>1, StartsSame DEF Fresh
<1>5. PlacesInv'
  BY <1>1, <1>2 DEF PlacesInv, HasCode, Somewhere, Current, IInv, TypeOK
<1>6. YieldInv'
  BY <1>1, <1>2 DEF YieldInv, Current, Attached, OnFiber, IInv, TypeOK
<1>. QED BY <1>3, <1>4, <1>5, <1>6 DEF Kept

(* A thread finds nothing it may take: what is listed for any thread to    *)
(* take it would have taken, so if this was its last look the list has     *)
(* only tasks for other threads.                                           *)
LEMMA FindNoTaskKeeps ==
  ASSUME ConservationInv, NEW t \in Threads, FindNoTask(t)
  PROVE  Kept /\ Quiet
<1>. USE DEF ConservationInv
<1>1. /\ UNCHANGED <<m_tasks, posted, entered, m_state, m_cb, tk, cb_fiber, idle_fiber,
                     waiting, stopVars>>
      /\ pc[t] = "scan" /\ pc' = [pc EXCEPT ![t] = "notask"]
      /\ \A i \in 1..Len(m_tasks) : ~Eligible(t, i)
  BY DEF FindNoTask, Goto, fiberVars, queueVars, stopVars, localVars, clientVars
<1>2. \A i \in 1..Len(m_tasks) : m_tasks[i].thread \notin {AnyThread, t}
  BY <1>1 DEF Eligible, IInv, OwnershipInv, QueueInv, Resumable
<1>3. \A u \in Threads : u # t /\ LooksAgain(u) => LooksAgain(u)'
  BY <1>1 DEF LooksAgain, IInv, TypeOK, stopVars
<1>4. SeenInv'
  BY <1>1, <1>2, <1>3 DEF SeenInv
<1>5. EndInv'
  BY <1>1 DEF EndInv, IInv, TypeOK, stopVars, Workers
<1>6. StartsInv' /\ Quiet
  BY <1>1, StartsSame DEF Fresh
<1>7. PlacesInv'
  BY <1>1 DEF PlacesInv, HasCode, Somewhere, Current, IInv, TypeOK
<1>8. YieldInv'
  BY <1>1 DEF YieldInv, Current, Attached, OnFiber, IInv, TypeOK
<1>. QED BY <1>4, <1>5, <1>6, <1>7, <1>8 DEF Kept

(* run() returns: it has seen the list for the last time before, and its   *)
(* cb_fiber has no code.                                                   *)
LEMMA ExitRunKeeps ==
  ASSUME ConservationInv, NEW t \in Threads, ExitRun(t)
  PROVE  Kept /\ Quiet
<1>. USE DEF ConservationInv
<1>1. /\ UNCHANGED <<m_tasks, posted, entered, m_state, m_cb, tk, idle_fiber, waiting, stopVars>>
      /\ pc[t] = "notask" /\ idle_fiber[t] = "TERM" /\ pc' = [pc EXCEPT ![t] = "exit"]
      /\ cb_fiber' = [cb_fiber EXCEPT ![t] = NoFiber]
  BY DEF ExitRun, Goto, fiberVars, queueVars, stopVars, clientVars
<1>2. \A u \in Threads : LooksAgain(u) => LooksAgain(u)'
  BY <1>1 DEF LooksAgain, IInv, TypeOK, stopVars
<1>3. SeenInv'
  BY <1>1, <1>2 DEF SeenInv
<1>4. EndInv'
  BY <1>1 DEF EndInv, IInv, TypeOK, stopVars, Workers
<1>5. StartsInv' /\ Quiet
  BY <1>1, StartsSame DEF Fresh
<1>6. /\ \A u \in Threads : u # t => Current(u)' = Current(u) /\ pc'[u] = pc[u]
      /\ tk[t] = NoTask /\ Current(t) = cb_fiber[t]
      /\ cb_fiber[t] # NoFiber => m_state[cb_fiber[t]] = "INIT" /\ m_cb[cb_fiber[t]] = NoCb
  BY <1>1 DEF IInv, TypeOK, OwnershipInv, LocalsInv, StatesInv, YieldInv, Current, NoTask,
       Attached, OnFiber
<1>7. PlacesInv'
  BY <1>1, <1>6, NullAssumption DEF PlacesInv, HasCode, Somewhere
<1>8. YieldInv'
  BY <1>1 DEF YieldInv, Current, Attached, OnFiber, IInv, TypeOK
<1>. QED BY <1>3, <1>4, <1>5, <1>7, <1>8 DEF Kept

(* A callback announces itself to its waker. *)
LEMMA UserArmsKeeps ==
  ASSUME ConservationInv, NEW t \in Threads, UserArms(t)
  PROVE  Kept /\ Quiet
<1>. USE DEF ConservationInv
<1>1. /\ UNCHANGED <<m_tasks, posted, entered, m_state, m_cb, tk, cb_fiber, idle_fiber, stopVars>>
      /\ pc[t] = "user" /\ pc' = [pc EXCEPT ![t] = "armed"]
      /\ waiting' = waiting \cup {t_fiber[t]} /\ t_fiber[t] = Current(t)
      /\ m_state[Current(t)] = "EXEC"
  BY DEF UserArms, Goto, fiberVars, queueVars, stopVars, localVars, IInv, OwnershipInv,
       LocalsInv, StatesInv, OnFiber
<1>2. EndInv' /\ SeenInv'
  BY <1>1, StaysInRun
<1>3. StartsInv' /\ Quiet
  BY <1>1, StartsSame DEF Fresh
<1>4. PlacesInv'
  BY <1>1 DEF PlacesInv, HasCode, Somewhere, Current, IInv, TypeOK
<1>5. YieldInv'
  BY <1>1 DEF YieldInv, Current, Attached, OnFiber, IInv, TypeOK
<1>. QED BY <1>2, <1>3, <1>4, <1>5 DEF Kept

(* A task moves from the list to tk, and its fiber with it. *)
LEMMA TakeTaskKeeps ==
  ASSUME ConservationInv, NEW t \in Threads, TakeTask(t)
  PROVE  Kept /\ Quiet
<1>. USE DEF ConservationInv
<1>1. PICK i \in 1..Len(m_tasks) :
        tk' = [tk EXCEPT ![t] = m_tasks[i]] /\ m_tasks' = RemoveAt(m_tasks, i)
  BY DEF TakeTask, Erase
<1>2. /\ UNCHANGED <<posted, fiberVars, cb_fiber, idle_fiber, waiting, stopVars>>
      /\ pc[t] = "scan" /\ pc' = [pc EXCEPT ![t] = "took"]
      /\ tk[t] = NoTask
  BY DEF TakeTask, Goto, clientVars, IInv, OwnershipInv, LocalsInv, Attached, OnFiber
<1>3. \A k \in 1..Len(m_tasks)' : \E j \in 1..Len(m_tasks) : m_tasks'[k] = m_tasks[j]
  <2>1. m_tasks \in Seq(Task)
    BY DEF IInv, TypeOK
  <2>2. \A k \in 1..Len(m_tasks') : \E j \in 1..Len(m_tasks) : j # i /\ m_tasks'[k] = m_tasks[j]
    BY <1>1, <2>1, EraseKeeps
  <2>. QED BY <2>2
<1>4. ASSUME NEW k \in 1..Len(m_tasks)'
      PROVE  \E j \in 1..Len(m_tasks) : m_tasks'[k].thread = m_tasks[j].thread
  <2>1. PICK j \in 1..Len(m_tasks) : m_tasks'[k] = m_tasks[j]
    BY <1>3
  <2>. QED BY <2>1
<1>5. EndInv' /\ SeenInv'
  BY <1>2, <1>4, StaysInRun
<1>6. StartsInv' /\ Quiet
  BY <1>1, <1>2, StartsTake
<1>7. \A j \in 1..Len(m_tasks) : j = i \/ \E k \in 1..Len(m_tasks)' : m_tasks'[k] = m_tasks[j]
  <2>1. PICK n \in Nat : n = Len(m_tasks)
    BY DEF IInv, TypeOK
  <2>2. /\ Len(m_tasks)' = n - 1
        /\ \A k \in 1..(n - 1) : m_tasks'[k] = IF k < i THEN m_tasks[k] ELSE m_tasks[k + 1]
    BY <1>1, <2>1, EraseFacts DEF IInv, TypeOK
  <2>3. ASSUME NEW j \in 1..n, j < i
        PROVE  j \in 1..(n - 1) /\ m_tasks'[j] = m_tasks[j]
    BY <2>1, <2>2, <2>3
  <2>4. ASSUME NEW j \in 1..n, j > i
        PROVE  j - 1 \in 1..(n - 1) /\ m_tasks'[j - 1] = m_tasks[j]
    <3>1. j - 1 \in 1..(n - 1) /\ ~(j - 1 < i) /\ (j - 1) + 1 = j
      BY <2>1, <2>4
    <3>. QED BY <3>1, <2>2
  <2>5. ASSUME NEW j \in 1..n, j # i
        PROVE  \E k \in 1..(n - 1) : m_tasks'[k] = m_tasks[j]
    <3>1. j < i \/ j > i
      BY <2>1, <2>5
    <3>. QED BY <2>3, <2>4, <3>1
  <2>. QED BY <2>1, <2>2, <2>5
<1>8. /\ pc' \in [Threads -> Pcs \cup {"took"}] /\ tk'[t] = m_tasks[i] /\ pc'[t] = "took"
      /\ \A u \in Threads : u # t => Current(u)' = Current(u) /\ pc'[u] = pc[u]
      /\ m_tasks[i].fiber # NoFiber => Current(t)' = m_tasks[i].fiber
      /\ m_tasks[i].fiber = NoFiber => Current(t)' = Current(t)
  BY <1>1, <1>2 DEF Current, IInv, TypeOK, NoTask
<1>9. PlacesInv'
  <2>1. ASSUME NEW f \in Fibers, Somewhere(f)
        PROVE  Somewhere(f)' \/ (pc[t] # "exit" /\ Current(t) = f /\ m_tasks[i].fiber # NoFiber)
    <3>1. CASE \E j \in 1..Len(m_tasks) : m_tasks[j].fiber = f
      BY <3>1, <1>7, <1>8, NullAssumption DEF Somewhere
    <3>2. CASE \E u \in Threads : pc[u] # "exit" /\ Current(u) = f
      BY <3>2, <1>8 DEF Somewhere
    <3>. QED BY <2>1, <3>1, <3>2 DEF Somewhere
  <2>2. ASSUME NEW f \in Fibers, Current(t) = f
        PROVE  ~HasCode(f) /\ m_state[f] = "INIT"
    BY <1>2, <2>2, NullAssumption DEF Current, NoTask, HasCode, IInv, OwnershipInv, StatesInv,
         YieldInv, Attached, OnFiber
  <2>3. \A f \in Fibers : HasCode(f)' = HasCode(f) /\ m_state'[f] = m_state[f]
    BY <1>2 DEF HasCode, fiberVars
  <2>. QED BY <1>2, <2>1, <2>2, <2>3 DEF PlacesInv
<1>10. YieldInv'
  BY <1>1, <1>2 DEF YieldInv, Current, Attached, OnFiber, IInv, TypeOK, fiberVars, NoTask
<1>. QED BY <1>5, <1>6, <1>9, <1>10 DEF Kept

(* What is true of a task that is about to be dispatched. *)
LEMMA DispatchFacts ==
  ASSUME ConservationInv, NEW t \in Threads, pc[t] = "dispatch"
  PROVE  /\ tk[t].fiber = NoFiber => tk[t].cb \in Cbs /\ Starts(tk[t]) = {tk[t].cb}
         /\ tk[t].fiber # NoFiber => tk[t].fiber \in Fibers /\ Starts(tk[t]) = Fresh(tk[t].fiber)
  BY DEF ConservationInv, IInv, OwnershipInv, LocalsInv, StatesInv, Starts, Fresh, TypeOK, Task,
       Attached, OnFiber

(* A fiber task is swapped into: the callback of a new fiber starts. *)
LEMMA DispatchFiberKeeps ==
  ASSUME ConservationInv, NEW t \in Threads, DispatchFiber(t)
  PROVE  Kept /\ (Quiet \/ Enters)
<1>. USE DEF ConservationInv
<1>. DEFINE F == tk[t].fiber
<1>1. PICK f \in Fibers : f = F
  BY DispatchFacts DEF DispatchFiber
<1>2. /\ pc[t] = "dispatch" /\ pc' = [pc EXCEPT ![t] = "user"]
      /\ UNCHANGED <<m_tasks, m_cb, tk, cb_fiber, idle_fiber, waiting, posted, stopVars>>
      /\ m_state' = [m_state EXCEPT ![f] = "EXEC"]
      /\ entered' = entered \cup Fresh(f)
      /\ f # NoFiber /\ m_state[f] \notin {"TERM", "EXCEPT"}
  BY <1>1, NullAssumption DEF DispatchFiber, swapIn, stateTermOrExcept, Goto, queueVars, stopVars,
       localVars, clientVars, Fresh
<1>3. /\ \A u \in Threads : u # t => tk[u].fiber # f
      /\ \A u \in Threads : cb_fiber[u] # f
      /\ \A i \in 1..Len(m_tasks) : m_tasks[i].fiber # f
  BY <1>1, <1>2 DEF IInv, OwnershipInv, ThreadsOwn, QueueOwns, stateTermOrExcept
<1>4. \A k \in Task : k.fiber # f => Starts(k)' = Starts(k)
  BY <1>2 DEF Starts, IInv, TypeOK, FiberTypeOK, Task
<1>5. \A i \in 1..Len(m_tasks) : Starts(m_tasks[i])' = Starts(m_tasks[i])
  <2>1. ASSUME NEW i \in 1..Len(m_tasks) PROVE Starts(m_tasks[i])' = Starts(m_tasks[i])
    <3>1. PICK k \in Task : k = m_tasks[i]
      BY TasksTyped DEF IInv, TypeOK
    <3>2. Starts(k)' = Starts(k)
      BY <1>3, <1>4, <3>1
    <3>. QED BY <1>2, <3>1, <3>2 DEF Starts
  <2>. QED BY <2>1
<1>6. \A u \in Threads : u # t => Starts(tk[u])' = Starts(tk[u])
  <2>1. ASSUME NEW u \in Threads, u # t PROVE Starts(tk[u])' = Starts(tk[u])
    <3>1. PICK k \in Task : k = tk[u]
      BY DEF IInv, TypeOK
    <3>2. Starts(k)' = Starts(k)
      BY <1>3, <1>4, <2>1, <3>1
    <3>. QED BY <1>2, <3>1, <3>2 DEF Starts
  <2>. QED BY <2>1
<1>7. Starts(tk[t]) = Fresh(f) /\ Starts(tk[t])' = {}
  <2>1. Starts(tk[t]) = Fresh(f)
    BY <1>1, <1>2, DispatchFacts
  <2>2. m_state'[f] = "EXEC" /\ tk'[t].fiber = f
    BY <1>1, <1>2 DEF IInv, TypeOK, FiberTypeOK
  <2>3. Starts(tk[t])' = {}
    BY <1>2, <2>2 DEF Starts
  <2>. QED BY <2>1, <2>3
<1>8. EndInv' /\ SeenInv'
  BY <1>2, StaysInRun
<1>9. StartsInv' /\ (Quiet \/ Enters)
  <2>1. CASE m_state[f] = "INIT"
    <3>1. PICK c : c = m_cb[f]
      OBVIOUS
    <3>2. Starts(tk[t]) = {c} /\ entered' = entered \cup {c}
      BY <1>2, <1>7, <2>1, <3>1 DEF Fresh
    <3>. QED BY <1>2, <1>5, <1>6, <1>7, <3>2, StartsEnter
  <2>2. CASE m_state[f] # "INIT"
    <3>1. Fresh(f) = {} /\ entered' = entered
      BY <1>2, <2>2 DEF Fresh
    <3>2. \A g \in Fibers : Fresh(g)' = Fresh(g)
      BY <1>2, <2>2 DEF Fresh, IInv, TypeOK, FiberTypeOK
    <3>. QED BY <1>2, <3>1, <3>2, StartsSame
  <2>. QED BY <2>1, <2>2
<1>10. PlacesInv'
  BY <1>1, <1>2 DEF PlacesInv, HasCode, Somewhere, Current, IInv, TypeOK, FiberTypeOK
<1>11. YieldInv'
  BY <1>1, <1>2, <1>3 DEF YieldInv, Current, Attached, OnFiber, IInv, TypeOK, FiberTypeOK
<1>. QED BY <1>8, <1>9, <1>10, <1>11 DEF Kept

(* A callback task is entered on the thread's cb_fiber, or on a new one. *)
LEMMA DispatchCbKeeps ==
  ASSUME ConservationInv, NEW t \in Threads, DispatchCb(t)
  PROVE  Kept /\ Enters
<1>. USE DEF ConservationInv
<1>1. PICK f \in Fibers, c \in Cbs :
        /\ c = tk[t].cb /\ Starts(tk[t]) = {c} /\ tk[t].fiber = NoFiber
        /\ IF cb_fiber[t] # NoFiber THEN f = cb_fiber[t] ELSE m_state[f] = "none"
        /\ m_cb' = [m_cb EXCEPT ![f] = c]
        /\ m_state' = [m_state EXCEPT ![f] = "EXEC"]
        /\ entered' = entered \cup {c}
        /\ cb_fiber' = [cb_fiber EXCEPT ![t] = f]
  <2>1. pc[t] = "dispatch" /\ tk[t].cb # NoCb
    BY DEF DispatchCb
  <2>2. tk[t].fiber = NoFiber
    BY <2>1 DEF IInv, OwnershipInv, LocalsInv, TypeOK, Task
  <2>3. tk[t].cb \in Cbs /\ Starts(tk[t]) = {tk[t].cb}
    BY <2>1, <2>2, DispatchFacts
  <2>. QED BY <2>2, <2>3 DEF DispatchCb, ResetAndSwapIn
<1>2. /\ pc[t] = "dispatch" /\ pc' = [pc EXCEPT ![t] = "user"]
      /\ tk' = [tk EXCEPT ![t] = NoTask]
      /\ UNCHANGED <<m_tasks, idle_fiber, waiting, posted, stopVars>>
  BY DEF DispatchCb, Goto, queueVars, stopVars, clientVars
<1>3. m_state[f] \in {"none", "INIT"}
  BY <1>1, <1>2 DEF IInv, OwnershipInv, StatesInv, Attached, OnFiber
<1>4. \A i \in 1..Len(m_tasks) : m_tasks[i].fiber # f
  BY <1>1, <1>3, NullAssumption DEF IInv, OwnershipInv, QueueOwns, QueueInv, Resumable
<1>5. \A u \in Threads : tk[u].fiber # f /\ (u # t => cb_fiber[u] # f)
  <2>1. CASE cb_fiber[t] # NoFiber
    BY <1>1, <2>1 DEF IInv, OwnershipInv, ThreadsOwn
  <2>2. CASE cb_fiber[t] = NoFiber
    <3>1. m_state[f] = "none"
      BY <1>1, <2>2
    <3>2. ASSUME NEW u \in Threads PROVE tk[u].fiber # f /\ (u # t => cb_fiber[u] # f)
      <4>1. CASE pc[u] \in Attached
        BY <3>1, <4>1, NullAssumption DEF IInv, OwnershipInv, StatesInv, Current, Attached, OnFiber
      <4>2. CASE pc[u] \in {"took", "dispatch"}
        BY <3>1, <4>2, NullAssumption DEF IInv, OwnershipInv, StatesInv, Resumable, Attached, OnFiber
      <4>3. CASE pc[u] \notin Attached \cup {"took", "dispatch"}
        BY <3>1, <4>3, NullAssumption DEF IInv, OwnershipInv, StatesInv, LocalsInv, NoTask
      <4>. QED BY <4>1, <4>2, <4>3
    <3>. QED BY <3>2
  <2>. QED BY <2>1, <2>2
<1>6. \A k \in Task : k.fiber # f => Starts(k)' = Starts(k)
  BY <1>1 DEF Starts, IInv, TypeOK, FiberTypeOK, Task
<1>7. \A i \in 1..Len(m_tasks) : Starts(m_tasks[i])' = Starts(m_tasks[i])
  <2>1. ASSUME NEW i \in 1..Len(m_tasks) PROVE Starts(m_tasks[i])' = Starts(m_tasks[i])
    <3>1. PICK k \in Task : k = m_tasks[i]
      BY TasksTyped DEF IInv, TypeOK
    <3>2. Starts(k)' = Starts(k)
      BY <1>4, <1>6, <3>1
    <3>. QED BY <1>2, <3>1, <3>2 DEF Starts
  <2>. QED BY <2>1
<1>8. \A u \in Threads : u # t => Starts(tk[u])' = Starts(tk[u])
  <2>1. ASSUME NEW u \in Threads, u # t PROVE Starts(tk[u])' = Starts(tk[u])
    <3>1. PICK k \in Task : k = tk[u]
      BY DEF IInv, TypeOK
    <3>2. Starts(k)' = Starts(k)
      BY <1>5, <1>6, <3>1
    <3>3. tk'[u] = tk[u]
      BY <1>2, <2>1 DEF IInv, TypeOK
    <3>. QED BY <3>1, <3>2, <3>3 DEF Starts
  <2>. QED BY <2>1
<1>9. Starts(tk[t])' = {}
  <2>1. tk'[t] = NoTask
    BY <1>2 DEF IInv, TypeOK
  <2>. QED BY <2>1 DEF Starts, NoTask
<1>10. StartsInv' /\ Enters
  BY <1>1, <1>2, <1>7, <1>8, <1>9, StartsEnter
<1>11. EndInv' /\ SeenInv'
  BY <1>2, StaysInRun
<1>12. PlacesInv'
  <2>1. /\ \A g \in Fibers : g # f => m_state'[g] = m_state[g] /\ m_cb'[g] = m_cb[g]
        /\ \A u \in Threads : u # t => Current(u)' = Current(u) /\ pc'[u] = pc[u]
        /\ Current(t)' = f /\ pc'[t] = "user"
    BY <1>1, <1>2 DEF Current, IInv, TypeOK, FiberTypeOK, NoTask
  <2>2. Current(t) = cb_fiber[t] /\ (cb_fiber[t] # NoFiber => cb_fiber[t] = f)
    BY <1>1 DEF Current
  <2>. QED BY <1>2, <2>1, <2>2, NullAssumption DEF PlacesInv, HasCode, Somewhere
<1>13. YieldInv'
  <2>1. /\ \A u \in Threads : u # t => /\ Current(u)' = Current(u) /\ pc'[u] = pc[u]
                                       /\ tk'[u] = tk[u] /\ cb_fiber'[u] = cb_fiber[u]
        /\ pc'[t] = "user" /\ tk'[t].fiber = NoFiber
        /\ \A g \in Fibers : g # f => m_state'[g] = m_state[g] /\ m_cb'[g] = m_cb[g]
    BY <1>1, <1>2 DEF Current, IInv, TypeOK, FiberTypeOK, NoTask
  <2>2. \A u \in Threads : u # t => /\ Current(u) # f /\ cb_fiber[u] # f
                                    /\ pc[u] \in Attached => Current(u) \in Fibers
    BY <1>5 DEF Current, IInv, OwnershipInv, LocalsInv
  <2>3. \A u \in Threads : cb_fiber[u] \in Fibers \cup {NoFiber}
    BY DEF IInv, TypeOK
  <2>4. ASSUME NEW u \in Threads, u # t
        PROVE  /\ pc'[u] = "armed" => Current(u)' \in waiting'
               /\ pc'[u] \in {"swapout", "back", "post"} /\ m_state'[Current(u)'] = "HOLD" =>
                    Current(u)' \in waiting'
               /\ cb_fiber'[u] # NoFiber /\ (pc'[u] \notin Attached \/ tk'[u].fiber # NoFiber) =>
                    m_cb'[cb_fiber'[u]] = NoCb
    <3>1. pc[u] \in Attached => m_state'[Current(u)] = m_state[Current(u)]
      BY <2>1, <2>2, <2>4
    <3>2. cb_fiber[u] # NoFiber => m_cb'[cb_fiber[u]] = m_cb[cb_fiber[u]]
      BY <2>1, <2>2, <2>3, <2>4
    <3>. QED BY <1>2, <2>1, <2>4, <3>1, <3>2 DEF YieldInv, Attached, OnFiber
  <2>5. pc'[t] = "user" /\ "user" \in Attached
    BY <2>1 DEF Attached, OnFiber
  <2>. QED BY <2>1, <2>4, <2>5 DEF YieldInv
<1>. QED BY <1>10, <1>11, <1>12, <1>13 DEF Kept

(* A finished fiber is dropped. *)
LEMMA DropTaskKeeps ==
  ASSUME ConservationInv, NEW t \in Threads, DropTask(t)
  PROVE  Kept /\ Quiet
<1>. USE DEF ConservationInv
<1>1. /\ pc[t] = "dispatch" /\ pc' = [pc EXCEPT ![t] = "scan"]
      /\ tk' = [tk EXCEPT ![t] = NoTask]
      /\ tk[t].fiber # NoFiber /\ m_state[tk[t].fiber] \in {"TERM", "EXCEPT"}
      /\ UNCHANGED <<fiberVars, m_tasks, cb_fiber, idle_fiber, waiting, posted, stopVars>>
  BY DEF DropTask, Goto, stateTermOrExcept, clientVars, stopVars
<1>2. EndInv' /\ SeenInv'
  BY <1>1, StaysInRun
<1>3. StartsInv' /\ Quiet
  <2>1. Starts(tk[t]) = {}
    BY <1>1 DEF Starts
  <2>2. \A u \in Threads : tk'[u] = tk[u] \/ (tk'[u] = NoTask /\ Starts(tk[u]) = {})
    BY <1>1, <2>1 DEF IInv, TypeOK
  <2>3. \A f \in Fibers : Fresh(f)' = Fresh(f)
    BY <1>1 DEF Fresh, fiberVars
  <2>. QED BY <1>1, <2>2, <2>3, StartsSame DEF fiberVars
<1>4. PlacesInv'
  BY <1>1, NullAssumption DEF PlacesInv, HasCode, Somewhere, Current, IInv, TypeOK, fiberVars, NoTask
<1>5. YieldInv'
  BY <1>1 DEF YieldInv, Current, Attached, OnFiber, IInv, TypeOK, fiberVars, NoTask
<1>. QED BY <1>2, <1>3, <1>4, <1>5 DEF Kept

(* A fiber publishes the state it leaves in, still on its stack. *)
LEMMA PublishKeeps ==
  ASSUME ConservationInv, NEW t \in Threads,
         YieldToHold(t) \/ YieldToReady(t) \/ UserReturns(t) \/ UserThrows(t)
  PROVE  Kept /\ Quiet
<1>. USE DEF ConservationInv
<1>1. PICK f \in Fibers : f = Current(t) /\ t_fiber[t] = f /\ m_state[f] = "EXEC"
  BY DEF IInv, OwnershipInv, LocalsInv, StatesInv, OnFiber, Attached, YieldToHold, YieldToReady,
       UserReturns, UserThrows
<1>2. /\ pc[t] \in {"user", "armed"} /\ pc' = [pc EXCEPT ![t] = "swapout"]
      /\ UNCHANGED <<m_tasks, entered, tk, cb_fiber, idle_fiber, waiting, posted, stopVars>>
      /\ m_cb' \in {m_cb, [m_cb EXCEPT ![f] = NoCb]}
      /\ \E s \in {"READY", "HOLD", "TERM", "EXCEPT"} :
           m_state' = [m_state EXCEPT ![f] = s] /\ (s = "HOLD" => pc[t] = "armed")
  BY <1>1 DEF YieldToHold, YieldToReady, UserReturns, UserThrows, MainFuncReturn, MainFuncExcept,
       setState, Goto, queueVars, stopVars, localVars, clientVars
<1>3. PICK s \in {"READY", "HOLD", "TERM", "EXCEPT"} :
        m_state' = [m_state EXCEPT ![f] = s] /\ (s = "HOLD" => pc[t] = "armed")
  BY <1>2
<1>4. m_state'[f] = s /\ \A g \in Fibers : g # f => m_state'[g] = m_state[g] /\ m_cb'[g] = m_cb[g]
  BY <1>2, <1>3 DEF IInv, TypeOK, FiberTypeOK
<1>5. \A u \in Threads : u # t => tk[u].fiber # f /\ cb_fiber[u] # f
  BY <1>1, NullAssumption DEF IInv, OwnershipInv, ThreadsOwn, Current, stateTermOrExcept
<1>6. /\ \A u \in Threads : Current(u)' = Current(u)
      /\ pc'[t] = "swapout" /\ \A u \in Threads : u # t => pc'[u] = pc[u]
  BY <1>2 DEF Current, IInv, TypeOK
<1>7. EndInv' /\ SeenInv'
  BY <1>2, StaysInRun
<1>8. StartsInv' /\ Quiet
  <2>1. \A g \in Fibers : Fresh(g)' = Fresh(g)
    BY <1>1, <1>4 DEF Fresh
  <2>. QED BY <1>2, <2>1, StartsSame
<1>9. PlacesInv'
  <2>1. Somewhere(f)'
    BY <1>1, <1>6 DEF Somewhere
  <2>2. \A g \in Fibers : Somewhere(g) => Somewhere(g)'
    BY <1>2, <1>6 DEF Somewhere
  <2>3. ASSUME NEW g \in Fibers, g # f
        PROVE  /\ HasCode(g)' <=> HasCode(g)
               /\ m_state'[g] = m_state[g]
    BY <1>4, <2>3 DEF HasCode
  <2>. QED BY <1>2, <2>1, <2>2, <2>3 DEF PlacesInv
<1>10. YieldInv'
  <2>1. ASSUME NEW u \in Threads
        PROVE  /\ pc'[u] = "armed" => Current(u) \in waiting
               /\ pc'[u] \in {"swapout", "back", "post"} /\ m_state'[Current(u)] = "HOLD" =>
                    Current(u) \in waiting
               /\ cb_fiber[u] # NoFiber /\ (pc'[u] \notin Attached \/ tk[u].fiber # NoFiber) =>
                    m_cb'[cb_fiber[u]] = NoCb
    <3>1. CASE u = t
      <4>1. tk[t].fiber # NoFiber => cb_fiber[t] # f
        BY <1>1 DEF Current, IInv, OwnershipInv, ThreadsOwn
      <4>2. cb_fiber[t] \in Fibers \cup {NoFiber}
        BY DEF IInv, TypeOK
      <4>. QED BY <3>1, <4>1, <4>2, <1>1, <1>2, <1>3, <1>4, <1>6 DEF YieldInv, Attached, OnFiber
    <3>2. CASE u # t
      <4>1. /\ pc[u] \in Attached => Current(u) \in Fibers /\ Current(u) # f
            /\ cb_fiber[u] \in Fibers \cup {NoFiber} /\ cb_fiber[u] # f
        BY <1>5, <3>2 DEF Current, IInv, TypeOK, OwnershipInv, LocalsInv
      <4>2. pc[u] \in Attached => m_state'[Current(u)] = m_state[Current(u)]
        BY <4>1, <1>4
      <4>3. cb_fiber[u] # NoFiber => m_cb'[cb_fiber[u]] = m_cb[cb_fiber[u]]
        BY <4>1, <1>4
      <4>. QED BY <3>2, <4>2, <4>3, <1>6 DEF YieldInv, Attached, OnFiber
    <3>. QED BY <3>1, <3>2
  <2>. QED BY <1>2, <1>6, <2>1 DEF YieldInv
<1>. QED BY <1>7, <1>8, <1>9, <1>10 DEF Kept

(* A finished fiber is let go, or emptied and kept for the next callback. *)
LEMMA PostFinishedKeeps ==
  ASSUME ConservationInv, NEW t \in Threads, PostFinished(t)
  PROVE  Kept /\ Quiet
<1>. USE DEF ConservationInv
<1>1. PICK f \in Fibers : f = Current(t) /\ m_state[f] \in {"TERM", "EXCEPT"}
  BY DEF IInv, OwnershipInv, LocalsInv, Attached, PostFinished, stateTermOrExcept
<1>2. /\ pc[t] = "post" /\ pc' = [pc EXCEPT ![t] = "scan"]
      /\ tk' = [tk EXCEPT ![t] = NoTask]
      /\ UNCHANGED <<m_tasks, entered, cb_fiber, idle_fiber, waiting, posted, stopVars>>
      /\ \/ tk[t].fiber # NoFiber /\ tk[t].fiber = f /\ UNCHANGED <<m_state, m_cb>>
         \/ /\ tk[t].fiber = NoFiber /\ cb_fiber[t] = f
            /\ m_state' = [m_state EXCEPT ![f] = "INIT"]
            /\ m_cb' = [m_cb EXCEPT ![f] = NoCb]
  BY <1>1 DEF PostFinished, ResetToNull, Goto, Current, fiberVars, queueVars, stopVars, clientVars
<1>3. /\ \A u \in Threads : u # t => Current(u)' = Current(u) /\ pc'[u] = pc[u] /\ tk'[u] = tk[u]
      /\ pc'[t] = "scan" /\ tk'[t] = NoTask
  BY <1>2 DEF Current, IInv, TypeOK
<1>4. EndInv' /\ SeenInv'
  BY <1>2, StaysInRun
<1>5. Starts(tk[t]) = {}
  BY <1>2, AttachedStarts
<1>6. \A u \in Threads : tk'[u] = tk[u] \/ (tk'[u] = NoTask /\ Starts(tk[u]) = {})
  BY <1>3, <1>5
<1>7. CASE tk[t].fiber # NoFiber /\ tk[t].fiber = f /\ UNCHANGED <<m_state, m_cb>>
  <2>1. StartsInv' /\ Quiet
    BY <1>2, <1>6, <1>7, StartsSame DEF Fresh
  <2>2. PlacesInv'
    BY <1>1, <1>2, <1>3, <1>7, NullAssumption DEF PlacesInv, HasCode, Somewhere
  <2>3. YieldInv'
    BY <1>2, <1>7 DEF YieldInv, Current, Attached, OnFiber, IInv, TypeOK, NoTask
  <2>. QED BY <1>4, <2>1, <2>2, <2>3 DEF Kept
<1>8. CASE /\ tk[t].fiber = NoFiber /\ cb_fiber[t] = f
           /\ m_state' = [m_state EXCEPT ![f] = "INIT"]
           /\ m_cb' = [m_cb EXCEPT ![f] = NoCb]
  <2>1. /\ m_state'[f] = "INIT" /\ m_cb'[f] = NoCb
        /\ \A g \in Fibers : g # f => m_state'[g] = m_state[g] /\ m_cb'[g] = m_cb[g]
    BY <1>8 DEF IInv, TypeOK, FiberTypeOK
  <2>2. /\ \A u \in Threads : tk[u].fiber # f /\ (u # t => cb_fiber[u] # f)
        /\ \A i \in 1..Len(m_tasks) : m_tasks[i].fiber # f
    BY <1>8, NullAssumption DEF IInv, OwnershipInv, ThreadsOwn, QueueOwns
  <2>3. StartsInv' /\ Quiet
    <3>1. \A g \in Fibers : Listed(g) => Fresh(g)' = Fresh(g)
      BY <2>1, <2>2 DEF Fresh, Listed
    <3>. QED BY <1>2, <1>6, <3>1, StartsSame
  <2>4. PlacesInv'
    <3>1. ~HasCode(f)' /\ m_state'[f] # "HOLD"
      BY <2>1 DEF HasCode
    <3>2. ASSUME NEW g \in Fibers, g # f
          PROVE  /\ HasCode(g)' <=> HasCode(g)
                 /\ m_state'[g] = m_state[g] /\ (Somewhere(g) => Somewhere(g)')
      BY <1>1, <1>2, <1>3, <2>1, <3>2 DEF HasCode, Somewhere
    <3>. QED BY <1>2, <3>1, <3>2 DEF PlacesInv
  <2>5. YieldInv'
    <3>1. ASSUME NEW u \in Threads, u # t
          PROVE  /\ pc'[u] = "armed" => Current(u)' \in waiting
                 /\ pc'[u] \in {"swapout", "back", "post"} /\ m_state'[Current(u)'] = "HOLD" =>
                      Current(u)' \in waiting
                 /\ cb_fiber[u] # NoFiber /\ (pc'[u] \notin Attached \/ tk'[u].fiber # NoFiber) =>
                      m_cb'[cb_fiber[u]] = NoCb
      <4>1. /\ pc[u] \in Attached => Current(u) \in Fibers /\ Current(u) # f
            /\ cb_fiber[u] \in Fibers \cup {NoFiber} /\ cb_fiber[u] # f
        BY <2>2, <3>1 DEF Current, IInv, TypeOK, OwnershipInv, LocalsInv
      <4>2. pc[u] \in Attached => m_state'[Current(u)] = m_state[Current(u)]
        BY <4>1, <2>1
      <4>3. cb_fiber[u] # NoFiber => m_cb'[cb_fiber[u]] = m_cb[cb_fiber[u]]
        BY <4>1, <2>1
      <4>. QED BY <3>1, <4>2, <4>3, <1>3 DEF YieldInv, Attached, OnFiber
    <3>. QED BY <1>2, <1>3, <1>8, <2>1, <3>1 DEF YieldInv
  <2>. QED BY <1>4, <2>3, <2>4, <2>5 DEF Kept
<1>. QED BY <1>2, <1>7, <1>8

(* One entry is appended, and it starts the new callbacks of C. *)
LEMMA StartsAppendOne ==
  ASSUME IInv, StartsInv, NEW k \in Task, m_tasks' = Append(m_tasks, k),
         NEW C \in SUBSET Cbs, C \cap (Pending \cup entered) = {}, Starts(k)' = C,
         posted' = posted \cup C, entered' = entered,
         \A f \in Fibers : Listed(f) => Fresh(f)' = Fresh(f),
         \A t \in Threads : tk'[t] = tk[t] \/ (tk'[t] = NoTask /\ Starts(tk[t]) = {})
  PROVE  StartsInv' /\ Pending' = Pending \cup C
<1>0. <<k>> \in Seq(Task)
  OBVIOUS
<1>1. PICK s \in Seq(Task) : s = <<k>>
  BY <1>0
<1>2. m_tasks' = m_tasks \o s /\ Len(s) = 1 /\ s[1] = k
  BY <1>1 DEF IInv, TypeOK
<1>3. Starts(s[1])' = C
  BY <1>2 DEF Starts
<1>4. \A i \in 1..Len(s) : i = 1
  BY <1>2
<1>5. /\ \A i \in 1..Len(s) : Starts(s[i])' \subseteq C
      /\ \A c \in C : \E i \in 1..Len(s) : c \in Starts(s[i])'
      /\ \A i, j \in 1..Len(s) : i # j => Starts(s[i])' \cap Starts(s[j])' = {}
  BY <1>2, <1>3, <1>4
<1>. QED BY <1>1, <1>2, <1>5, StartsAppend

(* A fiber that yielded to READY goes back to the list, for any thread: at *)
(* least the one that puts it there will look again.                       *)
LEMMA PostReadyKeeps ==
  ASSUME ConservationInv, NEW t \in Threads, PostReady(t)
  PROVE  Kept /\ Quiet
<1>. USE DEF ConservationInv
<1>1. PICK f \in Fibers : f = Current(t) /\ m_state[f] = "READY"
  BY DEF IInv, OwnershipInv, LocalsInv, Attached, PostReady
<1>2. /\ pc[t] = "post" /\ pc' = [pc EXCEPT ![t] = "scan"]
      /\ tk' = [tk EXCEPT ![t] = NoTask]
      /\ m_tasks' = Append(m_tasks, FiberTask(f, AnyThread))
      /\ UNCHANGED <<m_state, m_cb, entered, idle_fiber, waiting, posted, stopVars>>
      /\ cb_fiber' = IF tk[t].fiber # NoFiber THEN cb_fiber ELSE [cb_fiber EXCEPT ![t] = NoFiber]
  BY <1>1 DEF PostReady, LetGo, Goto, fiberVars, stopVars, clientVars
<1>3. /\ \A u \in Threads : u # t => /\ Current(u)' = Current(u) /\ pc'[u] = pc[u]
                                     /\ tk'[u] = tk[u] /\ cb_fiber'[u] = cb_fiber[u]
      /\ pc'[t] = "scan" /\ tk'[t] = NoTask
      /\ cb_fiber'[t] # NoFiber => cb_fiber'[t] = cb_fiber[t] /\ tk[t].fiber # NoFiber
  BY <1>2 DEF Current, IInv, TypeOK
<1>4. PICK k \in Task : k = FiberTask(f, AnyThread) /\ k.fiber = f /\ k.thread = AnyThread
  <2>1. /\ FiberTask(f, AnyThread) \in Task /\ FiberTask(f, AnyThread).fiber = f
        /\ FiberTask(f, AnyThread).thread = AnyThread
    BY <1>1 DEF FiberTask, Task
  <2>. QED BY <2>1
<1>5. PICK n \in Nat : n = Len(m_tasks)
  BY DEF IInv, TypeOK
<1>6. /\ Len(m_tasks)' = n + 1 /\ m_tasks'[n + 1] = k
      /\ \A i \in 1..n : m_tasks'[i] = m_tasks[i]
  BY <1>2, <1>4, <1>5, AppendFacts DEF IInv, TypeOK
<1>7. EndInv' /\ SeenInv'
  <2>1. \A i \in 1..Len(m_tasks)' :
          \/ m_tasks'[i].thread \in {AnyThread, t} \/ PinOther
          \/ \E j \in 1..Len(m_tasks) : m_tasks'[i].thread = m_tasks[j].thread
    BY <1>4, <1>5, <1>6
  <2>. QED BY <1>2, <2>1, StaysInRun
<1>8. StartsInv' /\ Quiet
  <2>1. Starts(k)' = {}
    BY <1>1, <1>2, <1>4, NullAssumption DEF Starts
  <2>2. Starts(tk[t]) = {}
    BY <1>2, AttachedStarts
  <2>3. \A u \in Threads : tk'[u] = tk[u] \/ (tk'[u] = NoTask /\ Starts(tk[u]) = {})
    BY <1>3, <2>2
  <2>4. \A g \in Fibers : Fresh(g)' = Fresh(g)
    BY <1>2 DEF Fresh
  <2>5. StartsInv' /\ Pending' = Pending \cup {}
    <3>1. {} \in SUBSET Cbs /\ {} \cap (Pending \cup entered) = {} /\ posted' = posted \cup {}
      BY <1>2
    <3>. QED BY <1>2, <1>4, <2>1, <2>3, <2>4, <3>1, StartsAppendOne
  <2>. QED BY <1>2, <2>5 DEF Quiet
<1>9. PlacesInv'
  <2>1. Somewhere(f)'
    BY <1>4, <1>6 DEF Somewhere
  <2>2. \A g \in Fibers : g # f /\ Somewhere(g) => Somewhere(g)'
    BY <1>1, <1>3, <1>5, <1>6 DEF Somewhere
  <2>3. \A g \in Fibers : (HasCode(g)' <=> HasCode(g)) /\ m_state'[g] = m_state[g]
    BY <1>2 DEF HasCode
  <2>. QED BY <1>2, <2>1, <2>2, <2>3 DEF PlacesInv
<1>10. YieldInv'
  BY <1>2, <1>3 DEF YieldInv, Attached, OnFiber
<1>. QED BY <1>7, <1>8, <1>9, <1>10 DEF Kept

(* A fiber that yielded to HOLD is let go: its waker knows of it. *)
LEMMA PostHoldKeeps ==
  ASSUME ConservationInv, NEW t \in Threads, PostHold(t)
  PROVE  Kept /\ Quiet
<1>. USE DEF ConservationInv
<1>1. PICK f \in Fibers : f = Current(t) /\ m_state[f] = "HOLD" /\ f \in waiting
  BY DEF IInv, OwnershipInv, LocalsInv, StatesInv, YieldInv, Attached, PostHold
<1>2. /\ pc[t] = "post" /\ pc' = [pc EXCEPT ![t] = "scan"]
      /\ tk' = [tk EXCEPT ![t] = NoTask]
      /\ m_state' = [m_state EXCEPT ![f] = "HOLD"]
      /\ UNCHANGED <<m_tasks, m_cb, entered, idle_fiber, waiting, posted, stopVars>>
      /\ cb_fiber' = IF tk[t].fiber # NoFiber THEN cb_fiber ELSE [cb_fiber EXCEPT ![t] = NoFiber]
  BY <1>1 DEF PostHold, setState, LetGo, Goto, queueVars, stopVars, clientVars
<1>3. /\ \A u \in Threads : u # t => /\ Current(u)' = Current(u) /\ pc'[u] = pc[u]
                                     /\ tk'[u] = tk[u] /\ cb_fiber'[u] = cb_fiber[u]
      /\ pc'[t] = "scan" /\ tk'[t] = NoTask
      /\ cb_fiber'[t] # NoFiber => cb_fiber'[t] = cb_fiber[t] /\ tk[t].fiber # NoFiber
  BY <1>2 DEF Current, IInv, TypeOK
<1>4. m_state' = m_state
  BY <1>1, <1>2 DEF IInv, TypeOK, FiberTypeOK
<1>5. EndInv' /\ SeenInv'
  BY <1>2, StaysInRun
<1>6. StartsInv' /\ Quiet
  <2>1. Starts(tk[t]) = {}
    BY <1>2, AttachedStarts
  <2>2. \A u \in Threads : tk'[u] = tk[u] \/ (tk'[u] = NoTask /\ Starts(tk[u]) = {})
    BY <1>3, <2>1
  <2>. QED BY <1>2, <1>4, <2>2, StartsSame DEF Fresh
<1>7. PlacesInv'
  <2>1. \A g \in Fibers : g # f /\ Somewhere(g) => Somewhere(g)'
    BY <1>1, <1>2, <1>3 DEF Somewhere
  <2>2. \A g \in Fibers : (HasCode(g)' <=> HasCode(g)) /\ m_state'[g] = m_state[g]
    BY <1>2, <1>4 DEF HasCode
  <2>3. ~HasCode(f)
    BY <1>1 DEF HasCode
  <2>. QED BY <1>1, <1>2, <2>1, <2>2, <2>3 DEF PlacesInv
<1>8. YieldInv'
  BY <1>2, <1>3, <1>4 DEF YieldInv, Attached, OnFiber
<1>. QED BY <1>5, <1>6, <1>7, <1>8 DEF Kept

-----------------------------------------------------------------------------
(* What clients schedule, and the owner's steps. *)

(* A client appends tasks, pinned to p or to no thread.                    *)
LEMMA ListGrows ==
  ASSUME IInv, EndInv, SeenInv, UNCHANGED <<stopVars, pc, localVars>>,
         NEW p, NEW s \in Seq(Task), m_tasks' = m_tasks \o s,
         \A i \in 1..Len(s) : s[i].thread \in {AnyThread, p},
         \E t \in Threads : LooksAgain(t), p \in Threads => PinOther \/ LooksAgain(p)
  PROVE  /\ EndInv' /\ SeenInv'
         /\ \A f \in Fibers : Somewhere(f) => Somewhere(f)'
         /\ \A i \in 1..Len(s) : \A f \in Fibers : s[i].fiber = f => Somewhere(f)'
<1>0. PICK n \in Nat : n = Len(m_tasks)
  BY DEF IInv, TypeOK
<1>1. /\ Len(s) \in Nat /\ Len(m_tasks)' = n + Len(s)
      /\ \A i \in 1..n : m_tasks'[i] = m_tasks[i]
      /\ \A i \in 1..Len(s) : m_tasks'[n + i] = s[i]
  BY <1>0 DEF IInv, TypeOK
<1>2. \A i \in 1..Len(m_tasks)' : i \in 1..n \/ \E j \in 1..Len(s) : i = n + j
  <2>1. ASSUME NEW i \in 1..Len(m_tasks)', i \notin 1..n
        PROVE  i - n \in 1..Len(s) /\ i = n + (i - n)
    BY <1>1, <2>1
  <2>. QED BY <2>1
<1>3. \A i \in 1..Len(m_tasks)' : \/ m_tasks'[i].thread \in {AnyThread, p}
                                  \/ \E j \in 1..n : m_tasks'[i].thread = m_tasks[j].thread
  BY <1>1, <1>2
<1>4. \A t : LooksAgain(t)' <=> LooksAgain(t)
  BY DEF LooksAgain, stopVars, localVars
<1>5. EndInv'
  BY DEF EndInv, stopVars, localVars
<1>6. SeenInv'
  <2>1. ASSUME NEW k \in 1..Len(m_tasks)'
        PROVE  /\ m_tasks'[k].thread = AnyThread => \E u \in Threads : LooksAgain(u)'
               /\ m_tasks'[k].thread \in Threads => PinOther \/ LooksAgain(m_tasks[k].thread)'
    <3>1. PICK q : q = m_tasks'[k].thread
      OBVIOUS
    <3>2. q \in Threads => PinOther \/ LooksAgain(q)'
      BY <3>1, <1>0, <1>3, <1>4, ThreadsAssumption DEF SeenInv
    <3>3. LooksAgain(q)' => LooksAgain(m_tasks[k].thread)'
      BY <3>1 DEF LooksAgain
    <3>. QED BY <1>4, <3>1, <3>2, <3>3
  <2>. QED BY <2>1 DEF SeenInv
<1>7. \A f \in Fibers : Somewhere(f) => Somewhere(f)'
  <2>1. \A t : Current(t)' = Current(t) /\ pc' = pc
    BY DEF Current, localVars
  <2>2. \A i \in 1..n : i \in 1..Len(m_tasks)'
    BY <1>1
  <2>. QED BY <1>0, <1>1, <2>1, <2>2 DEF Somewhere
<1>8. \A i \in 1..Len(s) : \A f \in Fibers : s[i].fiber = f => Somewhere(f)'
  <2>1. \A i \in 1..Len(s) : n + i \in 1..Len(m_tasks)'
    BY <1>1
  <2>. QED BY <1>1, <2>1 DEF Somewhere
<1>. QED BY <1>5, <1>6, <1>7, <1>8

(* The same of one task. *)
LEMMA ListGrowsByOne ==
  ASSUME IInv, EndInv, SeenInv, UNCHANGED <<stopVars, pc, localVars>>,
         NEW p, NEW k \in Task, m_tasks' = Append(m_tasks, k), k.thread = p,
         \E t \in Threads : LooksAgain(t), p \in Threads => PinOther \/ LooksAgain(p)
  PROVE  /\ EndInv' /\ SeenInv'
         /\ \A f \in Fibers : Somewhere(f) => Somewhere(f)'
         /\ \A f \in Fibers : k.fiber = f => Somewhere(f)'
<1>0. <<k>> \in Seq(Task)
  OBVIOUS
<1>1. PICK s \in Seq(Task) : s = <<k>>
  BY <1>0
<1>2. m_tasks' = m_tasks \o s /\ Len(s) = 1 /\ s[1] = k
  BY <1>1 DEF IInv, TypeOK
<1>3. \A i \in 1..Len(s) : i = 1
  BY <1>2
<1>4. \A i \in 1..Len(s) : s[i].thread \in {AnyThread, p}
  BY <1>2, <1>3
<1>5. /\ EndInv' /\ SeenInv'
      /\ \A f \in Fibers : Somewhere(f) => Somewhere(f)'
      /\ \A i \in 1..Len(s) : \A f \in Fibers : s[i].fiber = f => Somewhere(f)'
  BY <1>1, <1>2, <1>4, ListGrows
<1>. QED BY <1>2, <1>5

(* Executor accepts the callbacks of C. *)
LEMMA AcceptsThese ==
  ASSUME NEW C \in SUBSET Cbs, C # {}, C \cap (Pending \cup entered) = {},
         Pending' = Pending \cup C, entered' = entered
  PROVE  Accepts
<1>1. C \in (SUBSET Cbs) \ {{}}
  OBVIOUS
<1>. QED BY <1>1 DEF Accepts

(* Whatever a client schedules is new, and will be seen. *)
LEMMA SchedulesKeeps ==
  ASSUME ConservationInv, ~WakeRunning, NEW p \in Threads \cup {AnyThread}, Schedules(p),
         UNCHANGED <<m_activeThreadCount, m_idleThreadCount, stopVars, pc, localVars>>,
         \E t \in Threads : LooksAgain(t), p \in Threads => PinOther \/ LooksAgain(p)
  PROVE  Kept /\ (Quiet \/ Accepts)
<1>. USE DEF ConservationInv
<1>1. UNCHANGED <<tk, cb_fiber, idle_fiber>> /\ \A t : Current(t)' = Current(t)
  BY DEF localVars, Current
<1>2. \A t \in Threads : tk'[t] = tk[t] \/ (tk'[t] = NoTask /\ Starts(tk[t]) = {})
  BY <1>1
<1>3. posted = entered \cup Pending
  BY DEF StartsInv, NoCallbackLost
<1>4. ASSUME NEW c \in Cbs, ScheduleCb(c, p) PROVE Kept /\ Accepts
  <2>1. PICK k \in Task : k = CbTask(c, p) /\ k.fiber = NoFiber /\ k.cb = c /\ k.thread = p
    <3>1. /\ CbTask(c, p) \in Task /\ CbTask(c, p).fiber = NoFiber /\ CbTask(c, p).cb = c
          /\ CbTask(c, p).thread = p
      BY DEF CbTask, Task
    <3>. QED BY <3>1
  <2>2. /\ m_tasks' = Append(m_tasks, k) /\ posted' = posted \cup {c} /\ c \notin posted
        /\ UNCHANGED <<m_state, m_cb, entered, waiting>>
    BY <1>4, <2>1 DEF ScheduleCb, fiberVars
  <2>3. Starts(k)' = {c}
    BY <2>1, NullAssumption DEF Starts
  <2>4. \A f \in Fibers : Fresh(f)' = Fresh(f)
    BY <2>2 DEF Fresh
  <2>5. {c} \in SUBSET Cbs /\ {c} \cap (Pending \cup entered) = {}
    BY <1>3, <2>2
  <2>6. StartsInv' /\ Pending' = Pending \cup {c}
    BY <1>2, <2>1, <2>2, <2>3, <2>4, <2>5, StartsAppendOne
  <2>7. EndInv' /\ SeenInv' /\ \A f \in Fibers : Somewhere(f) => Somewhere(f)'
    BY <2>1, <2>2, ListGrowsByOne
  <2>8. PlacesInv'
    <3>1. \A f \in Fibers : (HasCode(f)' <=> HasCode(f)) /\ m_state'[f] = m_state[f]
      BY <2>2 DEF HasCode
    <3>. QED BY <2>2, <2>7, <3>1 DEF PlacesInv
  <2>9. YieldInv'
    BY <1>1, <2>2 DEF YieldInv
  <2>10. Accepts
    BY <2>2, <2>5, <2>6, AcceptsThese
  <2>. QED BY <2>6, <2>7, <2>8, <2>9, <2>10 DEF Kept
<1>5. ASSUME NEW c \in Cbs, NEW d \in Cbs, ScheduleRange(c, d) PROVE Kept /\ Accepts
  <2>0. PICK C \in SUBSET Cbs : C = {c, d}
    OBVIOUS
  <2>1. PICK s \in Seq(Task) : s = <<CbTask(c, AnyThread), CbTask(d, AnyThread)>>
    <3>1. CbTask(c, AnyThread) \in Task /\ CbTask(d, AnyThread) \in Task
      BY DEF CbTask, Task
    <3>2. <<CbTask(c, AnyThread), CbTask(d, AnyThread)>> \in Seq(Task)
      BY <3>1
    <3>. QED BY <3>2
  <2>2. /\ m_tasks' = m_tasks \o s /\ posted' = posted \cup C /\ C \cap posted = {}
        /\ c # d /\ UNCHANGED <<m_state, m_cb, entered, waiting>>
    BY <1>5, <2>0, <2>1 DEF ScheduleRange, fiberVars
  <2>3. /\ Len(s) = 2 /\ s[1] = CbTask(c, AnyThread) /\ s[2] = CbTask(d, AnyThread)
        /\ \A i \in 1..Len(s) : i = 1 \/ i = 2
    BY <2>1
  <2>4. Starts(s[1])' = {c} /\ Starts(s[2])' = {d}
    BY <2>3, NullAssumption DEF Starts, CbTask
  <2>5. \A f \in Fibers : Fresh(f)' = Fresh(f)
    BY <2>2 DEF Fresh
  <2>6. C # {} /\ C \cap (Pending \cup entered) = {}
    BY <1>3, <2>0, <2>2
  <2>7. /\ \A i \in 1..Len(s) : Starts(s[i])' \subseteq C
        /\ \A e \in C : \E i \in 1..Len(s) : e \in Starts(s[i])'
        /\ \A i, j \in 1..Len(s) : i # j => Starts(s[i])' \cap Starts(s[j])' = {}
    BY <2>0, <2>2, <2>3, <2>4
  <2>8. StartsInv' /\ Pending' = Pending \cup C
    <3>1. /\ s \in Seq(Task) /\ C \in SUBSET Cbs /\ m_tasks' = m_tasks \o s
          /\ posted' = posted \cup C /\ entered' = entered
      BY <2>0, <2>1, <2>2
    <3>2. \A f \in Fibers : Listed(f) => Fresh(f)' = Fresh(f)
      BY <2>5
    <3>3. IInv /\ StartsInv
      OBVIOUS
    <3>. QED BY <1>2, <2>6, <2>7, <3>1, <3>2, <3>3, StartsAppend
  <2>9. EndInv' /\ SeenInv' /\ \A f \in Fibers : Somewhere(f) => Somewhere(f)'
    <3>1. \A i \in 1..Len(s) : s[i].thread \in {AnyThread, p}
      BY <2>3 DEF CbTask
    <3>. QED BY <2>1, <2>2, <3>1, ListGrows
  <2>10. PlacesInv'
    <3>1. \A f \in Fibers : (HasCode(f)' <=> HasCode(f)) /\ m_state'[f] = m_state[f]
      BY <2>2 DEF HasCode
    <3>. QED BY <2>2, <2>9, <3>1 DEF PlacesInv
  <2>11. YieldInv'
    BY <1>1, <2>2 DEF YieldInv
  <2>12. Accepts
    BY <2>0, <2>2, <2>6, <2>8, AcceptsThese
  <2>. QED BY <2>8, <2>9, <2>10, <2>11, <2>12 DEF Kept
<1>6. ASSUME NEW f \in Fibers, NEW c \in Cbs, ScheduleFiber(f, c, p) PROVE Kept /\ Accepts
  <2>1. PICK k \in Task : k = FiberTask(f, p) /\ k.fiber = f /\ k.thread = p
    <3>1. FiberTask(f, p) \in Task /\ FiberTask(f, p).fiber = f /\ FiberTask(f, p).thread = p
      BY DEF FiberTask, Task
    <3>. QED BY <3>1
  <2>2. /\ m_state[f] = "none"
        /\ m_tasks' = Append(m_tasks, k) /\ posted' = posted \cup {c} /\ c \notin posted
        /\ UNCHANGED <<entered, waiting>>
        /\ m_state'[f] = "INIT" /\ m_cb'[f] = c
        /\ \A g \in Fibers : g # f => m_state'[g] = m_state[g] /\ m_cb'[g] = m_cb[g]
    BY <1>6, <2>1 DEF ScheduleFiber, NewFiber, IInv, TypeOK, FiberTypeOK
  <2>3. \A t \in Threads : f # tk[t].fiber /\ f # cb_fiber[t]
    <3>. SUFFICES ASSUME NEW t \in Threads PROVE f # tk[t].fiber /\ f # cb_fiber[t]
      OBVIOUS
    <3>1. CASE pc[t] \in Attached
      BY <2>2, <3>1, NullAssumption DEF IInv, OwnershipInv, StatesInv, Current, Attached, OnFiber
    <3>2. CASE pc[t] \in {"took", "dispatch"}
      BY <2>2, <3>2, NullAssumption DEF IInv, OwnershipInv, StatesInv, Resumable, Attached, OnFiber
    <3>3. CASE pc[t] \notin Attached \cup {"took", "dispatch"}
      BY <2>2, <3>3, NullAssumption DEF IInv, OwnershipInv, StatesInv, LocalsInv, NoTask
    <3>. QED BY <3>1, <3>2, <3>3
  <2>4. \A i \in 1..Len(m_tasks) : m_tasks[i].fiber # f
    BY <2>2, NullAssumption DEF IInv, OwnershipInv, QueueInv, Resumable
  <2>5. Starts(k)' = {c}
    BY <2>1, <2>2, NullAssumption DEF Starts
  <2>6. \A g \in Fibers : Listed(g) => Fresh(g)' = Fresh(g)
    BY <2>2, <2>3, <2>4 DEF Fresh, Listed
  <2>7. {c} \in SUBSET Cbs /\ {c} \cap (Pending \cup entered) = {}
    BY <1>3, <2>2
  <2>8. StartsInv' /\ Pending' = Pending \cup {c}
    BY <1>2, <2>1, <2>2, <2>5, <2>6, <2>7, StartsAppendOne
  <2>9. EndInv' /\ SeenInv' /\ Somewhere(f)' /\ \A g \in Fibers : Somewhere(g) => Somewhere(g)'
    BY <2>1, <2>2, ListGrowsByOne
  <2>10. PlacesInv'
    <3>1. \A g \in Fibers : g # f => (HasCode(g)' <=> HasCode(g)) /\ m_state'[g] = m_state[g]
      BY <2>2 DEF HasCode
    <3>. QED BY <2>2, <2>9, <3>1 DEF PlacesInv
  <2>11. YieldInv'
    <3>1. ASSUME NEW t \in Threads
          PROVE  /\ pc[t] \in Attached => m_state'[Current(t)] = m_state[Current(t)]
                 /\ cb_fiber[t] # NoFiber => m_cb'[cb_fiber[t]] = m_cb[cb_fiber[t]]
      <4>1. /\ pc[t] \in Attached => Current(t) \in Fibers /\ Current(t) # f
            /\ cb_fiber[t] \in Fibers \cup {NoFiber}
        BY <2>3 DEF Current, IInv, TypeOK, OwnershipInv, LocalsInv
      <4>. QED BY <2>2, <2>3, <4>1
    <3>. QED BY <1>1, <2>2, <3>1 DEF YieldInv, Attached, OnFiber
  <2>12. Accepts
    BY <2>2, <2>7, <2>8, AcceptsThese
  <2>. QED BY <2>8, <2>9, <2>10, <2>11, <2>12 DEF Kept
<1>7. ASSUME NEW f \in Fibers, Wake(f, p) PROVE Kept /\ Quiet
  <2>1. PICK k \in Task : k = FiberTask(f, p) /\ k.fiber = f /\ k.thread = p
    <3>1. FiberTask(f, p) \in Task /\ FiberTask(f, p).fiber = f /\ FiberTask(f, p).thread = p
      BY DEF FiberTask, Task
    <3>. QED BY <3>1
  <2>2. /\ f \in waiting /\ m_state[f] = "HOLD" /\ \A t \in Threads : Current(t) # f
        /\ m_tasks' = Append(m_tasks, k) /\ waiting' = waiting \ {f}
        /\ UNCHANGED <<m_state, m_cb, entered, posted>>
    BY <1>7, <2>1 DEF Wake, Parked, fiberVars
  <2>3. Starts(k)' = {}
    BY <2>1, <2>2, NullAssumption DEF Starts
  <2>4. \A g \in Fibers : Fresh(g)' = Fresh(g)
    BY <2>2 DEF Fresh
  <2>5. {} \in SUBSET Cbs /\ {} \cap (Pending \cup entered) = {} /\ posted' = posted \cup {}
    BY <2>2
  <2>6. StartsInv' /\ Pending' = Pending \cup {}
    BY <1>2, <2>1, <2>2, <2>3, <2>4, <2>5, StartsAppendOne
  <2>7. EndInv' /\ SeenInv' /\ Somewhere(f)' /\ \A g \in Fibers : Somewhere(g) => Somewhere(g)'
    BY <2>1, <2>2, ListGrowsByOne
  <2>8. PlacesInv'
    <3>1. \A g \in Fibers : (HasCode(g)' <=> HasCode(g)) /\ m_state'[g] = m_state[g]
      BY <2>2 DEF HasCode
    <3>. QED BY <2>2, <2>7, <3>1 DEF PlacesInv
  <2>9. YieldInv'
    BY <1>1, <2>2 DEF YieldInv
  <2>. QED BY <2>2, <2>6, <2>7, <2>8, <2>9 DEF Kept, Quiet
<1>8. ASSUME NEW f \in Fibers, ScheduleFinished(f, p) PROVE Kept /\ Quiet
  <2>1. PICK k \in Task : k = FiberTask(f, p) /\ k.fiber = f /\ k.thread = p
    <3>1. FiberTask(f, p) \in Task /\ FiberTask(f, p).fiber = f /\ FiberTask(f, p).thread = p
      BY DEF FiberTask, Task
    <3>. QED BY <3>1
  <2>2. /\ m_state[f] \in {"TERM", "EXCEPT"} /\ m_tasks' = Append(m_tasks, k)
        /\ UNCHANGED <<m_state, m_cb, entered, posted, waiting>>
    BY <1>8, <2>1 DEF ScheduleFinished, stateTermOrExcept, fiberVars
  <2>3. Starts(k)' = {}
    BY <2>1, <2>2, NullAssumption DEF Starts
  <2>4. \A g \in Fibers : Fresh(g)' = Fresh(g)
    BY <2>2 DEF Fresh
  <2>5. {} \in SUBSET Cbs /\ {} \cap (Pending \cup entered) = {} /\ posted' = posted \cup {}
    BY <2>2
  <2>6. StartsInv' /\ Pending' = Pending \cup {}
    BY <1>2, <2>1, <2>2, <2>3, <2>4, <2>5, StartsAppendOne
  <2>7. EndInv' /\ SeenInv' /\ \A g \in Fibers : Somewhere(g) => Somewhere(g)'
    BY <2>1, <2>2, ListGrowsByOne
  <2>8. PlacesInv'
    <3>1. \A g \in Fibers : (HasCode(g)' <=> HasCode(g)) /\ m_state'[g] = m_state[g]
      BY <2>2 DEF HasCode
    <3>. QED BY <2>2, <2>7, <3>1 DEF PlacesInv
  <2>9. YieldInv'
    BY <1>1, <2>2 DEF YieldInv
  <2>. QED BY <2>2, <2>6, <2>7, <2>8, <2>9 DEF Kept, Quiet
<1>. QED BY <1>4, <1>5, <1>6, <1>7, <1>8 DEF Schedules

(* A callback schedules: its own thread will look again. *)
LEMMA UserSchedulesKeeps ==
  ASSUME ConservationInv, ~WakeRunning, NEW t \in Threads, UserSchedules(t)
  PROVE  Kept /\ (Quiet \/ Accepts)
<1>1. PICK p \in {AnyThread} \cup (Pins \cap (IF PinOther THEN Threads ELSE {t})) : Schedules(p)
  BY DEF UserSchedules
<1>2. LooksAgain(t)
  BY DEF UserSchedules, LooksAgain
<1>3. p \in Threads \cup {AnyThread} /\ (p \in Threads => PinOther \/ LooksAgain(p))
  BY <1>1, <1>2, ThreadsAssumption
<1>. QED BY <1>1, <1>2, <1>3, SchedulesKeeps DEF UserSchedules

(* The owner schedules, before stop(): all threads that are to run look    *)
(* again.                                                                  *)
LEMMA CallerSchedulesKeeps ==
  ASSUME ConservationInv, ~WakeRunning, CallerSchedules
  PROVE  Kept /\ (Quiet \/ Accepts)
<1>1. PICK p \in {AnyThread} \cup (Pins \cap (IF caller = "run" THEN Threads ELSE {Root})) : Schedules(p)
  BY DEF CallerSchedules
<1>2. \A t \in Threads : LooksAgain(t)
  BY DEF CallerSchedules, LooksAgain, ConservationInv, EndInv
<1>3. /\ p \in Threads \cup {AnyThread} /\ (p \in Threads => PinOther \/ LooksAgain(p))
      /\ \E t \in Threads : LooksAgain(t)
  BY <1>1, <1>2, ThreadsAssumption
<1>. QED BY <1>1, <1>3, SchedulesKeeps DEF CallerSchedules

(* A step of the owner changes the list, the tasks and the fibers in       *)
(* nothing.                                                                *)
LEMMA OwnerFrame ==
  ASSUME ConservationInv,
         UNCHANGED <<m_tasks, m_state, m_cb, entered, posted, waiting, tk, cb_fiber>>,
         \A t \in Threads : \/ pc'[t] = pc[t]
                            \/ pc[t] \in {"none", "exit"} /\ pc'[t] = "scan"
  PROVE  StartsInv' /\ Quiet /\ PlacesInv' /\ YieldInv'
<1>. USE DEF ConservationInv
<1>1. StartsInv' /\ Quiet
  BY StartsSame DEF Fresh
<1>2. \A t : Current(t)' = Current(t)
  BY DEF Current
<1>3. PlacesInv'
  <2>1. \A f \in Fibers : Somewhere(f) => Somewhere(f)'
    BY <1>2 DEF Somewhere
  <2>2. \A f \in Fibers : (HasCode(f)' <=> HasCode(f)) /\ m_state'[f] = m_state[f]
    BY DEF HasCode
  <2>. QED BY <2>1, <2>2 DEF PlacesInv
<1>4. YieldInv'
  BY <1>2 DEF YieldInv, Attached, OnFiber
<1>. QED BY <1>1, <1>3, <1>4

(* start() and stop(). *)
LEMMA CallerKeeps ==
  ASSUME ConservationInv, Start \/ Stop \/ StopProceeds
  PROVE  Kept /\ Quiet
<1>. USE DEF ConservationInv
<1>1. /\ UNCHANGED <<m_tasks, m_state, m_cb, entered, posted, waiting, tk, cb_fiber>>
      /\ \A t \in Threads : \/ pc'[t] = pc[t]
                            \/ pc[t] \in {"none", "exit"} /\ pc'[t] = "scan"
  <2>. USE DEF fiberVars, queueVars, localVars, clientVars
  <2>1. CASE Start
    BY <2>1 DEF Start, IInv, CallerInv
  <2>2. CASE EnterRoot
    BY <2>2 DEF EnterRoot, IInv, TypeOK, CallerInv
  <2>3. CASE Stop \/ StopAtOnce \/ SignalStop \/ SkipRoot \/ LeaveRoot \/ Join
    BY <2>3 DEF Stop, StopAtOnce, SignalStop, SkipRoot, LeaveRoot, Join
  <2>. QED BY <2>1, <2>2, <2>3 DEF StopProceeds
<1>2. StartsInv' /\ Quiet /\ PlacesInv' /\ YieldInv'
  BY <1>1, OwnerFrame
<1>3. CASE Start
  <2>1. /\ \A t \in Threads : idle_fiber'[t] = "INIT" /\ pc'[t] # "exit"
        /\ \A t \in Workers : pc'[t] = "scan"
        /\ caller' = "run" /\ ~m_stopping'
    BY <1>3 DEF Start, EndInv, Workers
  <2>2. \A t \in Threads : LooksAgain(t)'
    BY <2>1 DEF LooksAgain
  <2>3. EndInv'
    BY <2>1 DEF EndInv
  <2>4. SeenInv'
    <3>1. ASSUME NEW k \in 1..Len(m_tasks)', m_tasks'[k].thread \in Threads
          PROVE  LooksAgain(m_tasks[k].thread)'
      <4>1. PICK q \in Threads : q = m_tasks'[k].thread
        BY <3>1
      <4>2. LooksAgain(q)'
        BY <2>2
      <4>. QED BY <4>1, <4>2 DEF LooksAgain
    <3>. QED BY <2>2, <3>1, ThreadsAssumption DEF SeenInv
  <2>. QED BY <1>2, <2>3, <2>4 DEF Kept
<1>4. CASE Stop \/ SignalStop
  <2>1. /\ UNCHANGED <<m_tasks, pc, idle_fiber>> /\ caller' \in {"stop", "signalled"}
        /\ caller \in {"run", "stop"} /\ (caller' = "stop" => UNCHANGED m_stopping)
    BY <1>4 DEF Stop, SignalStop, queueVars, localVars
  <2>2. \A t : LooksAgain(t)' <=> LooksAgain(t)
    BY <2>1 DEF LooksAgain
  <2>3. EndInv'
    BY <1>4, <2>1 DEF EndInv, Stop, SignalStop
  <2>4. SeenInv'
    BY <2>1, <2>2 DEF SeenInv
  <2>. QED BY <1>2, <2>3, <2>4 DEF Kept
<1>5. CASE EnterRoot
  <2>1. /\ UNCHANGED <<m_tasks, idle_fiber, m_stopping>> /\ caller' = "root" /\ caller = "signalled"
        /\ Root \in Threads /\ pc[Root] = "none" /\ pc' = [pc EXCEPT ![Root] = "scan"]
    BY <1>5 DEF EnterRoot, queueVars, localVars, IInv, CallerInv
  <2>2. /\ pc'[Root] = "scan" /\ \A t \in Threads : t # Root => pc'[t] = pc[t] /\ t \in Workers
    BY <2>1 DEF IInv, TypeOK, Workers
  <2>3. \A t \in Threads : LooksAgain(t) => LooksAgain(t)'
    BY <2>1, <2>2 DEF LooksAgain, EndInv
  <2>4. EndInv'
    BY <2>1, <2>2 DEF EndInv, Workers
  <2>5. SeenInv'
    BY <2>1, <2>3 DEF SeenInv
  <2>. QED BY <1>2, <2>4, <2>5 DEF Kept
<1>6. CASE SkipRoot
  <2>1. /\ UNCHANGED <<m_tasks, idle_fiber, m_stopping, pc>> /\ caller' = "join" /\ caller = "signalled"
        /\ Root \notin Threads \/ m_tasks = <<>>
    BY <1>6 DEF SkipRoot, queueVars, localVars, stopping, NoWork
  <2>2. EndInv'
    BY <2>1 DEF EndInv
  <2>3. SeenInv'
    <3>1. CASE m_tasks = <<>>
      BY <2>1, <3>1 DEF SeenInv
    <3>2. CASE Root \notin Threads
      <4>1. \A t \in Threads : LooksAgain(t) => LooksAgain(t)'
        BY <2>1, <3>2 DEF LooksAgain, EndInv, Workers
      <4>. QED BY <2>1, <4>1 DEF SeenInv
    <3>. QED BY <2>1, <3>1, <3>2
  <2>. QED BY <1>2, <2>2, <2>3 DEF Kept
<1>7. CASE LeaveRoot \/ Join
  <2>1. /\ UNCHANGED <<m_tasks, idle_fiber, m_stopping, pc>> /\ caller' \in {"join", "done"}
        /\ caller \in {"root", "join"}
    BY <1>7 DEF LeaveRoot, Join, queueVars, localVars
  <2>2. EndInv'
    BY <2>1 DEF EndInv
  <2>3. \A t \in Threads : LooksAgain(t) => LooksAgain(t)'
    BY <2>1 DEF LooksAgain
  <2>4. SeenInv'
    BY <2>1, <2>3 DEF SeenInv
  <2>. QED BY <1>2, <2>2, <2>4 DEF Kept
<1>8. CASE StopAtOnce
  <2>1. /\ UNCHANGED <<idle_fiber, pc>> /\ caller' = "done" /\ caller = "stop" /\ m_stopping'
        /\ m_tasks' = <<>>
    BY <1>8 DEF StopAtOnce, NoWork, queueVars, localVars
  <2>2. EndInv'
    BY <2>1 DEF EndInv
  <2>3. SeenInv'
    BY <2>1 DEF SeenInv
  <2>. QED BY <1>2, <2>2, <2>3 DEF Kept
<1>. QED BY <1>3, <1>4, <1>5, <1>6, <1>7, <1>8 DEF StopProceeds

-----------------------------------------------------------------------------
(* The theorems. *)

(* Nothing has been handed to the constructed scheduler.                   *)
LEMMA InitConserves == Init => ConservationInv
<1>. SUFFICES ASSUME Init PROVE ConservationInv
  OBVIOUS
<1>1. IInv
  BY InitIInv
<1>2. /\ m_tasks = <<>> /\ Len(m_tasks) = 0 /\ posted = {} /\ entered = {} /\ caller = "new" /\ m_stopping
      /\ \A t \in Threads : tk[t] = NoTask /\ pc[t] = "none" /\ cb_fiber[t] = NoFiber
      /\ \A f \in Fibers : m_state[f] = "none"
      /\ \A i \in 1..Len(m_tasks) : FALSE
  BY DEF Init, FiberInit
<1>3. Pending = {}
  BY <1>2, PendingIs, NoTaskStarts
<1>4. StartsInv
  BY <1>2, <1>3, NoTaskStarts DEF StartsInv, NoCallbackLost
<1>5. PlacesInv /\ YieldInv
  BY <1>2 DEF PlacesInv, HasCode, YieldInv
<1>6. EndInv /\ SeenInv
  BY <1>2 DEF EndInv, SeenInv
<1>. QED BY <1>1, <1>4, <1>5, <1>6 DEF ConservationInv

(* Every step keeps the invariant, and does to the callbacks what Executor *)
(* allows; it starts one only while the scheduler is up.                   *)
LEMMA NextConserves ==
  ASSUME ConservationInv, ~WakeRunning, [Next]_vars
  PROVE  /\ ConservationInv'
         /\ Quiet \/ (UNCHANGED caller /\ (Accepts \/ (Enters /\ caller \notin {"new", "done"})))
<1>1. IInv'
  BY NextIInv DEF ConservationInv
<1>2. ASSUME NEW t \in Threads, User(t) \/ run(t)
      PROVE  Kept /\ (Quiet \/ (UNCHANGED caller /\ (Accepts \/ (Enters /\ caller \notin {"new", "done"}))))
  <2>1. CASE UserSchedules(t)
    BY <2>1, UserSchedulesKeeps DEF UserSchedules, stopVars
  <2>2. CASE DispatchFiber(t) \/ DispatchCb(t)
    <3>1. pc[t] = "dispatch" /\ UNCHANGED caller
      BY <2>2 DEF DispatchFiber, DispatchCb, stopVars
    <3>2. caller \notin {"new", "done"}
      BY <3>1 DEF ConservationInv, IInv, CallerInv
    <3>. QED BY <2>2, <3>1, <3>2, DispatchFiberKeeps, DispatchCbKeeps
  <2>3. CASE UserArms(t) \/ YieldToHold(t) \/ YieldToReady(t) \/ UserReturns(t) \/ UserThrows(t)
    BY <2>3, UserArmsKeeps, PublishKeeps
  <2>4. CASE \/ TakeTask(t) \/ FindNoTask(t) \/ CountActive(t) \/ DropTask(t) \/ SwapOut(t)
             \/ UncountActive(t) \/ PostReady(t) \/ PostFinished(t) \/ PostHold(t)
             \/ EnterIdle(t) \/ Idle(t) \/ LeaveIdle(t) \/ ExitRun(t)
    BY <2>4, TakeTaskKeeps, FindNoTaskKeeps, ControlKeeps, DropTaskKeeps, PostReadyKeeps,
       PostFinishedKeeps, PostHoldKeeps, ExitRunKeeps
  <2>. QED BY <1>2, <2>1, <2>2, <2>3, <2>4 DEF User, run
<1>3. CASE CallerSchedules
  <2>1. Kept /\ (Quiet \/ Accepts) /\ UNCHANGED caller
    BY <1>3, CallerSchedulesKeeps DEF CallerSchedules, stopVars
  <2>. QED BY <1>1, <2>1 DEF Kept, ConservationInv
<1>4. CASE Start \/ Stop \/ StopProceeds
  BY <1>1, <1>4, CallerKeeps DEF Kept, ConservationInv
<1>5. CASE UNCHANGED vars
  <2>1. /\ UNCHANGED <<m_tasks, m_state, m_cb, entered, posted, waiting, tk, cb_fiber, pc>>
        /\ UNCHANGED <<idle_fiber, m_stopping, caller>>
    BY <1>5 DEF vars, fiberVars, queueVars, stopVars, localVars, clientVars
  <2>2. StartsInv' /\ Quiet /\ PlacesInv' /\ YieldInv'
    BY <2>1, OwnerFrame
  <2>3. EndInv' /\ SeenInv'
    BY <2>1 DEF ConservationInv, EndInv, SeenInv, LooksAgain
  <2>. QED BY <1>1, <2>2, <2>3 DEF ConservationInv
<1>6. ASSUME NEW t \in Threads, User(t) \/ run(t)
      PROVE  /\ ConservationInv'
             /\ Quiet \/ (UNCHANGED caller /\ (Accepts \/ (Enters /\ caller \notin {"new", "done"})))
  BY <1>1, <1>2, <1>6 DEF Kept, ConservationInv
<1>. QED BY <1>3, <1>4, <1>5, <1>6 DEF Next, Finished

(* The inductive invariant behind the theorems of this module.             *)
THEOREM Conservation ==
  ASSUME ~WakeRunning
  PROVE  Spec => []ConservationInv
<1>1. ConservationInv /\ [Next]_vars => ConservationInv'
  BY NextConserves
<1>. QED BY <1>1, InitConserves, PTL DEF Spec

(* A callback handed to schedule() is still to be started or was started,  *)
(* and never both: none is lost between m_tasks, tk and MainFunc, and none *)
(* runs twice.                                                             *)
THEOREM CallbacksConserved ==
  ASSUME ~WakeRunning
  PROVE  Spec => []NoCallbackLost
<1>1. ConservationInv => NoCallbackLost
  BY DEF ConservationInv, StartsInv
<1>. QED BY <1>1, Conservation, PTL

(* A list entry or a thread that a fiber with code to run is at, is the    *)
(* only one.                                                               *)
LEMMA OneOwner ==
  ASSUME IInv, NEW f \in Fibers, m_state[f] \in {"INIT", "READY", "EXEC", "HOLD"}
  PROVE  LET places == Cardinality(Queued(f)) + Cardinality(Holders(f))
         IN  places <= 1 /\ (places = 1 <=> Somewhere(f)) /\ places \in Nat
<1>1. \A i, j \in Queued(f) : i = j
  BY NullAssumption DEF Queued, IInv, OwnershipInv, QueueOwns, stateTermOrExcept
<1>2. \A t, u \in Holders(f) : t = u
  BY NullAssumption DEF Holders, Current, IInv, OwnershipInv, ThreadsOwn, stateTermOrExcept
<1>3. \A i \in Queued(f), t \in Holders(f) : FALSE
  BY NullAssumption DEF Queued, Holders, Current, IInv, OwnershipInv, QueueOwns, stateTermOrExcept
<1>4. Somewhere(f) <=> Queued(f) # {} \/ Holders(f) # {}
  BY DEF Somewhere, Queued, Holders
<1>5. ASSUME NEW S, \A x, y \in S : x = y
      PROVE  Cardinality(S) = IF S = {} THEN 0 ELSE 1
  <2>1. CASE S = {}
    BY <2>1, FS_EmptySet
  <2>2. CASE S # {}
    <3>0. PICK x \in S : TRUE
      BY <2>2
    <3>1. S = {x}
      BY <1>5, <3>0
    <3>. QED BY <2>2, <3>1, FS_Singleton
  <2>. QED BY <2>1, <2>2
<1>6. Cardinality(Queued(f)) = IF Queued(f) = {} THEN 0 ELSE 1
  BY <1>1, <1>5
<1>7. Cardinality(Holders(f)) = IF Holders(f) = {} THEN 0 ELSE 1
  BY <1>2, <1>5
<1>. QED BY <1>3, <1>4, <1>6, <1>7

(* A fiber that still has code to run is in exactly one place: an entry of *)
(* m_tasks, a thread, or with the client that will wake it.                *)
THEOREM FibersOwnedOnce ==
  ASSUME ~WakeRunning
  PROVE  Spec => []FiberOwnedOnce
<1>1. ConservationInv => FiberOwnedOnce
  <2>. SUFFICES ASSUME ConservationInv, NEW f \in Fibers
                PROVE  LET places == Cardinality(Queued(f)) + Cardinality(Holders(f))
                       IN  CASE m_state[f] \in {"READY", "EXEC"} -> places = 1
                             [] m_state[f] = "INIT" /\ m_cb[f] # NoCb -> places = 1
                             [] m_state[f] = "HOLD" -> places <= 1 /\ (places = 0 => f \in waiting)
                             [] OTHER -> TRUE
    BY DEF FiberOwnedOnce
  <2>. DEFINE places == Cardinality(Queued(f)) + Cardinality(Holders(f))
  <2>1. HasCode(f) => Somewhere(f)
    BY DEF ConservationInv, PlacesInv
  <2>2. m_state[f] = "HOLD" /\ f \notin waiting => Somewhere(f)
    BY DEF ConservationInv, PlacesInv
  <2>3. m_state[f] \in {"INIT", "READY", "EXEC", "HOLD"} =>
          places <= 1 /\ (places = 1 <=> Somewhere(f)) /\ places \in Nat
    BY OneOwner DEF ConservationInv
  <2>. HIDE DEF places
  <2>4. CASE m_state[f] \in {"READY", "EXEC"}
    BY <2>1, <2>3, <2>4 DEF HasCode, places
  <2>5. CASE m_state[f] = "INIT" /\ m_cb[f] # NoCb
    BY <2>1, <2>3, <2>5 DEF HasCode, places
  <2>6. CASE m_state[f] = "HOLD"
    BY <2>2, <2>3, <2>6 DEF places
  <2>7. CASE /\ m_state[f] \notin {"READY", "EXEC", "HOLD"}
             /\ ~(m_state[f] = "INIT" /\ m_cb[f] # NoCb)
    BY <2>7
  <2>. QED BY <2>4, <2>5, <2>6, <2>7
<1>. QED BY <1>1, Conservation, PTL

(* When stop() has returned, nothing is left, unless a task is stranded.   *)
LEMMA Drained == ConservationInv => StopDrains
<1>. SUFFICES ASSUME ConservationInv, caller = "done"
              PROVE  /\ Stranded \/ (m_tasks = <<>> /\ posted = entered)
                     /\ \A t \in Threads : pc[t] \in {"none", "exit"} /\ t_fiber[t] = NoFiber
                     /\ m_activeThreadCount = 0 /\ m_idleThreadCount = 0
  BY DEF StopDrains
<1>. USE DEF ConservationInv
<1>1. \A t \in Threads : pc[t] \in {"none", "exit"} /\ t_fiber[t] = NoFiber /\ tk[t] = NoTask
  BY DEF IInv, CallerInv, OwnershipInv, LocalsInv, Attached, OnFiber
<1>2. m_activeThreadCount = 0 /\ m_idleThreadCount = 0
  <2>1. /\ {t \in Threads : pc[t] \in ActivePcs} = {}
        /\ {t \in Threads : pc[t] \in IdlePcs} = {}
    BY <1>1 DEF ActivePcs, IdlePcs, OnFiber
  <2>. QED BY <2>1, FS_EmptySet DEF IInv, CountersExact, NumberAt
<1>3. \A t \in Threads : ~LooksAgain(t)
  BY <1>1 DEF LooksAgain
<1>4. CASE m_tasks = <<>>
  <2>1. Len(m_tasks) = 0 /\ \A i \in 1..Len(m_tasks) : FALSE
    BY <1>4
  <2>2. Pending = {}
    BY <1>1, <2>1, PendingIs, NoTaskStarts
  <2>3. posted = entered
    BY <2>2 DEF StartsInv, NoCallbackLost
  <2>. QED BY <1>1, <1>2, <1>4, <2>3
<1>5. CASE m_tasks # <<>>
  <2>1. 1 \in 1..Len(m_tasks) /\ m_tasks[1] \in Task
    <3>1. m_tasks \in Seq(Task) /\ Len(m_tasks) \in Nat /\ Len(m_tasks) # 0
      BY <1>5 DEF IInv, TypeOK
    <3>2. 1 \in 1..Len(m_tasks)
      BY <3>1
    <3>. QED BY <3>1, <3>2
  <2>2. PICK v \in Threads : m_tasks[1].thread = v /\ PinOther
    <3>1. m_tasks[1].thread \in Threads \cup {AnyThread}
      BY <2>1 DEF Task
    <3>. QED BY <1>3, <2>1, <3>1 DEF SeenInv
  <2>3. pc[v] = "exit" \/ v = Root
    BY <1>1 DEF EndInv, Workers
  <2>4. Stranded
    BY <2>1, <2>2, <2>3 DEF Stranded
  <2>. QED BY <1>1, <1>2, <2>4
<1>. QED BY <1>4, <1>5

(* When stop() has returned, every callback has been started, the list is  *)
(* empty, no thread is left in run() and no counter is left raised, unless *)
(* a callback pinned a task to a thread that had left.                     *)
THEOREM StopLeavesNothing ==
  ASSUME ~WakeRunning
  PROVE  Spec => []StopDrains
BY Conservation, Drained, PTL

(* Only the owner's steps move the owner, and none takes it back to where  *)
(* start() has not been called.                                            *)
LEMMA CallerMoves ==
  ASSUME [Next]_vars
  PROVE  caller' = caller \/ caller' # "new"
<1>1. ASSUME NEW t \in Threads, User(t) PROVE caller' = caller
  BY <1>1 DEF User, UserSchedules, UserArms, YieldToHold, YieldToReady, UserReturns, UserThrows,
       stopVars
<1>2. ASSUME NEW t \in Threads, run(t) PROVE caller' = caller
  <2>1. CASE TakeTask(t) \/ FindNoTask(t) \/ CountActive(t) \/ DispatchFiber(t) \/ DispatchCb(t)
    BY <2>1 DEF TakeTask, FindNoTask, CountActive, DispatchFiber, DispatchCb, stopVars
  <2>2. CASE DropTask(t) \/ SwapOut(t) \/ UncountActive(t) \/ PostReady(t) \/ PostFinished(t)
    BY <2>2 DEF DropTask, SwapOut, UncountActive, PostReady, PostFinished, stopVars
  <2>3. CASE PostHold(t) \/ EnterIdle(t) \/ Idle(t) \/ LeaveIdle(t) \/ ExitRun(t)
    BY <2>3 DEF PostHold, EnterIdle, Idle, LeaveIdle, ExitRun, stopVars
  <2>. QED BY <1>2, <2>1, <2>2, <2>3 DEF run
<1>3. CASE CallerSchedules
  BY <1>3 DEF CallerSchedules, stopVars
<1>4. CASE Start \/ Stop \/ StopProceeds
  BY <1>4 DEF Start, Stop, StopProceeds, StopAtOnce, SignalStop, EnterRoot, SkipRoot, LeaveRoot, Join
<1>5. CASE UNCHANGED vars
  BY <1>5 DEF vars, stopVars
<1>. QED BY <1>1, <1>2, <1>3, <1>4, <1>5 DEF Next, Finished

(* Clients that pin to their own thread only strand nothing, and then the  *)
(* scheduler implements Executor: every callback is started once, by a     *)
(* scheduler that is up, and it goes down with nothing pending.            *)
THEOREM Implementation ==
  ASSUME ~WakeRunning, ~PinOther
  PROVE  Spec => ImplementsExecutor
<1>1. Init => Promise!Init
  <2>. SUFFICES ASSUME Init PROVE Promise!Init
    OBVIOUS
  <2>1. Len(m_tasks) = 0 /\ \A i \in 1..Len(m_tasks) : FALSE
    BY DEF Init
  <2>2. \A t \in Threads : tk[t] = NoTask
    BY DEF Init
  <2>3. Pending = {}
    BY <2>1, <2>2, PendingIs, NoTaskStarts
  <2>. QED BY <2>3 DEF Init, FiberInit, Promise!Init
<1>2. ConservationInv /\ StopDrains' /\ [Next]_vars => [Promise!Next]_(Promise!vars)
  <2>. SUFFICES ASSUME ConservationInv, StopDrains', [Next]_vars
                PROVE  [Promise!Next]_(Promise!vars)
    OBVIOUS
  <2>. DEFINE up == caller \notin {"new", "done"}
  <2>1. /\ ConservationInv'
        /\ Quiet \/ (UNCHANGED caller /\ (Accepts \/ (Enters /\ up)))
    BY NextConserves
  <2>2. CASE UNCHANGED caller /\ Accepts
    BY <2>2 DEF Accepts, Promise!Next, Promise!Accept
  <2>3. CASE UNCHANGED caller /\ Enters /\ up
    BY <2>3 DEF Enters, Promise!Next, Promise!Run
  <2>4. CASE Quiet
    <3>1. CASE up' = up
      BY <2>4, <3>1 DEF Quiet, Promise!vars
    <3>2. CASE ~up /\ up'
      BY <2>4, <3>2 DEF Quiet, Promise!Next, Promise!GoUp
    <3>3. CASE up /\ ~up'
      <4>1. caller' = "done"
        <5>1. caller' = caller \/ caller' # "new"
          BY CallerMoves
        <5>. QED BY <3>3, <5>1
      <4>2. posted' = entered'
        BY <4>1 DEF StopDrains, Stranded
      <4>3. posted' = entered' \cup Pending' /\ entered' \cap Pending' = {}
        BY <2>1 DEF ConservationInv, StartsInv, NoCallbackLost
      <4>4. Pending = {}
        BY <2>4, <4>2, <4>3 DEF Quiet
      <4>. QED BY <2>4, <3>3, <4>4 DEF Quiet, Promise!Next, Promise!GoDown
    <3>. QED BY <3>1, <3>2, <3>3
  <2>. QED BY <2>1, <2>2, <2>3, <2>4
<1>. QED BY <1>1, <1>2, Conservation, StopLeavesNothing, PTL DEF Spec, ImplementsExecutor, Promise!Spec

=============================================================================
