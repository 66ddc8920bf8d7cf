------------------------------ MODULE FdTable ------------------------------
(***************************************************************************)
(* IOManager::m_fdContexts (wille/iomanager.cpp): the table that the calls *)
(* on a descriptor look its FdContext up in, and that addEvent() makes     *)
(* larger.  The table's lock is released before the context's is taken,    *)
(* and, in addEvent(), between the look at the size and the growth.        *)
(*                                                                         *)
(* A context is a number, counted for each descriptor; what it waits for   *)
(* is in IOManager.tla, and here an event is registered or not.  epoll,    *)
(* which is external, keeps the pointer to the context that was added.     *)
(***************************************************************************)
EXTENDS Naturals

CONSTANTS
  Callers,     \* the threads that call
  Fds,         \* numbers of descriptors
  InitSize,    \* 32 in the constructor
  MaxContexts  \* bound: contexts made for a descriptor

ASSUME FdTableAssumption ==
  Fds \subseteq Nat /\ InitSize \in Nat /\ InitSize >= 2 /\ MaxContexts \in Nat

VARIABLES
  m_size,      \* m_fdContexts.size()
  table,       \* m_fdContexts: a context, or 0
  made,        \* the contexts that were made
  registered,  \* pairs of a descriptor and its context that has an event
  epoll,       \* the context of each descriptor in epoll's set, or 0
  deleted,     \* pairs: the contexts that the destructor has deleted
  call,        \* the call each thread is in
  dropped      \* history: descriptors that a late growth cut off

tableVars == <<m_size, table, made>>
fdTableVars == <<tableVars, registered, epoll, deleted, call, dropped>>

NoCall == [op |-> "none", fd |-> 0, seen |-> 0, ctx |-> 0]

Calls == [op : {"none", "addEvent", "cancelAll", "idle"}, fd : Fds \cup {0},
          seen : Nat, ctx : 0..MaxContexts]

Context(t) == <<call[t].fd, call[t].ctx>>

FdTableTypeOK ==
  /\ m_size \in Nat /\ table \in [Fds -> 0..MaxContexts] /\ made \in [Fds -> 0..MaxContexts]
  /\ registered \cup deleted \subseteq Fds \X (1..MaxContexts)
  /\ epoll \in [Fds -> 0..MaxContexts] /\ dropped \subseteq Fds
  /\ call \in [Callers -> Calls]

FdTableInit ==
  /\ m_size = 0 /\ table = [fd \in Fds |-> 0] /\ made = [fd \in Fds |-> 0]
  /\ registered = {} /\ epoll = [fd \in Fds |-> 0] /\ deleted = {}
  /\ call = [t \in Callers |-> NoCall] /\ dropped = {}

Kept_Never(fd, size) == FALSE

(* vector::resize() keeps what is below the new size. *)
Kept(fd, size) == fd < size /\ table[fd] # 0

ContextResize(size) ==
  /\ m_size' = size
  /\ made' = [fd \in Fds |-> IF fd < size /\ ~Kept(fd, size) THEN made[fd] + 1 ELSE made[fd]]
  /\ table' = [fd \in Fds |-> CASE fd >= size -> 0
                                [] Kept(fd, size) -> table[fd]
                                [] OTHER -> made'[fd]]
  /\ \A fd \in Fds : made'[fd] <= MaxContexts

(* The look-up, under the read lock.  All but addEvent() give up when the  *)
(* table ends before fd.                                                   *)
LookUp(t, op, fd) ==
  /\ call[t] = NoCall /\ op \in {"addEvent", "cancelAll"}
  /\ op = "addEvent" \/ fd < m_size
  /\ call' = [call EXCEPT ![t] = [op |-> op, fd |-> fd, seen |-> m_size,
                                  ctx |-> IF fd < m_size THEN table[fd] ELSE 0]]
  /\ UNCHANGED <<tableVars, registered, epoll, deleted, dropped>>

(* addEvent() grows the table to fd * 1.5, whatever its size is by now. *)
Grow(t) ==
  LET fd == call[t].fd
      size == (fd * 3) \div 2
  IN  /\ call[t].op = "addEvent" /\ call[t].ctx = 0
      /\ ContextResize(size)
      /\ call' = [call EXCEPT ![t].ctx = table'[fd]]
      /\ dropped' = dropped \cup {f \in Fds : m_size # call[t].seen /\ size <= f /\ f < m_size}
      /\ UNCHANGED <<registered, epoll, deleted>>

Adds_Anyway(fd) == TRUE

(* EPOLL_CTL_ADD fails while the descriptor is in the set. *)
Adds(fd) == epoll[fd] = 0

(* addEvent() with the context's lock.  That the context has no event yet  *)
(* is the caller's obligation, and its assertion.                          *)
AddEvent(t) ==
  LET fd == call[t].fd
  IN  /\ call[t].op = "addEvent" /\ call[t].ctx # 0 /\ Context(t) \notin registered
      /\ IF Adds(fd)
         THEN /\ registered' = registered \cup {Context(t)}
              /\ epoll' = [epoll EXCEPT ![fd] = call[t].ctx]
         ELSE UNCHANGED <<registered, epoll>>
      /\ call' = [call EXCEPT ![t] = NoCall]
      /\ UNCHANGED <<tableVars, deleted, dropped>>

(* epoll_wait() hands a pointer to the context to idle(). *)
Report(t, fd) ==
  /\ call[t] = NoCall /\ epoll[fd] # 0
  /\ call' = [call EXCEPT ![t] = [op |-> "idle", fd |-> fd, seen |-> 0, ctx |-> epoll[fd]]]
  /\ UNCHANGED <<tableVars, registered, epoll, deleted, dropped>>

(* cancelAll(), and idle() with a report: EPOLL_CTL_DEL and triggerEvent() *)
Trigger(t) ==
  LET fd == call[t].fd
  IN  /\ call[t].op \in {"cancelAll", "idle"}
      /\ IF Context(t) \in registered
         THEN registered' = registered \ {Context(t)} /\ epoll' = [epoll EXCEPT ![fd] = 0]
         ELSE UNCHANGED <<registered, epoll>>
      /\ call' = [call EXCEPT ![t] = NoCall]
      /\ UNCHANGED <<tableVars, deleted, dropped>>

(* The destructor deletes what is in the table. *)
DeleteContexts ==
  /\ deleted' = {<<fd, table[fd]>> : fd \in {f \in Fds : table[f] # 0}}
  /\ UNCHANGED <<tableVars, registered, epoll, call, dropped>>

Caller(t) ==
  \/ \E fd \in Fds : LookUp(t, "addEvent", fd) \/ LookUp(t, "cancelAll", fd) \/ Report(t, fd)
  \/ Grow(t) \/ AddEvent(t) \/ Trigger(t)

=============================================================================
