SPECIFICATION LiveSpec
CONSTANTS
  Threads = {t1, t2}
  Fds = {f1}
  Callbacks = {main, c1, c2}
  Main = main
  Recurring = {c2}
  Directions = {"READ"}
  Ops = {"addEvent", "delEvent", "cancelEvent", "cancelAll", "addTimer", "cancelTimer", "close"}
  None = None
CHECK_DEADLOCK FALSE
INVARIANTS
  TypeOK
  TriggerAssert
  FdConsistent
  PendingExact
  CallbackOnce
  StopKeepsCallbacks
PROPERTIES
  ReadyIsServed
  StopEnds
