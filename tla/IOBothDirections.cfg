SPECIFICATION FairSpec
CONSTANTS
  Threads = {t1}
  Fds = {f1, f2}
  Callbacks = {main, c1}
  Main = main
  Recurring = {}
  Directions = {"READ", "WRITE"}
  Ops = {"addEvent", "delEvent", "cancelAll", "fiberWait", "close"}
  None = None
CHECK_DEADLOCK FALSE
INVARIANTS
  FdConsistent
PROPERTIES
  ReadyIsServed
