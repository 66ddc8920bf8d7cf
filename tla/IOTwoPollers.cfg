SPECIFICATION Spec
CONSTANTS
  Threads = {t1, t2}
  Fds = {f1}
  Callbacks = {main, c1, c2}
  Main = main
  Recurring = {}
  Directions = {"READ", "WRITE"}
  Ops = {"addEvent"}
  None = None
SYMMETRY Interchangeable
CHECK_DEADLOCK FALSE
INVARIANTS
  TriggerAssert
