SPECIFICATION Spec
CONSTANTS
  Threads = {w1, w2}
  Root = AnyThread
  AnyThread = AnyThread
  Pins = {}
  PinOther = FALSE
  WakeRunning = TRUE
  MaxYields = 2
  MaxStarts = 1
  Cbs = {c1}
  Fibers = {f1}
  NoFiber = NoFiber
  NoCb = NoCb
INVARIANTS
  RunningFiberIsExec
