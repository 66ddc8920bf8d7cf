SPECIFICATION FairSpec
CONSTANTS
  Threads = {w1, caller}
  Root = caller
  AnyThread = AnyThread
  Pins = {w1, caller}
  PinOther = TRUE
  WakeRunning = FALSE
  MaxYields = 1
  MaxStarts = 1
  Cbs = {c1, c2}
  Fibers = {f1, f2}
  NoFiber = NoFiber
  NoCb = NoCb
INVARIANTS
  TypeOK
  CountersExact
  FiberExclusive
  RunningFiberIsExec
  SuspendedFiberStates
  StopDrains
PROPERTIES
  StopReturns
  EveryCallbackStarts
