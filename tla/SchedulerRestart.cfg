SPECIFICATION Spec
CONSTANTS
  Threads = {w1, w2}
  Root = AnyThread
  AnyThread = AnyThread
  Pins = {w1, w2}
  PinOther = FALSE
  WakeRunning = FALSE
  MaxYields = 2
  MaxStarts = 2
  Cbs = {c1, c2}
  Fibers = {f1, f2}
  NoFiber = NoFiber
  NoCb = NoCb
SYMMETRY Interchangeable
INVARIANTS
  ConservationInv
  FiberOwnedOnce
  NoCallbackLost
PROPERTIES
  ImplementsExecutor
