SPECIFICATION FairSpec
CONSTANTS
  Threads = {caller}
  Root = caller
  AnyThread = AnyThread
  Pins = {caller}
  PinOther = FALSE
  WakeRunning = FALSE
  MaxYields = 1
  MaxStarts = 1
  Cbs = {c1, c2, c3}
  Fibers = {f1, f2, f3}
  NoFiber = NoFiber
  NoCb = NoCb
PROPERTIES
  StopReturns
