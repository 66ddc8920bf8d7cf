SPECIFICATION FairSpec
CONSTANTS
  Threads = {t1, t2, t3}
  Callers = {t1, t2, t3}
  Fds = {2, 4}
  InitSize = 2
  MaxContexts = 2
  None = None
CHECK_DEADLOCK FALSE
INVARIANTS
  IdsKnown
  NoUseAfterDelete
  RegisteredReachable
  OneContextPerFd
PROPERTIES
  StartReturns
