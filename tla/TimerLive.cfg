SPECIFICATION FairSpec
CONSTANTS
  Timers = {1, 2}
  Clients = {a, b}
  Pollers = {p}
  Periods = {2}
  Recurring = {}
  MaxTimeout = 2
  IntBits = 4
  Hour = 1
  MaxTicks = 4
  Setbacks = {}
  MaxSetbacks = 0
  MaxOps = 1
  MaxSignals = 1
CHECK_DEADLOCK FALSE
INVARIANTS
  NoOversleep
PROPERTIES
  EveryTimerFires
