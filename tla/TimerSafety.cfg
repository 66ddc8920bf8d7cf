SPECIFICATION Spec
CONSTANTS
  Timers = {1, 2}
  Clients = {a}
  Pollers = {p, q}
  Periods = {2, 4}
  Recurring = {2}
  MaxTimeout = 2
  IntBits = 3
  Hour = 1
  MaxTicks = 2
  Setbacks = {2}
  MaxSetbacks = 1
  MaxOps = 1
  MaxSignals = 1
SYMMETRY Interchangeable
CHECK_DEADLOCK FALSE
INVARIANTS
  TypeOK
  ArmedIffQueued
  OneShotContract
  RecurringStaysArmed
  NoOversleep
PROPERTIES
  NeverEarly
