CONSTANTS
  Bits = 4
  TICK_TIME_US = 4
  MaxLatency = 3
  Start = 2
  MaxNow = 26
SPECIFICATION TimerSpec
INVARIANTS
  TicksKept
  AccountsExact
CHECK_DEADLOCK FALSE
