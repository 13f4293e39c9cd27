CONSTANTS
  Printers = {"p1", "p2"}
  Notifier = "notifier"
  MaxLen = 3
  TX_BUFFER_SIZE = 4
  FifoSize = 2
  Trigger = 1
  MaxChars = 5
  MaxDebug = 1
SPECIFICATION FairSpec
INVARIANTS
  InOrder
  WakeupComing
PROPERTIES
  AllTransmitted
CHECK_DEADLOCK FALSE
