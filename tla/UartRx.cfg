SPECIFICATION Spec
CONSTANTS
  Clients = {"shell", "cli"}
  RX_BUFFER_SIZE = 2
  FifoSize = 3
  Trigger = 2
  Notifier = "notifier"
  MaxChars = 6
INVARIANTS InOrder NothingLost
PROPERTIES AllRead
CHECK_DEADLOCK FALSE
