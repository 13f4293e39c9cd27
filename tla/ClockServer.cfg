CONSTANTS
  Clients = {2, 3}
  Notifier = 1
  W = 2
  MAX_WAITING = 2
SPECIFICATION FairSpec
INVARIANTS
  NoLateWake
PROPERTIES
  NoEarlyWake
  CallsReturn
CHECK_DEADLOCK FALSE
