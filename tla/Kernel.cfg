CONSTANTS
  MaxTasks = 3
  Levels = 2
  SenderCap = 2
  MaxTid = 4
  Awaited = {"CLOCK_TICK", "TASK_EXIT"}
  Idlers = {}
  NoTask = NoTask
SPECIFICATION Spec
INVARIANTS
  IInv
  OnePlace
PROPERTIES
  ImplementsSRR
CHECK_DEADLOCK FALSE
