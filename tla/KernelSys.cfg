CONSTANTS
  MaxTasks = 3
  Levels = 2
  SenderCap = 1
  MaxTid = 3
  Awaited = {"CLOCK_TICK", "DELAY_5S", "UART_RX_IRQ", "UART_TX_IRQ", "CAN_RX_IRQ", "CAN_TX_IRQ"}
  Idlers = {1}
  NoTask = NoTask
SPECIFICATION FairSpec
INVARIANTS
  WaiterArmed
  NoTaskLost
PROPERTIES
  TopPriorityRuns
CHECK_DEADLOCK FALSE
