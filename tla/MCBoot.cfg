CONSTANTS
  stray = stray
  fut = fut
  clock = clock
  sysinfo = sysinfo
  tx = tx
  txn = txn
  rx = rx
  shell = shell
  tcs = tcs
  cli = cli
  CLOCKSERVER = CLOCKSERVER
  TXSERVER = TXSERVER
  RXSERVER = RXSERVER
  TCSERVER = TCSERVER
  None = None
  Tasks <- BootTasks
  Names <- BootNames
  Calls <- BootCalls
  Roots <- BootRoots
  MAX_NAMES = 32
SPECIFICATION FairSpec
INVARIANTS
  ServersFound
PROPERTIES
  AllCallsReturn
CHECK_DEADLOCK FALSE
