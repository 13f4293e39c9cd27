CONSTANTS
  Trees = {t1, t2}
  TX_BUFFER_SIZE = 1
  MAX_TREES = 1
  MAILBOX_SIZE = 2
  StartCmds = 1
  NoTid = NoTid
  Unknown = Unknown
  MaxCmds = 2
  MaxLoad = 2
SPECIFICATION FairSpec
INVARIANTS
  
  WaitingTreesKnown
  InitFirst
  NoDeadMailbox
PROPERTIES
  AllSent
  CallsReturn
CHECK_DEADLOCK FALSE
