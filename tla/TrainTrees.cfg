SPECIFICATION TreeSpec
CONSTANTS
  CRAWL = 4
  MAX = 7
  TEST = 10
  GO = 8
  TOP_SPEED_LOOPS = 2
  DECEL_LOOPS = 1
  ACCEL_LOOPS = 1
  RETRY = 1
  MaxLost = 2
  MaxShort = 2
  MaxWire = 2
INVARIANTS StandsAtEnd  CalibrationData
PROPERTIES TreeEnds
CHECK_DEADLOCK FALSE
