CONSTANT
  MaxFrames = 6
SPECIFICATION CanFairSpec
INVARIANT
  FifoOrder
PROPERTY
  AllDelivered
CHECK_DEADLOCK FALSE
