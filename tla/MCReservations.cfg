SPECIFICATION Spec
CONSTANTS
  T <- SmallTrack
  Train = {13, 24}
  Start <- SmallStart
  Goals = {6, 11}
  MaxPlans = 2
  MaxTurns = 1
INVARIANTS NoConflict HeldIsOwned  SwitchesSet
PROPERTIES ImplementsLocks
CHECK_DEADLOCK FALSE
