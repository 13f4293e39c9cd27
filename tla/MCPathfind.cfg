SPECIFICATION Spec
CONSTANTS
  Layout = "B"
  AllowReverse = FALSE
  MaxOps = 2
  Starts = {0, 45, 71, 116, 122, 125}
  Goals = {1, 45, 49, 116, 122, 125, 139}
  Queries <- MCQueries
INVARIANTS EndsAtABound LeadsToGoal PathConsistent
PROPERTIES ImplementsSearch
CHECK_DEADLOCK FALSE
