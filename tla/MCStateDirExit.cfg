SPECIFICATION Spec
CONSTANTS
  Instances = {p1, p2, p3}
  MaxInodes = 4
  Exits = TRUE
INVARIANT OneRunning
CHECK_DEADLOCK FALSE
