SPECIFICATION Spec
CONSTANTS
  Instances = {p1, p2}
  MaxInodes = 4
  Exits = FALSE
INVARIANT FifoPresent
CHECK_DEADLOCK FALSE
