SPECIFICATION FairSpec
CONSTANTS
  Instances = {p1, p2, p3}
  MaxInodes = 4
  Exits = TRUE
INVARIANTS OneRunningPerLock
PROPERTIES FilesStay AloneRecovers
CHECK_DEADLOCK FALSE
