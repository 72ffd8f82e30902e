SPECIFICATION Spec
CONSTANTS
  Orphans = {"o1", "o2"}
  Conns = {"c1", "c2"}
  ChanCap = 1
  NumCmds = 2
INVARIANTS ResultIsTargets NoLostWakeup TransparentNeedsRules
PROPERTY EveryWaitEnds
CHECK_DEADLOCK FALSE
