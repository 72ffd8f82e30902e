SPECIFICATION Spec
CONSTANTS
  Callers = {t1, t2}
  Specs <- MCSpecs
  Local <- MCLocal
  MaxPorts = 3
  NoSpec = NoSpec
  NoId = NoId
INVARIANT ListMatchesForwards
CHECK_DEADLOCK FALSE
