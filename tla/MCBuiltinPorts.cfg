SPECIFICATION FairSpec
CONSTANTS
  Callers = {t1, t2}
  Specs <- MCSpecs
  Key <- MCKey
  Addr <- MCAddr
  Proto <- MCProto
  MaxRoutines = 2
  Faults = {"accept", "read"}
  NoSpec = NoSpec
  NoRoutine = NoRoutine
INVARIANTS ListenerIsTracked ListedIsServed StopsOnce
PROPERTIES IsPortManager RemoveReturns StopTakesEffect
CHECK_DEADLOCK FALSE
