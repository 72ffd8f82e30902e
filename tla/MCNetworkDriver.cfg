SPECIFICATION FairSpec
CONSTANT Drivers <- MCDrivers
INVARIANTS TargetHasNetwork CleanedUp ConnFindsNetwork
PROPERTY ConfigureReturns
CHECK_DEADLOCK FALSE
