SPECIFICATION ProxySpec
CONSTANTS
  Specs <- MCSpecs
  Key <- MCKey
  Addr <- MCAddr
  V6 <- MCV6
  MaxPorts = 2
  Faults = {"lostReply"}
  NoSpec = NoSpec
  Proxies = {"p1", "p2"}
  Requests <- MCRequests
  SpecOf <- MCSpecOf
  NoOwner = "rootlessctl"
INVARIANTS ListMatchesForwards NoLeak ServedIsForwarded
PROPERTIES IsPortManager OneVerdict
CHECK_DEADLOCK FALSE
