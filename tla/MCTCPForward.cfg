SPECIFICATION FairSpec
CONSTANTS
  Retries = 2
  MaxSend = 2
INVARIANTS HalfCloseDrains DescriptorIsUsed
PROPERTY ForwardEnds
CHECK_DEADLOCK FALSE
