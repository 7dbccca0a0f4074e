SPECIFICATION FairSpec
CONSTANTS
  ServerCount = 1
  Members = 2
  Forward <- ForwardPorts
  MaxSessions = 2
INVARIANTS
  TypeOK
  HostIsInOrder
  ToldIsReady
PROPERTIES
  WaitEnds
CHECK_DEADLOCK FALSE
