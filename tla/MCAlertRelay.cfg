SPECIFICATION FairSpec
CONSTANTS
  Alerts = {"a1", "a2", "a3"}
  SockSize = 1
  Hwm = 1
  MaxStarts = 2
INVARIANTS
  TypeOK
PROPERTIES
  IsChannel
  AlertsArrive
CHECK_DEADLOCK FALSE
