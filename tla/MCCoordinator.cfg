SPECIFICATION FairSpec
CONSTANTS
  Apps = {"gui", "scan"}
  Default = {"gui"}
  Forking = {"gui"}
  Collectors = {"c1"}
  MaxPids = 2
  Hwm = 1
  MaxMsgs = 2
  MaxStarts = 2
INVARIANTS
  TypeOK
  NoneUnseen
PROPERTIES
  QuitsUnlessUnsent
CHECK_DEADLOCK FALSE
