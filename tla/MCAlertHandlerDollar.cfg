SPECIFICATION AlertSpec
CONSTANTS
  Ids = {"s1"}
  Objects = {1}
  Contents <- NoPatches
  Patches <- NoPatches
  Boot <- MCBoot
  RemoveSaves = FALSE
  MaxWrites = 0
  MaxStarts = 0
  Alerts <- MCAlerts
  SflowAlerts <- MCSflow
  Absent = Absent
  Method <- MCMethod
  NameOf <- MCNameOf
  ValidNames <- MCValidNames
INVARIANTS
  DollarIsThisAlert
CHECK_DEADLOCK FALSE
