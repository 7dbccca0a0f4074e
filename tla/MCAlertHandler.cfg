SPECIFICATION AlertSpec
CONSTANTS
  Ids = {"s1", "s2"}
  Objects = {1, 2, 3}
  Contents <- MCContents
  Patches <- MCPatches
  Boot <- MCBoot
  RemoveSaves = FALSE
  MaxWrites = 2
  MaxStarts = 1
  Alerts <- MCAlerts
  SflowAlerts <- MCSflow
  Absent = Absent
  Method <- MCMethod
  NameOf <- MCNameOf
  ValidNames <- MCValidNames
INVARIANTS
  AlertTypeOK
PROPERTIES
  CallsCarryAskedFields
CHECK_DEADLOCK FALSE
