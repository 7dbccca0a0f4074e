SPECIFICATION FairSpec
CONSTANTS
  Alerts = {a1, a2}
  Apps = {p1}
  Collectors = {"prefix", "sFlowRT"}
  Kinds <- MCKinds
  KindOf <- MCKindOf
  Mute <- MCMute
  Skew = 0
  Ttl = 1
  MaxClock = 2
  MaxRestarts = 1
INVARIANTS
  TypeOK
  AtMostOnce
  NoLossOutsideWindow
PROPERTIES
  StoredIsAnswered
CHECK_DEADLOCK FALSE
