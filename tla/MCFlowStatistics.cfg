SPECIFICATION Spec
CONSTANTS
  s1 = s1
  s2 = s2
  Devices = {s1, s2}
  Flows = {"icmp", "gre", "udp"}
  Unfit = {"udp"}
  Covers <- MCCovers
  Key <- MCKey
  Elapsed = {1, 86400}
  Budgets <- MCBudgets
  MaxNet = 2
INVARIANTS
  TypeOK
  EveryRuleIsReported
  QueryIsComplete
  SeenIsAnnounced
  RatesAddUp
PROPERTIES
  CountersGoBackForCause
SYMMETRY DeviceSymmetry
CHECK_DEADLOCK FALSE
