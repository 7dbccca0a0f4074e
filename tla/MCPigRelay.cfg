SPECIFICATION PigFairSpec
CONSTANTS
  Rules = {"r1", "r2"}
  Base = {"r1"}
  Pids = {1, 2, 3}
  MaxRequests = 2
  MaxBoots = 2
INVARIANTS
  PigTypeOK
  SnortHasFile
  OthersAreAbandoned
PROPERTIES
  RulesReachSnort
CHECK_DEADLOCK FALSE
