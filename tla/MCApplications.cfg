SPECIFICATION Spec
CONSTANTS
  Sources = {"s1", "s2"}
  Dests = {"d1"}
  Ports = {1, 2}
  PortThresholdCount = 1
  ThreshIds = {"i1", "i2"}
  Hosts = {"h1", "h2", "h3"}
  SourceCountThreshold = 1
  Period = 1
  Flows = {"f1"}
  Rates = {3, 4}
  MinimuStep = 1
  Types = {0, 1}
  Rules = {u1, u2}
  MaxOctets = 1
  MaxLife = 1
  Shares <- MCShares
  MaxReports = 4
  MaxThresholds = 2
  MaxConnects = 2
SYMMETRY RuleSymmetry
INVARIANTS
  TypeOK
  DetectorsAreRight
  LearnerIsRight
  SentOnce
CHECK_DEADLOCK FALSE
