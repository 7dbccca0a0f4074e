SPECIFICATION Spec
CONSTANTS
  Devices = {d1, d2, d3}
  None = None
  Snort = Snort
  Relinks = TRUE
INVARIANTS
  TypeOK
  TunnelsLeadToSnort
  NoForwardingLoop
SYMMETRY Symmetry
