SPECIFICATION ManagerSpec
CONSTANTS
  Switches = {"d1", "d2"}
  Ports = {"x1", "x2"}
  Ips = {i1, i2}
  Places <- MCPlaces
  Selectors = {flow}
  Nowhere = Nowhere
  MaxOther = 1
  MaxPending = 2
INVARIANTS
  ManagerTypeOK
  NothingWaitsInVain
  InstanceMapsAgree
SYMMETRY Symmetry
