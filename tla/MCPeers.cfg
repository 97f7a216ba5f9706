SPECIFICATION Spec
CONSTANTS
  Users = {u1}
  Devices = {d1, d2}
  Addresses = {a1, a2}
  Subnets = {}
  Exprs = {e1}
  Priorities <- MCPriorities
  MaxRules = 0
  Global = Global
  TunnelNet = TunnelNet
  Nobody = Nobody
  Tasks = {t1, t2}
  Boot = Boot
  NoRow = NoRow
  NoRule = NoRule
  Ops <- DeviceOps
  RuleOwners = {}
  MaxFaults = 0
  ServeWhileStarting = TRUE
  MaxCrashes = 1
SYMMETRY MCSymmetry
PROPERTIES ImplementsDataPlane
INVARIANTS LiveDevicesHavePeers NoOrphanPeers OwnAddressCarried
CHECK_DEADLOCK FALSE
