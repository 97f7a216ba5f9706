SPECIFICATION Spec
CONSTANTS
  Users = {u1}
  Devices = {d1, d2}
  Addresses = {a1, a2}
  Subnets = {s1}
  Exprs = {e1, e2}
  Priorities <- MCPriorities
  MaxRules = 2
  Global = Global
  TunnelNet = TunnelNet
  Nobody = Nobody
  Tasks = {t1}
  Boot = Boot
  NoRow = NoRow
  NoRule = NoRule
  Ops <- SerialOps
  RuleOwners = {u1}
  MaxFaults = 1
  ServeWhileStarting = FALSE
  MaxCrashes = 1
SYMMETRY MCSymmetry
INVARIANTS LiveDevicesHavePeers NoOrphanPeers OwnAddressCarried RoutesFollowDatabase PolicyFollowsDatabase
CHECK_DEADLOCK FALSE
