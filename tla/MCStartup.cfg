SPECIFICATION Spec
CONSTANTS
  Users = {u1, u2}
  Devices = {d1}
  Addresses = {a1}
  Subnets = {s1}
  Exprs = {e1}
  Priorities <- MCOnePriority
  MaxRules = 1
  Global = Global
  TunnelNet = TunnelNet
  Nobody = Nobody
  Tasks = {t1, t2}
  Boot = Boot
  NoRow = NoRow
  NoRule = NoRule
  Ops <- StartupOps
  RuleOwners = {u1, u2, Global}
  MaxFaults = 1
  ServeWhileStarting = FALSE
  MaxCrashes = 1
SYMMETRY MCSymmetry
INVARIANTS TypeOK TunnelRouteKept PolicyFollowsDatabase JumpsLeadToChains
PROPERTIES StartupReconciles
CHECK_DEADLOCK FALSE
