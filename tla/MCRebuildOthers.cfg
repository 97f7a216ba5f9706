SPECIFICATION Spec
CONSTANTS
  Users = {u1, u2}
  Devices = {d1, d2}
  Addresses = {a1, a2}
  Subnets = {}
  Exprs = {e1}
  Priorities <- MCPriorities
  MaxRules = 1
  Global = Global
  TunnelNet = TunnelNet
  Nobody = Nobody
  Tasks = {t1}
  Boot = Boot
  NoRow = NoRow
  NoRule = NoRule
  Ops <- SerialOps
  RuleOwners = {u1}
  MaxFaults = 0
  ServeWhileStarting = FALSE
  MaxCrashes = 0
PROPERTIES RebuildTouchesOneUser
CHECK_DEADLOCK FALSE
