SPECIFICATION Spec
CONSTANTS
  Users = {u1}
  Devices = {d1}
  Addresses = {a1}
  Subnets = {s1}
  Exprs = {e1}
  Priorities <- MCPriorities
  MaxRules = 0
  Global = Global
  TunnelNet = TunnelNet
  Nobody = Nobody
  Tasks = {t1}
  Boot = Boot
  NoRow = NoRow
  NoRule = NoRule
  Ops <- DeviceOps
  RuleOwners = {}
  MaxFaults = 0
  ServeWhileStarting = FALSE
  MaxCrashes = 1
PROPERTIES StartupRestoresAllowedIps
CHECK_DEADLOCK FALSE
