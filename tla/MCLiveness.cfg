SPECIFICATION FairSpec
CONSTANTS
  Users = {u1}
  Devices = {d1}
  Addresses = {a1}
  Subnets = {s1}
  Exprs = {e1}
  Priorities <- MCPriorities
  MaxRules = 1
  Global = Global
  TunnelNet = TunnelNet
  Nobody = Nobody
  Tasks = {t1, t2}
  Boot = Boot
  NoRow = NoRow
  NoRule = NoRule
  Ops <- LivenessOps
  RuleOwners = {u1}
  MaxFaults = 0
  ServeWhileStarting = FALSE
  MaxCrashes = 1
PROPERTIES EveryDeviceConnects EveryOrphanGoes
CHECK_DEADLOCK FALSE
