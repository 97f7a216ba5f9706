SPECIFICATION FairSpec
CONSTANTS
  Keys = {k1, k2}
  Creators = {c1, c2}
  Editors = {e1}
  Settings = {s1, s2}
  V4Networks <- MCV4Networks
  V6Network <- MCV6Network
  MaxTraffic = 1
  MaxRestarts = 1
  NoKey = NoKey
INVARIANTS TypeOK NoSharedAddress
PROPERTIES NoLostColumn TrafficIsRecorded RefusedOnlyWhenFull
CHECK_DEADLOCK FALSE
