SPECIFICATION FairSpec
CONSTANTS
  v4 = v4
  v6 = v6
  Addresses <- MCAddresses
  Pages = {p1}
  MaxQueue = 2
  MaxNotes = 0
  MaxDrift = 1
  MaxRestarts = 0
PROPERTIES TunnelHeals
CHECK_DEADLOCK FALSE
