SPECIFICATION FairSpec
CONSTANTS
  v4 = v4
  v6 = v6
  Addresses <- MCAddresses
  Pages = {p1, p2}
  MaxQueue = 2
  MaxNotes = 4
  MaxDrift = 3
  MaxRestarts = 1
INVARIANTS TypeOK KeyAndPeersStay OnlyOldAreDropped
PROPERTIES DriftHeals
CHECK_DEADLOCK FALSE
