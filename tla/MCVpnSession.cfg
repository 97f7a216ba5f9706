SPECIFICATION Spec
CONSTANTS
  u1 = u1
  d1 = d1
  d2 = d2
  Users = {u1}
  Methods = {totp, key}
  Totp = {totp}
  Tabs = {t1}
  NoUser = NoUser
  Devices = {d1, d2}
  Owner <- MCOwner
  MaxFaults = 1
  MaxRestarts = 1
INVARIANTS SecondFactorAsked UnexpiredStayConnected
PROPERTIES ExpiredAreDisconnected
CHECK_DEADLOCK FALSE
