SPECIFICATION Spec
CONSTANTS
  Users = {u1, u2, u3}
  Browsers = {b1, b2}
  Tokens = {t1}
  Calls = {c1}
  Nobody = Nobody
  MaxRestarts = 1
PROPERTIES OnlyAdminStays
CHECK_DEADLOCK FALSE
