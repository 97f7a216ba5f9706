SPECIFICATION Spec
CONSTANTS
  i1 = i1
  c1 = c1
  c2 = c2
  Ids = {i1}
  Clients = {c1, c2}
  NoClient = NoClient
  Rows <- MCRows
  NoProvider = NoProvider
  File <- MCFile
  Admins = {adm}
  ServeWhileStarting = FALSE
  Accounts = {alice}
  Browsers = {b1, b2}
  NoToken = NoToken
  NoConn = NoConn
  NoAccount = NoAccount
  MaxGrants = 2
  MaxCrashes = 1
SYMMETRY MCSymmetry
INVARIANTS ClientAsConfigured OneConnection StoredTokenAccepted
PROPERTIES ConfiguredIsUsable
CHECK_DEADLOCK FALSE
