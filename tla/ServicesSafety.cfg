SPECIFICATION ServicesSpec
CONSTANTS
  t1 = t1
  t2 = t2
  b1 = b1
  h1 = h1
  h2 = h2
  Tabs = {t1, t2}
  Browsers = {b1}
  BrowserOf <- MCBrowserOf
  MaxTokens = 3
  MaxActive = 2
  Resetters = {h1, h2}
  MayCrashAuth = TRUE
  boss = boss
  u1 = u1
  u2 = u2
  inv = inv
  rem = rem
  cl1 = cl1
  cl2 = cl2
  Boss = boss
  People = {u1, u2}
  MaxInvites = 2
  MaxMembers = 3
  MaxUsed = 2
  Caps = {0, 1}
  Inviters = {inv}
  Removers = {rem}
  Restorers = {inv}
  Claimants = {cl1, cl2}
  e1 = e1
  Editors = {e1}
  MaxLessons = 2
  MaxCopies = 2
  MaxDeletions = 1
  w1 = w1
  a1 = a1
  a2 = a2
  n1 = n1
  n2 = n2
  text1 = text1
  field1 = field1
  field2 = field2
  Names = {n1, n2}
  Texts = {text1}
  Fields = {field1, field2}
  MaxApplications = 2
  MaxNameRequests = 2
  MaxExpertiseRequests = 1
  Windows = {w1}
  Admins = {a1, a2}
INVARIANTS
  ServicesTypeOK
  LinkSetsPasswordOnce
  SeatsAreCounted
  OneOpenRevision
  ReviewHasItsRequest
  NamesStayApprovable
PROPERTIES
  DeletedHasNoSuccessor
  ApprovalPublishesRevision
SYMMETRY ServicesSymmetry
CHECK_DEADLOCK FALSE
