SPECIFICATION MCSpec
CONSTANTS
  Companies = {m1, m2}
  Departments = {d1, d2}
  Employees = {e1, e2}
  Profiles = {p1, p2}
  Skills = {s1}
  NoId = none
  FirstCompany = m1
  FirstOffice = d1
  FirstManager = e1
  FirstProfile = p1
  Statuses = {"active", "inactive"}
  WorkRoles = {"general_manager"}
  Users = {u1}
  Admins = {}
  Families = {f1, f2}
  Requests = {w1, w2}
  MaxFamilies = 1
  MaxTokens = 2
  MaxPasswords = 2
  NoRow = none
  Writes = {w1, w2}
  Keys = {k1, k2, k3}
  Resources = {x, y}
  Versions = {v1}
  Seeded = {x}
  MaxRevision = 2
  MaxSequence = 3
  Approvals = {a1}
  Calls = {w1, w2}
  Targets = {t1}
  TargetOf <- MCTargetOf
  Contents = {"x", "y"}
  OldContent = "x"
  NewContent = "y"
  MaxGrants = 2
  MaxEdits = 1
  NoCall = none
  Jobs = {w1, w2}
  Backups = {b1, b2}
  MaxVersion = 3
  NoTree = none
  NoMarker = none
  Refs = {c1, c2}
  Asks = {1, 2, 3, 4}
  CredRuns = {g1}
  MaxBreaks = 1
  NoCred = none
  Procs = {w1, w2}
  Identities = {i1, i2}
  NoOwner = none
  LastVersion = 2
  MaxInodes = 2
  MaxKills = 1
  Agents = {ag1, ag2}
  Models = {mo1}
  Providers = {pr1}
  LogicalKeys = {lk1}
  Texts = {"tx1", "tx2", "tx3"}
  Normal <- MCNormal
  Points <- MCPoints
  Installed = {ag1}
  Sessions = {w1, w2}
  NoRowId = none
  MaxEditions = 2
SYMMETRY MCSymmetry
INVARIANTS
  ArchivedIsClosed
  SessionsFollowPassword
  EffectOncePerKey
  PublishedInOrder
  VersionsHavePackages
  AnsweredIsFinal
  ReceiptMeansApplied
  UnfinishedUpdateCanBeUndone
  ActiveSecretStored
  AuthorisedIsKept
  WritesOwnMigratedProfile
  ReleaseInOneRange
PROPERTY VersionNamesContent
CHECK_DEADLOCK FALSE
