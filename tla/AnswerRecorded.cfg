SPECIFICATION MCSpec
CONSTANTS
  c1 = c1
  c2 = c2
  c3 = c3
  Artifacts = {a1, a2}
  Reviewers = {e1, e2}
  Authors = {e3, e1}
  SpecReviewers = {e1, e2}
  SpecRounds = 2
  Threshold = 800
  MinSample = 1
  MaxRound = 3
  MaxReports = 2
  MaxIssues = 1
  NoArtifact = NoArtifact
  Runs = {r1}
  Candidates = {c1, c2, c3}
  Roles <- MCRoles
  Account <- MCAccount
  Window <- MCWindow
  Anchor = c1
  FallbackOrder <- MCFallbackOrder
  MaxProposers = 2
  MinSuccessful = 2
  ProposerRetries = 1
  Orders <- MCOrders
  AbleSets <- MCAbleSets
  Kinds = {"TIMEOUT", "AUTH_INVALID", "RATE_LIMITED", "BAD_REQUEST", "OTHER"}
  MaxTurns = 1
  NoCandidate = NoCandidate
  Calls = {q1, q2}
  RunKey = run
  NoRequestId = none
  QueueSize = 1
  Conns = {l1, l2}
  Frames = {q1, q2}
  Outcalls = {h1, h2}
  NoConn = none
  NoFrame = none
  MaxInflight = 2
  MaxPending = 1
  MaxMissed = 2
INVARIANT
  AnswerRecorded
CHECK_DEADLOCK FALSE
