SPECIFICATION SignInSpec
CONSTANTS
  None = None
  MaxFailed = 2
  MaxVersions = 3
  MaxTokens = 2
  MaxCodes = 2
  MaxTried = 2
  MaxPairs = 4
  Requests = {r1, r2}
  Calls = {r1, r2}
  Tabs = {t1, t2}
  Users = {u1, u2}
CONSTRAINTS AccountBound TabsBound
SYMMETRY Interchangeable
INVARIANTS EstablishedSessionsEnd AloneAccountInOrder LockedForCause TabsInOrder
