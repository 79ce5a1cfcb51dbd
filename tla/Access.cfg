SPECIFICATION Spec
CONSTANTS
  tab1 = tab1
  tab2 = tab2
  Users = {"ann", "bob"}
  Counting = {"ann"}
  Logins <- MCLogins
  Skews <- MCSkews
  PerSecond = 2
  Leeway = 1
  TokenLife = 2
  SessionTTL = 1
  GrantTTL = 2
  MaxAsserts = 2
  MaxSessions = 2
  MaxGrants = 1
  MaxClock = 5
SYMMETRY Symmetry
CHECK_DEADLOCK FALSE
INVARIANTS CodeKeptForItsLogin OneSessionPerAssertion
PROPERTIES SkewTolerated PresenceBounded
