SPECIFICATION FairSpec
CONSTANTS
  Users = {"ann", "bob"}
  MaxSessions = 2
  Lifetime = 1
  MaxCalls = 2
  MaxTroubles = 1
INVARIANT OldSessionsEnd
CHECK_DEADLOCK FALSE
