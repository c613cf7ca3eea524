SPECIFICATION MCSpec
CONSTANTS
  Users = {"ann", "bob"}
  MaxSessions = 2
  Lifetime = 1
  MaxCalls = 2
  MaxTroubles = 1
  Jobs <- MCJobs
  MaxStarts = 2
  MaxEdits = 1
  N = 3
  Weeks = 2
  Scripts <- SmallScripts
  Options <- TwoOptions
  Classes <- MCClasses
  MaxChanges = 2
  MaxLoads = 2
INVARIANTS
  TypeOK
  EndedServesNothing
  PageIsCookies
  AdmittedIsFree
  HtmlAfterSources
  SuccessIsComplete
  ZeroMeansAll
  OnlyOrderDiverges
  NothingIsLost
  
PROPERTIES
  DeadPageCloses
CHECK_DEADLOCK FALSE
