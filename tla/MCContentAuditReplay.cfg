SPECIFICATION AuditSpec
CONSTANTS
  N = 3
  Weeks = 2
  Scripts <- SmallScripts
  Options <- TwoOptions
INVARIANT UntouchedRunVerifies
CHECK_DEADLOCK FALSE
