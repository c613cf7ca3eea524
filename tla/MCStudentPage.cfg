SPECIFICATION FairSpec
CONSTANTS
  Entries <- MCEntries
  Due <- MCDue
  Required <- MCRequired
  Weeks = 3
  MaxFailures = 1
  MaxElsewhere = 1
  MaxUnawaited = 1
  MaxCalls = 2
INVARIANTS
  TypeOK
  DecisionPlayedOnce
  PlayedWeekWasShown
PROPERTIES
  StudentFinishes
CHECK_DEADLOCK FALSE
