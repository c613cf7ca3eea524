CONSTANTS
  Entries <- MCEntries
  Horizon = 2
  Trigger <- MCTrigger
  Priority <- MCPriority
  Ordinal <- MCOrdinal
  Kind <- MCKind
  Required <- MCRequired
  DependsOn <- MCDependsOn
  Handlers = {h1}
  NoHandler = NoHandler
  Keys = {k1, k2, k3}
  Decisions = {"rush", "plan"}
  CompletingPlays <- MCCompletingPlays
  Deadline = 2
  MaxFailures = 1
SPECIFICATION PlayedSpec
INVARIANTS
  TypeOK
  RepliesAreStored
  DependenciesFirst
  BlockedShowsBlocker
  RetriesSucceed
PROPERTIES
  RunEnds
  LedgerSpec
  GateHolds
