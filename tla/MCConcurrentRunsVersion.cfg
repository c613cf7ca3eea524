CONSTANTS
  Entries <- MCEntries
  Horizon = 2
  Trigger <- MCTrigger
  Priority <- MCPriority
  Ordinal <- MCOrdinal
  Kind <- MCKind
  Required <- MCRequired
  DependsOn <- MCDependsOn
  Handlers = {h1, h2}
  NoHandler = NoHandler
  Keys = {k1, k2}
  Decisions = {"plan"}
  CompletingPlays <- MCCompletingPlays
  Deadline = 2
  MaxFailures = 0
SPECIFICATION FairSpec
PROPERTIES
  VersionMonotone
