CONSTANTS
  Entries <- MCEntries
  Horizon = 2
  Trigger <- MCTrigger
  Priority <- MCPriority
  Ordinal <- MCOrdinal
  Kind <- MCKind
  Required <- MCRequired
  DependsOn <- MCDependsOn
  Handlers = {h1}
  NoHandler = NoHandler
  Keys = {k1, k2, k3, k4}
  Decisions = {"plan"}
  CompletingPlays <- MCCompletingPlays
  Deadline = 1
  MaxFailures = 0
SPECIFICATION Spec
INVARIANT TerminalContentDelivered
