--------------------------- MODULE MCConcurrentRuns ---------------------------
(***************************************************************************)
(* SimulationRuns with two requests at once and a script of one optional   *)
(* question from the start, a required fragment of the first week that its *)
(* answer frees, and an event of the second week, whose delivery opens the *)
(* transaction of a turn before its gate.                                  *)
(***************************************************************************)
EXTENDS SimulationRuns, TLC

MCEntries == {"survey", "warning", "notice"}
MCTrigger == [e \in MCEntries |->
  CASE e = "survey" -> RunStarted [] e = "warning" -> BeforeWeek(1) [] e = "notice" -> BeforeWeek(2)]
MCPriority == [e \in MCEntries |-> 0]
MCOrdinal == [e \in MCEntries |-> CASE e = "survey" -> 0 [] e = "warning" -> 1 [] e = "notice" -> 2]
MCKind == [e \in MCEntries |->
  CASE e = "survey" -> "question" [] e = "warning" -> "fragment" [] e = "notice" -> "event"]
MCRequired == [e \in MCEntries |-> e = "warning"]
MCDependsOn == [e \in MCEntries |-> IF e = "warning" THEN {"survey"} ELSE {}]

MCCompletingPlays == {}

Symmetric == Permutations(Handlers) \cup Permutations(Keys)

=============================================================================
