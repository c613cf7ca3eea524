-------------------------- MODULE MCTerminalContent --------------------------
(***************************************************************************)
(* SimulationRuns with one request at a time and a script that the         *)
(* authoring rules accept and that ends with two gates.                    *)
(***************************************************************************)
EXTENDS SimulationRuns

MCEntries == {"brief", "debrief", "reflection"}
MCTrigger == [e \in MCEntries |-> IF e = "brief" THEN RunStarted ELSE RunFinished]
MCPriority == [e \in MCEntries |-> 0]
MCOrdinal == [e \in MCEntries |->
  CASE e = "brief" -> 0 [] e = "debrief" -> 1 [] e = "reflection" -> 2]
MCKind == [e \in MCEntries |-> IF e = "reflection" THEN "question" ELSE "fragment"]
MCRequired == [e \in MCEntries |-> TRUE]
MCDependsOn == [e \in MCEntries |-> {}]

MCCompletingPlays == {}

=============================================================================
