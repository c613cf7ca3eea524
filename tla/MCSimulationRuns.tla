--------------------------- MODULE MCSimulationRuns ---------------------------
(***************************************************************************)
(* SimulationRuns with one request at a time and a script that has every   *)
(* kind of entry, a gate at the start, one in the middle that an event     *)
(* opens, and an end.                                                      *)
(***************************************************************************)
EXTENDS SimulationRuns

MCEntries == {"brief", "survey", "notice", "quiz", "farewell"}
MCTrigger == [e \in MCEntries |->
  CASE e = "brief" -> RunStarted
    [] e = "survey" -> BeforeWeek(1)
    [] e = "notice" -> BeforeWeek(2)
    [] e = "quiz" -> BeforeWeek(2)
    [] e = "farewell" -> RunFinished]
MCPriority == [e \in MCEntries |-> IF e = "notice" THEN 1 ELSE 0]
MCOrdinal == [e \in MCEntries |->
  CASE e = "brief" -> 0 [] e = "survey" -> 1 [] e = "notice" -> 2
    [] e = "quiz" -> 3 [] e = "farewell" -> 4]
MCKind == [e \in MCEntries |->
  CASE e \in {"survey", "quiz"} -> "question"
    [] e = "notice" -> "event"
    [] OTHER -> "fragment"]
MCRequired == [e \in MCEntries |-> e \in {"brief", "quiz"}]
MCDependsOn == [e \in MCEntries |->
  CASE e = "quiz" -> {"notice"} [] e = "notice" -> {"brief"} [] OTHER -> {}]

\* The second week completes the project if it was rushed twice.
MCCompletingPlays == {<<"rush", "rush">>}

=============================================================================
