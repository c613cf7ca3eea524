---------------------------- MODULE MCStudentPage ----------------------------
(* A survey that is open from the start and a quiz that blocks the first week. *)
EXTENDS StudentPage

MCEntries == {"survey", "quiz"}
MCDue == [e \in MCEntries |-> IF e = "survey" THEN 0 ELSE 1]
MCRequired == {"quiz"}

=============================================================================
