---------------------------- MODULE MCWeeklyTurn ----------------------------
(***************************************************************************)
(* WeeklyTurn on a scenario of two tasks of different difficulty and seven *)
(* days, played in three full weeks and a short one.                       *)
(***************************************************************************)
EXTENDS WeeklyTurn

MCBacklog == [easy |-> 1, medium |-> 1, hard |-> 0]

\* Two tasks of one difficulty: an accepted one and a latent failure.
MCTwoTasks == [easy |-> 2, medium |-> 0, hard |-> 0]

\* One hour a day: a reservation of two hours fills a full week without
\* overtime, and only overtime makes it fit into the short one.
MCNoHours == {0}
MCOvertimeHours == {0, 1}
MCReservedHours == {0, 2}

=============================================================================
