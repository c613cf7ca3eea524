----------------------------- MODULE WeeklyTurn -----------------------------
(***************************************************************************)
(* One run of the simulation engine: backend/app/simulation/.              *)
(*                                                                         *)
(* A run is a sequence of weeks.  process_week takes the state of the run  *)
(* through six stages in a fixed order, each of which replaces the         *)
(* immutable SimulationState with the next one; a stage here is one action *)
(* and `stage' is the place reached in process_week.  Tasks are anonymous: *)
(* a pool only counts them, by difficulty, so every property of the engine *)
(* is about how the counts of different pools relate.                      *)
(*                                                                         *)
(* Productivity, error rates and management skill only weigh the random    *)
(* draws; here a stage may realize any outcome the draws can produce.      *)
(* Employees are counted, not named, and all cost the same per day.        *)
(***************************************************************************)
EXTENDS Integers

CONSTANTS
  Backlog,          \* the tasks of the scenario, by difficulty
  WorkingDays,      \* days until the deadline
  DaysPerWeek,      \* TurnRules.working_days_per_week
  HoursPerDay,      \* TurnRules.hours_per_day
  Budget,           \* the project budget
  CostPerDay,       \* salary of one employee for one day
  MaxHires,         \* bound: employees hired in one week
  OvertimeHours,    \* the overtime hours per employee a plan may ask for
  ReservedHours     \* the meeting plus training hours per employee it may ask for

Difficulties == {"easy", "medium", "hard"}
Activities == {"development", "unit_testing", "bug_fixing", "integration_testing"}
Stages == {"idle", "unit_test", "fix_bugs", "develop", "integrate", "close", "finished"}

TaskPool == [Difficulties -> Nat]

ASSUME BacklogAssumption == Backlog \in TaskPool
ASSUME CalendarAssumption ==
  /\ WorkingDays \in Nat \ {0}
  /\ DaysPerWeek \in Nat \ {0}
  /\ HoursPerDay \in Nat \ {0}
ASSUME MoneyAssumption == Budget \in Nat /\ CostPerDay \in Nat
ASSUME PlanAssumption ==
  /\ MaxHires \in Nat
  /\ OvertimeHours \subseteq Nat
  /\ ReservedHours \subseteq Nat

-----------------------------------------------------------------------------
(***************************************************************************)
(* Task pools.                                                             *)
(***************************************************************************)
EmptyPool == [d \in Difficulties |-> 0]

Plus(p, q) == [d \in Difficulties |-> p[d] + q[d]]

Minus(p, q) == [d \in Difficulties |-> p[d] - q[d]]

Contains(p, q) == \A d \in Difficulties : p[d] >= q[d]

Total(p) == p["easy"] + p["medium"] + p["hard"]

\* The pools a bounded draw from p can yield.
PoolsWithin(p) ==
  {q \in [Difficulties -> UNION {0 .. p[d] : d \in Difficulties}] : Contains(p, q)}

\* Mutant: drawing with replacement.
SampleWithReplacement(successes, population, draws) == 0 .. draws

\* How many of `successes' marked tasks can be among `draws' tasks taken
\* without replacement from a population: all but the unmarked ones must be.
SampleExisting(successes, population, draws) ==
  {n \in 0 .. draws : n <= successes /\ draws - n <= population - successes}

SampledPools(successes, population, draws) ==
  {q \in PoolsWithin(draws) :
     \A d \in Difficulties : q[d] \in SampleExisting(successes[d], population[d], draws[d])}

-----------------------------------------------------------------------------
VARIABLES
  week, elapsed_working_days, remaining_working_days, remaining_budget, employees,
  tasks_todo, tasks_completed, tasks_unit_tested, tasks_integration_tested,
  known_bugs, undiscovered_bugs, incorrect_specifications,
  stage,            \* the next stage of process_week to run
  working_days,     \* the days of the current week, 0 between weeks
  worked,           \* the activities that have hours in the current week
  developed         \* the tasks_completed event of the latest week

calendar == <<week, elapsed_working_days, remaining_working_days>>
plan == <<employees, working_days, worked>>
pools == <<tasks_todo, tasks_completed, tasks_unit_tested, tasks_integration_tested,
           known_bugs, undiscovered_bugs, incorrect_specifications>>
vars == <<calendar, remaining_budget, plan, pools, stage, developed>>

Untested == Minus(tasks_completed, tasks_unit_tested)
Unintegrated == Minus(tasks_unit_tested, tasks_integration_tested)

\* Mutant: tasks with a known bug may be integrated.
AllUnintegrated == Unintegrated

\* The unit-tested work without a known bug, which may be integrated.
CleanWork == Minus(Unintegrated, known_bugs)

\* Mutant: unit-tested work counts as done.
OutcomeByUnitTests ==
  IF Total(tasks_unit_tested) = Total(tasks_todo) + Total(tasks_completed)
  THEN "completed"
  ELSE IF remaining_working_days = 0 THEN "deadline_reached" ELSE "active"

\* Completion takes precedence over the deadline.
Outcome ==
  IF Total(tasks_integration_tested) = Total(tasks_todo) + Total(tasks_completed)
  THEN "completed"
  ELSE IF remaining_working_days = 0 THEN "deadline_reached" ELSE "active"

\* Mutant: the last week is a full one.
FullWeek == DaysPerWeek

\* The days of the next week, cut at the deadline.
WeekDays ==
  IF DaysPerWeek < remaining_working_days THEN DaysPerWeek ELSE remaining_working_days

\* Hours of the team; the max(0, ...) of the code is left out, as no input is negative.
TotalHours(count, days, overtime) == count * (days * HoursPerDay + overtime)

\* An activity without hours produces nothing; one with hours produces any
\* number of tasks, capped by what is available.
TaskOutput(activity, available) ==
  IF activity \in worked THEN PoolsWithin(available) ELSE {EmptyPool}

-----------------------------------------------------------------------------
Init ==
  /\ week = 0
  /\ elapsed_working_days = 0
  /\ remaining_working_days = WorkingDays
  /\ remaining_budget = Budget
  /\ employees = 0
  /\ tasks_todo = Backlog
  /\ tasks_completed = EmptyPool
  /\ tasks_unit_tested = EmptyPool
  /\ tasks_integration_tested = EmptyPool
  /\ known_bugs = EmptyPool
  /\ undiscovered_bugs = EmptyPool
  /\ incorrect_specifications = EmptyPool
  /\ stage = "idle"
  /\ working_days = 0
  /\ worked = {}
  /\ developed = EmptyPool

(***************************************************************************)
(* Staffing and capacity.  A plan whose meetings and training do not fit   *)
(* into the hours of the staffed team raises CapacityError and the week    *)
(* does not start: in the short last week a plan that fitted before may    *)
(* no longer fit.  `shares' are the activities given a positive            *)
(* percentage; the percentages total 100, so there is one.                 *)
(***************************************************************************)
OpenWeek ==
  /\ stage = "idle"
  /\ remaining_working_days # 0
  /\ \E dismissed \in 0 .. employees, hired \in 0 .. MaxHires,
        overtime \in OvertimeHours, reserved \in ReservedHours,
        shares \in (SUBSET Activities) \ {{}} :
       LET count == employees - dismissed + hired
           hours == TotalHours(count, WeekDays, overtime) - count * reserved
       IN /\ hours >= 0
          /\ employees' = count
          /\ working_days' = WeekDays
          /\ worked' = IF hours > 0 THEN shares ELSE {}
  /\ stage' = "unit_test"
  /\ UNCHANGED <<calendar, remaining_budget, pools, developed>>

\* Testing reveals every defect of the tasks it draws from the untested ones.
UnitTest ==
  /\ stage = "unit_test"
  /\ \E tested \in TaskOutput("unit_testing", Untested) :
       \E discovered \in SampledPools(undiscovered_bugs, Untested, tested) :
         /\ tasks_unit_tested' = Plus(tasks_unit_tested, tested)
         /\ undiscovered_bugs' = Minus(undiscovered_bugs, discovered)
         /\ known_bugs' = Plus(known_bugs, discovered)
  /\ stage' = "fix_bugs"
  /\ UNCHANGED <<calendar, remaining_budget, plan, tasks_todo, tasks_completed,
                 tasks_integration_tested, incorrect_specifications, developed>>

\* Mutant: fixing goes on until no known bug is left.
FixBugsUntilDone ==
  /\ stage = "fix_bugs"
  /\ \E fixed \in TaskOutput("bug_fixing", known_bugs) :
       known_bugs' = Minus(known_bugs, fixed)
  /\ stage' = IF known_bugs' = EmptyPool THEN "develop" ELSE "fix_bugs"
  /\ UNCHANGED <<calendar, remaining_budget, plan, tasks_todo, tasks_completed,
                 tasks_unit_tested, tasks_integration_tested, undiscovered_bugs,
                 incorrect_specifications, developed>>

FixBugs ==
  /\ stage = "fix_bugs"
  /\ \E fixed \in TaskOutput("bug_fixing", known_bugs) :
       known_bugs' = Minus(known_bugs, fixed)
  /\ stage' = "develop"
  /\ UNCHANGED <<calendar, remaining_budget, plan, tasks_todo, tasks_completed,
                 tasks_unit_tested, tasks_integration_tested, undiscovered_bugs,
                 incorrect_specifications, developed>>

\* New work may hide a bug, a wrong specification, or both.
Develop ==
  /\ stage = "develop"
  /\ \E completed \in TaskOutput("development", tasks_todo) :
       \E bugs, failures \in PoolsWithin(completed) :
         /\ tasks_todo' = Minus(tasks_todo, completed)
         /\ tasks_completed' = Plus(tasks_completed, completed)
         /\ undiscovered_bugs' = Plus(undiscovered_bugs, bugs)
         /\ incorrect_specifications' = Plus(incorrect_specifications, failures)
         /\ developed' = completed
  /\ stage' = "integrate"
  /\ UNCHANGED <<calendar, remaining_budget, plan, tasks_unit_tested,
                 tasks_integration_tested, known_bugs>>

\* Mutants: a returned task stays completed, or stays unit tested.
ReturnCompleted(failed) ==
  /\ tasks_todo' = Plus(tasks_todo, failed)
  /\ tasks_completed' = tasks_completed
  /\ tasks_unit_tested' = Minus(tasks_unit_tested, failed)
  /\ incorrect_specifications' = Minus(incorrect_specifications, failed)

ReturnUnitTested(failed) ==
  /\ tasks_todo' = Plus(tasks_todo, failed)
  /\ tasks_completed' = Minus(tasks_completed, failed)
  /\ tasks_unit_tested' = tasks_unit_tested
  /\ incorrect_specifications' = Minus(incorrect_specifications, failed)

\* A task that fails integration loses every mark of its progress.
ReturnToBacklog(failed) ==
  /\ tasks_todo' = Plus(tasks_todo, failed)
  /\ tasks_completed' = Minus(tasks_completed, failed)
  /\ tasks_unit_tested' = Minus(tasks_unit_tested, failed)
  /\ incorrect_specifications' = Minus(incorrect_specifications, failed)

\* Mutant: the integrated pool holds the tasks of the latest week only.
AcceptLatest(passed) == tasks_integration_tested' = passed

Accept(passed) == tasks_integration_tested' = Plus(tasks_integration_tested, passed)

\* Integration tests clean unit-tested work.  The wrong specifications among
\* the tested tasks are sampled from all completed tasks, integrated ones too.
Integrate ==
  /\ stage = "integrate"
  /\ \E tested \in TaskOutput("integration_testing", CleanWork) :
       \E failed \in SampledPools(incorrect_specifications, tasks_completed, tested) :
         ReturnToBacklog(failed) /\ Accept(Minus(tested, failed))
  /\ stage' = "close"
  /\ UNCHANGED <<calendar, remaining_budget, plan, known_bugs, undiscovered_bugs,
                 developed>>

\* Everyone present is paid for the days of the week, then the week is over
\* and what process_week kept for itself is gone.
CloseWeek ==
  /\ stage = "close"
  /\ week' = week + 1
  /\ elapsed_working_days' = elapsed_working_days + working_days
  /\ remaining_working_days' = remaining_working_days - working_days
  /\ remaining_budget' = remaining_budget - employees * CostPerDay * working_days
  /\ working_days' = 0
  /\ worked' = {}
  /\ UNCHANGED <<employees, pools, developed>>
  /\ stage' = IF Outcome' = "active" THEN "idle" ELSE "finished"

\* A finished run is not played on: its callers stop here, and a state that
\* stops anywhere else is a deadlock.
Finished == stage = "finished" /\ UNCHANGED vars

Next ==
  \/ OpenWeek \/ UnitTest \/ FixBugs \/ Develop \/ Integrate \/ CloseWeek
  \/ Finished

Spec == Init /\ [][Next]_vars

\* run_simulation calls process_week until the run is over, and process_week
\* itself never waits: the engine keeps taking steps while it can.
FairSpec == Spec /\ WF_vars(Next)

-----------------------------------------------------------------------------
(***************************************************************************)
(* Properties.                                                             *)
(***************************************************************************)
TypeOK ==
  /\ week \in Nat
  /\ elapsed_working_days \in Nat
  /\ remaining_working_days \in Nat
  /\ remaining_budget \in Int
  /\ employees \in Nat
  /\ tasks_todo \in TaskPool
  /\ tasks_completed \in TaskPool
  /\ tasks_unit_tested \in TaskPool
  /\ tasks_integration_tested \in TaskPool
  /\ known_bugs \in TaskPool
  /\ undiscovered_bugs \in TaskPool
  /\ incorrect_specifications \in TaskPool
  /\ developed \in TaskPool
  /\ stage \in Stages
  /\ working_days \in Nat
  /\ worked \subseteq Activities

\* What SimulationState.__post_init__ demands of every state a stage builds:
\* if it holds throughout, no stage of process_week ever raises half-way
\* through a week, and no sampling is asked for more tasks than exist.
StateValid ==
  /\ Contains(tasks_completed, tasks_unit_tested)
  /\ Contains(tasks_unit_tested, tasks_integration_tested)
  /\ Contains(Untested, undiscovered_bugs)
  /\ Contains(Unintegrated, known_bugs)
  /\ Contains(tasks_completed, incorrect_specifications)

\* No task is lost or invented: rework moves tasks between the backlog and
\* the completed pool and never changes how many of a difficulty there are.
TasksConserved == Plus(tasks_todo, tasks_completed) = Backlog

\* A run reported completed has nothing left to do in any difficulty and no
\* defect, known or hidden, although evaluate_outcome compares two totals.
CompletedIsClean ==
  (stage = "finished" /\ Outcome = "completed") =>
     /\ tasks_todo = EmptyPool
     /\ known_bugs = EmptyPool
     /\ undiscovered_bugs = EmptyPool
     /\ tasks_integration_tested = Backlog

\* Work developed in a week is still untested when that week is over, whatever
\* integration sends back: no task is developed and tested in one week.
FreshWorkWaits ==
  stage \in {"integrate", "close", "idle", "finished"} => Contains(Untested, developed)

\* The calendar is the one of the weeks played: full weeks of DaysPerWeek days
\* and a last one cut at the deadline, which no run passes.
CalendarExact ==
  /\ elapsed_working_days + remaining_working_days = WorkingDays
  /\ elapsed_working_days = IF week * DaysPerWeek < WorkingDays
                            THEN week * DaysPerWeek ELSE WorkingDays

\* Accepted work stays accepted: no later stage takes a task out of the
\* integrated pool, not even one that returns failures to the backlog.
AcceptedStays == [][Contains(tasks_integration_tested', tasks_integration_tested)]_vars

\* Every run ends, by completion or at its deadline, however much rework
\* there is.
RunEnds == <>(stage = "finished")

=============================================================================
