--------------------------- MODULE WeeklyTurnProofs ---------------------------
(***************************************************************************)
(* What the engine guarantees for every scenario, every team and every     *)
(* outcome of its random draws.                                            *)
(***************************************************************************)
EXTENDS WeeklyTurn, TLAPS

-----------------------------------------------------------------------------
(***************************************************************************)
(* Task pools.                                                             *)
(***************************************************************************)

\* Adding pools yields a pool (TaskPool.plus never raises).
LEMMA PlusType ==
  ASSUME NEW p \in TaskPool, NEW q \in TaskPool
  PROVE  Plus(p, q) \in TaskPool
BY DEF TaskPool, Plus, Difficulties

\* Subtracting a contained pool yields a pool (TaskPool.minus raises otherwise).
LEMMA MinusType ==
  ASSUME NEW p \in TaskPool, NEW q \in TaskPool, Contains(p, q)
  PROVE  Minus(p, q) \in TaskPool
BY DEF TaskPool, Minus, Contains, Difficulties

\* The empty pool is a pool, contained in every pool.
LEMMA EmptyPoolFacts ==
  /\ EmptyPool \in TaskPool
  /\ \A p \in TaskPool : Contains(p, EmptyPool)
BY DEF TaskPool, EmptyPool, Contains, Difficulties

\* A pool drawn from within another is a pool contained in it.
LEMMA PoolsWithinFacts ==
  ASSUME NEW p \in TaskPool, NEW q \in PoolsWithin(p)
  PROVE  q \in TaskPool /\ Contains(p, q)
<1>1. UNION {0 .. p[d] : d \in Difficulties} \subseteq Nat
  BY DEF TaskPool
<1>2. q \in [Difficulties -> UNION {0 .. p[d] : d \in Difficulties}] /\ Contains(p, q)
  BY DEF PoolsWithin
<1> QED
  BY <1>1, <1>2 DEF TaskPool

\* Whatever the draws, an activity never handles more than is available.
LEMMA TaskOutputFacts ==
  ASSUME NEW a, NEW p \in TaskPool, NEW q \in TaskOutput(a, p)
  PROVE  q \in TaskPool /\ Contains(p, q)
BY PoolsWithinFacts, EmptyPoolFacts DEF TaskOutput

\* A sample holds no more marked tasks than were drawn or than exist, and the
\* draws leave room for the unmarked ones.
LEMMA SampledPoolsFacts ==
  ASSUME NEW s, NEW p, NEW draws \in TaskPool, NEW q \in SampledPools(s, p, draws)
  PROVE  /\ q \in TaskPool
         /\ \A d \in Difficulties :
              q[d] <= draws[d] /\ q[d] <= s[d] /\ draws[d] - q[d] <= p[d] - s[d]
<1>1. q \in PoolsWithin(draws)
  BY DEF SampledPools
<1>2. q \in TaskPool /\ Contains(draws, q)
  BY <1>1, PoolsWithinFacts
<1>3. \A d \in Difficulties : q[d] <= s[d] /\ draws[d] - q[d] <= p[d] - s[d]
  BY DEF SampledPools, SampleExisting
<1>4. \A d \in Difficulties : q[d] <= draws[d]
  BY <1>2 DEF Contains, TaskPool
<1> QED
  BY <1>2, <1>3, <1>4

\* Equal totals leave no room for a difference in one difficulty that another
\* difficulty makes up for: what makes comparing two totals enough.
LEMMA EqualTotals ==
  ASSUME NEW i \in TaskPool, NEW t \in TaskPool, NEW c \in TaskPool,
         Contains(c, i), Total(i) = Total(t) + Total(c)
  PROVE  \A d \in Difficulties : t[d] = 0 /\ i[d] = c[d]
<1>1. \A d \in {"easy", "medium", "hard"} :
        i[d] \in Nat /\ t[d] \in Nat /\ c[d] \in Nat /\ i[d] <= c[d]
  BY DEF TaskPool, Contains, Difficulties
<1>2. /\ i["easy"] \in Nat /\ t["easy"] \in Nat /\ c["easy"] \in Nat
      /\ i["easy"] <= c["easy"]
  BY <1>1
<1>3. /\ i["medium"] \in Nat /\ t["medium"] \in Nat /\ c["medium"] \in Nat
      /\ i["medium"] <= c["medium"]
  BY <1>1
<1>4. /\ i["hard"] \in Nat /\ t["hard"] \in Nat /\ c["hard"] \in Nat
      /\ i["hard"] <= c["hard"]
  BY <1>1
<1>5. i["easy"] + i["medium"] + i["hard"]
        = (t["easy"] + t["medium"] + t["hard"]) + (c["easy"] + c["medium"] + c["hard"])
  BY DEF Total
<1>6. /\ t["easy"] = 0 /\ i["easy"] = c["easy"]
      /\ t["medium"] = 0 /\ i["medium"] = c["medium"]
      /\ t["hard"] = 0 /\ i["hard"] = c["hard"]
  BY <1>2, <1>3, <1>4, <1>5
<1> QED
  BY <1>6 DEF Difficulties

-----------------------------------------------------------------------------
(***************************************************************************)
(* The pools.  StateValid is inductive together with the types; no stage   *)
(* needs to know which stages ran before it.                               *)
(***************************************************************************)
PoolInv == TypeOK /\ StateValid /\ TasksConserved

USE BacklogAssumption, CalendarAssumption, MoneyAssumption, PlanAssumption

LEMMA InitPoolInv == Init => PoolInv
<1> SUFFICES ASSUME Init PROVE PoolInv
  OBVIOUS
<1>1. TypeOK
  BY EmptyPoolFacts DEF Init, TypeOK, Stages, Activities
<1>2. StateValid
  BY DEF Init, StateValid, Untested, Unintegrated, Minus, Contains, EmptyPool, Difficulties
<1>3. TasksConserved
  BY DEF Init, TasksConserved, Plus, EmptyPool, Difficulties, TaskPool
<1> QED
  BY <1>1, <1>2, <1>3 DEF PoolInv

LEMMA OpenWeekKeepsPoolInv ==
  ASSUME PoolInv, OpenWeek
  PROVE  PoolInv'
<1>1. /\ employees' \in Nat
      /\ working_days' \in Nat
      /\ worked' \subseteq Activities
      /\ stage' \in Stages
  BY DEF OpenWeek, PoolInv, TypeOK, WeekDays, Stages
<1>2. UNCHANGED <<calendar, remaining_budget, pools, developed>>
  BY DEF OpenWeek
<1> QED
  BY <1>1, <1>2 DEF PoolInv, TypeOK, StateValid, TasksConserved, calendar, pools,
     Untested, Unintegrated

LEMMA UnitTestKeepsPoolInv ==
  ASSUME PoolInv, UnitTest
  PROVE  PoolInv'
<1> USE DEF PoolInv
<1>0. PICK tested \in TaskOutput("unit_testing", Untested) :
        \E discovered \in SampledPools(undiscovered_bugs, Untested, tested) :
          /\ tasks_unit_tested' = Plus(tasks_unit_tested, tested)
          /\ undiscovered_bugs' = Minus(undiscovered_bugs, discovered)
          /\ known_bugs' = Plus(known_bugs, discovered)
  BY DEF UnitTest
<1>1. PICK discovered \in SampledPools(undiscovered_bugs, Untested, tested) :
        /\ tasks_unit_tested' = Plus(tasks_unit_tested, tested)
        /\ undiscovered_bugs' = Minus(undiscovered_bugs, discovered)
        /\ known_bugs' = Plus(known_bugs, discovered)
  BY <1>0
<1>2. Untested \in TaskPool
  BY MinusType DEF Untested, TypeOK, StateValid
<1>3. tested \in TaskPool /\ Contains(Untested, tested)
  BY <1>2, TaskOutputFacts
<1>4. /\ discovered \in TaskPool
      /\ \A d \in Difficulties :
           /\ discovered[d] <= tested[d]
           /\ discovered[d] <= undiscovered_bugs[d]
           /\ tested[d] - discovered[d] <= Untested[d] - undiscovered_bugs[d]
  BY <1>3, SampledPoolsFacts
<1>5. /\ stage' \in Stages
      /\ UNCHANGED <<calendar, remaining_budget, plan, tasks_todo, tasks_completed,
                     tasks_integration_tested, incorrect_specifications, developed>>
  BY DEF UnitTest, Stages
<1>6. Contains(undiscovered_bugs, discovered)
  BY <1>4 DEF Contains, TypeOK, TaskPool
<1>7. TypeOK'
  BY <1>1, <1>3, <1>4, <1>5, <1>6, PlusType, MinusType DEF TypeOK, calendar, plan
<1>8. StateValid'
  BY <1>1, <1>3, <1>4, <1>5
     DEF StateValid, TypeOK, TaskPool, Untested, Unintegrated, Contains, Plus, Minus
<1>9. TasksConserved'
  BY <1>5 DEF TasksConserved
<1> QED
  BY <1>7, <1>8, <1>9

LEMMA FixBugsKeepsPoolInv ==
  ASSUME PoolInv, FixBugs
  PROVE  PoolInv'
<1> USE DEF PoolInv
<1>1. PICK fixed \in TaskOutput("bug_fixing", known_bugs) :
        known_bugs' = Minus(known_bugs, fixed)
  BY DEF FixBugs
<1>2. fixed \in TaskPool /\ Contains(known_bugs, fixed)
  BY TaskOutputFacts DEF TypeOK
<1>3. /\ stage' \in Stages
      /\ UNCHANGED <<calendar, remaining_budget, plan, tasks_todo, tasks_completed,
                     tasks_unit_tested, tasks_integration_tested, undiscovered_bugs,
                     incorrect_specifications, developed>>
  BY DEF FixBugs, Stages
<1>4. TypeOK'
  BY <1>1, <1>2, <1>3, MinusType DEF TypeOK, calendar, plan
<1>5. StateValid'
  BY <1>1, <1>2, <1>3
     DEF StateValid, TypeOK, TaskPool, Untested, Unintegrated, Contains, Minus
<1>6. TasksConserved'
  BY <1>3 DEF TasksConserved
<1> QED
  BY <1>4, <1>5, <1>6

LEMMA DevelopKeepsPoolInv ==
  ASSUME PoolInv, Develop
  PROVE  PoolInv'
<1> USE DEF PoolInv
<1>1. PICK completed \in TaskOutput("development", tasks_todo) :
        \E bugs, failures \in PoolsWithin(completed) :
          /\ tasks_todo' = Minus(tasks_todo, completed)
          /\ tasks_completed' = Plus(tasks_completed, completed)
          /\ undiscovered_bugs' = Plus(undiscovered_bugs, bugs)
          /\ incorrect_specifications' = Plus(incorrect_specifications, failures)
          /\ developed' = completed
  BY DEF Develop
<1>2. PICK bugs \in PoolsWithin(completed), failures \in PoolsWithin(completed) :
        /\ tasks_todo' = Minus(tasks_todo, completed)
        /\ tasks_completed' = Plus(tasks_completed, completed)
        /\ undiscovered_bugs' = Plus(undiscovered_bugs, bugs)
        /\ incorrect_specifications' = Plus(incorrect_specifications, failures)
        /\ developed' = completed
  BY <1>1
<1>3. completed \in TaskPool /\ Contains(tasks_todo, completed)
  BY TaskOutputFacts DEF TypeOK
<1>4. /\ bugs \in TaskPool /\ Contains(completed, bugs)
      /\ failures \in TaskPool /\ Contains(completed, failures)
  BY <1>3, PoolsWithinFacts
<1>5. /\ stage' \in Stages
      /\ UNCHANGED <<calendar, remaining_budget, plan, tasks_unit_tested,
                     tasks_integration_tested, known_bugs>>
  BY DEF Develop, Stages
<1>6. TypeOK'
  BY <1>2, <1>3, <1>4, <1>5, PlusType, MinusType DEF TypeOK, calendar, plan
<1>7. StateValid'
  BY <1>2, <1>3, <1>4, <1>5
     DEF StateValid, TypeOK, TaskPool, Untested, Unintegrated, Contains, Plus, Minus
<1>8. TasksConserved'
  BY <1>2, <1>3 DEF TasksConserved, TypeOK, TaskPool, Plus, Minus
<1> QED
  BY <1>6, <1>7, <1>8

\* Work that may be integrated is a pool: known bugs lie in unintegrated work.
LEMMA CleanWorkFacts ==
  ASSUME PoolInv
  PROVE  /\ CleanWork \in TaskPool
         /\ \A d \in Difficulties :
              CleanWork[d] = tasks_unit_tested[d] - tasks_integration_tested[d] - known_bugs[d]
<1>1. Unintegrated \in TaskPool
  BY MinusType DEF Unintegrated, PoolInv, TypeOK, StateValid
<1>2. CleanWork \in TaskPool
  BY <1>1, MinusType DEF CleanWork, PoolInv, TypeOK, StateValid
<1>3. \A d \in Difficulties :
        CleanWork[d] = tasks_unit_tested[d] - tasks_integration_tested[d] - known_bugs[d]
  BY DEF CleanWork, Unintegrated, Minus
<1> QED
  BY <1>2, <1>3

\* Used below by every fact about a step of Integrate: the tested and the
\* failed pool, and where their tasks go.
LEMMA IntegrateFacts ==
  ASSUME PoolInv, Integrate
  PROVE  \E tested, failed \in TaskPool :
           /\ Contains(CleanWork, tested)
           /\ Contains(tested, failed)
           /\ Contains(incorrect_specifications, failed)
           /\ \A d \in Difficulties :
                tested[d] - failed[d] <= tasks_completed[d] - incorrect_specifications[d]
           /\ ReturnToBacklog(failed)
           /\ Accept(Minus(tested, failed))
<1>1. PICK tested \in TaskOutput("integration_testing", CleanWork) :
        \E failed \in SampledPools(incorrect_specifications, tasks_completed, tested) :
          ReturnToBacklog(failed) /\ Accept(Minus(tested, failed))
  BY DEF Integrate
<1>2. PICK failed \in SampledPools(incorrect_specifications, tasks_completed, tested) :
        ReturnToBacklog(failed) /\ Accept(Minus(tested, failed))
  BY <1>1
<1>3. tested \in TaskPool /\ Contains(CleanWork, tested)
  BY CleanWorkFacts, TaskOutputFacts
<1>4. /\ failed \in TaskPool
      /\ \A d \in Difficulties :
           /\ failed[d] <= tested[d]
           /\ failed[d] <= incorrect_specifications[d]
           /\ tested[d] - failed[d] <= tasks_completed[d] - incorrect_specifications[d]
  BY <1>3, SampledPoolsFacts
<1>5. Contains(tested, failed) /\ Contains(incorrect_specifications, failed)
  BY <1>3, <1>4 DEF Contains, TaskPool, PoolInv, TypeOK
<1> QED
  BY <1>2, <1>3, <1>4, <1>5

LEMMA IntegrateKeepsPoolInv ==
  ASSUME PoolInv, Integrate
  PROVE  PoolInv'
<1> USE DEF PoolInv
<1>1. PICK tested \in TaskPool, failed \in TaskPool :
        /\ Contains(CleanWork, tested)
        /\ Contains(tested, failed)
        /\ Contains(incorrect_specifications, failed)
        /\ ReturnToBacklog(failed)
        /\ Accept(Minus(tested, failed))
  BY IntegrateFacts
<1>2. Minus(tested, failed) \in TaskPool
  BY <1>1, MinusType
<1>3. /\ Contains(tasks_unit_tested, failed)
      /\ Contains(tasks_completed, failed)
  BY <1>1, CleanWorkFacts DEF Contains, TypeOK, TaskPool, StateValid
<1>4. /\ stage' \in Stages
      /\ UNCHANGED <<calendar, remaining_budget, plan, known_bugs, undiscovered_bugs,
                     developed>>
  BY DEF Integrate, Stages
<1>5. TypeOK'
  BY <1>1, <1>2, <1>3, <1>4, PlusType, MinusType
     DEF TypeOK, calendar, plan, ReturnToBacklog, Accept
<1>6. StateValid'
  BY <1>1, <1>3, <1>4, CleanWorkFacts
     DEF StateValid, TypeOK, TaskPool, Untested, Unintegrated, Contains, Plus, Minus,
         ReturnToBacklog, Accept
<1>7. TasksConserved'
  BY <1>1, <1>3 DEF TasksConserved, TypeOK, TaskPool, Plus, Minus, ReturnToBacklog
<1> QED
  BY <1>5, <1>6, <1>7

-----------------------------------------------------------------------------
(***************************************************************************)
(* The calendar.  CalendarExact alone is not inductive: a step of          *)
(* CloseWeek keeps it because the week that ends was given its days by     *)
(* OpenWeek, when there were days left.                                    *)
(***************************************************************************)
WeekInv ==
  /\ CalendarExact
  /\ stage \notin {"idle", "finished"} =>
       remaining_working_days # 0 /\ working_days = WeekDays

\* A stage inside the week leaves the calendar and the days of the week alone.
LEMMA InnerStageKeepsWeekInv ==
  ASSUME WeekInv,
         stage \notin {"idle", "finished"},
         UNCHANGED <<calendar, plan>>
  PROVE  WeekInv'
BY DEF WeekInv, CalendarExact, calendar, plan, WeekDays

LEMMA OpenWeekKeepsWeekInv ==
  ASSUME PoolInv, WeekInv, OpenWeek
  PROVE  WeekInv'
<1>1. /\ remaining_working_days # 0
      /\ working_days' = WeekDays
      /\ UNCHANGED calendar
  BY DEF OpenWeek
<1> QED
  BY <1>1 DEF WeekInv, CalendarExact, calendar, WeekDays

\* The days after a week: a full one, or whatever was left.
LEMMA NextWeekDays ==
  ASSUME NEW w \in Nat, NEW e \in Nat,
         e = IF w * DaysPerWeek < WorkingDays THEN w * DaysPerWeek ELSE WorkingDays,
         e # WorkingDays
  PROVE  e + (IF DaysPerWeek < WorkingDays - e THEN DaysPerWeek ELSE WorkingDays - e)
         = IF (w + 1) * DaysPerWeek < WorkingDays
           THEN (w + 1) * DaysPerWeek ELSE WorkingDays
<1>1. e = w * DaysPerWeek
  OBVIOUS
<1>2. (w + 1) * DaysPerWeek = w * DaysPerWeek + DaysPerWeek
  OBVIOUS
<1>3. w * DaysPerWeek \in Nat /\ DaysPerWeek \in Nat /\ WorkingDays \in Nat
  BY <1>1
<1> QED
  BY <1>1, <1>2, <1>3

LEMMA CloseWeekKeepsWeekInv ==
  ASSUME PoolInv, WeekInv, CloseWeek
  PROVE  /\ WeekInv'
         /\ remaining_working_days' \in Nat
<1>1. /\ week \in Nat /\ elapsed_working_days \in Nat /\ remaining_working_days \in Nat
      /\ working_days \in Nat
  BY DEF PoolInv, TypeOK
<1>2. /\ week' = week + 1
      /\ elapsed_working_days' = elapsed_working_days + working_days
      /\ remaining_working_days' = remaining_working_days - working_days
      /\ stage' \in {"idle", "finished"}
  BY DEF CloseWeek
<1>3. /\ remaining_working_days # 0
      /\ working_days = WeekDays
      /\ CalendarExact
  BY DEF WeekInv, CloseWeek
<1>4. /\ remaining_working_days = WorkingDays - elapsed_working_days
      /\ elapsed_working_days # WorkingDays
  BY <1>1, <1>3 DEF CalendarExact
<1>5. working_days = IF DaysPerWeek < WorkingDays - elapsed_working_days
                     THEN DaysPerWeek ELSE WorkingDays - elapsed_working_days
  BY <1>3, <1>4 DEF WeekDays
<1>6. elapsed_working_days' = IF week' * DaysPerWeek < WorkingDays
                              THEN week' * DaysPerWeek ELSE WorkingDays
  BY <1>1, <1>2, <1>3, <1>4, <1>5, NextWeekDays DEF CalendarExact
<1>7. elapsed_working_days' + remaining_working_days' = WorkingDays
  BY <1>1, <1>2, <1>4
<1>8. remaining_working_days' \in Nat
  BY <1>1, <1>2, <1>4, <1>5
<1> QED
  BY <1>2, <1>6, <1>7, <1>8 DEF WeekInv, CalendarExact

LEMMA CloseWeekKeepsPoolInv ==
  ASSUME PoolInv, WeekInv, CloseWeek
  PROVE  PoolInv'
<1> USE DEF PoolInv
<1>1. /\ week' \in Nat
      /\ elapsed_working_days' \in Nat
      /\ stage' \in Stages
      /\ working_days' \in Nat
      /\ worked' \subseteq Activities
  BY DEF CloseWeek, TypeOK, Stages
<1>2. remaining_working_days' \in Nat
  BY CloseWeekKeepsWeekInv
<1>3. remaining_budget' \in Int
  <2>1. employees * CostPerDay * working_days \in Nat
    BY DEF TypeOK
  <2> QED
    BY <2>1 DEF CloseWeek, TypeOK
<1>4. UNCHANGED <<employees, pools, developed>>
  BY DEF CloseWeek
<1> QED
  BY <1>1, <1>2, <1>3, <1>4 DEF TypeOK, StateValid, TasksConserved, pools,
     Untested, Unintegrated

-----------------------------------------------------------------------------
(***************************************************************************)
(* The invariant of the engine.                                            *)
(***************************************************************************)
Inv == PoolInv /\ WeekInv

LEMMA InitInv == Init => Inv
<1>1. Init => WeekInv
  BY DEF Init, WeekInv, CalendarExact
<1> QED
  BY <1>1, InitPoolInv DEF Inv

LEMMA NextInv == Inv /\ [Next]_vars => Inv'
<1> SUFFICES ASSUME Inv, [Next]_vars PROVE Inv'
  OBVIOUS
<1> USE DEF Inv
<1>1. CASE OpenWeek
  BY <1>1, OpenWeekKeepsPoolInv, OpenWeekKeepsWeekInv
<1>2. CASE UnitTest
  BY <1>2, UnitTestKeepsPoolInv, InnerStageKeepsWeekInv DEF UnitTest
<1>3. CASE FixBugs
  BY <1>3, FixBugsKeepsPoolInv, InnerStageKeepsWeekInv DEF FixBugs
<1>4. CASE Develop
  BY <1>4, DevelopKeepsPoolInv, InnerStageKeepsWeekInv DEF Develop
<1>5. CASE Integrate
  BY <1>5, IntegrateKeepsPoolInv, InnerStageKeepsWeekInv DEF Integrate
<1>6. CASE CloseWeek
  BY <1>6, CloseWeekKeepsPoolInv, CloseWeekKeepsWeekInv
<1>7. CASE UNCHANGED vars
  BY <1>7 DEF vars, calendar, plan, pools, PoolInv, TypeOK, StateValid, TasksConserved,
     WeekInv, CalendarExact, WeekDays, Untested, Unintegrated
<1> QED
  BY <1>1, <1>2, <1>3, <1>4, <1>5, <1>6, <1>7 DEF Next, Finished

\* Everything the engine's invariant says holds in every reachable state.
THEOREM Invariance == Spec => []Inv
BY InitInv, NextInv, PTL DEF Spec

\* Every state a stage builds has the types the engine relies on; counts of
\* tasks and days never become negative.
THEOREM TypeCorrect == Spec => []TypeOK
<1>1. Inv => TypeOK
  BY DEF Inv, PoolInv
<1> QED
  BY <1>1, Invariance, PTL

\* SimulationState.__post_init__ accepts every state a stage builds: no week
\* that passed staffing and capacity raises half-way.
THEOREM NeverRaises == Spec => []StateValid
<1>1. Inv => StateValid
  BY DEF Inv, PoolInv
<1> QED
  BY <1>1, Invariance, PTL

\* Rework neither loses nor invents tasks of any difficulty.
THEOREM Conservation == Spec => []TasksConserved
<1>1. Inv => TasksConserved
  BY DEF Inv, PoolInv
<1> QED
  BY <1>1, Invariance, PTL

\* The calendar is exactly that of the weeks played, and no run passes its
\* deadline.
THEOREM Calendar == Spec => []CalendarExact
<1>1. Inv => CalendarExact
  BY DEF Inv, WeekInv
<1> QED
  BY <1>1, Invariance, PTL

\* What evaluate_outcome calls completed, by comparing two totals over the
\* difficulties, is complete and free of defects in each of them.
THEOREM CompletedClean == Spec => []CompletedIsClean
<1>1. ASSUME Inv PROVE CompletedIsClean
  <2> SUFFICES ASSUME Outcome = "completed"
               PROVE  /\ tasks_todo = EmptyPool
                      /\ known_bugs = EmptyPool
                      /\ undiscovered_bugs = EmptyPool
                      /\ tasks_integration_tested = Backlog
    BY DEF CompletedIsClean
  <2> USE <1>1 DEF Inv, PoolInv
  <2>1. Total(tasks_integration_tested) = Total(tasks_todo) + Total(tasks_completed)
    BY DEF Outcome
  <2>2. \A d \in Difficulties :
          /\ tasks_todo[d] \in Nat /\ tasks_completed[d] \in Nat
          /\ tasks_unit_tested[d] \in Nat /\ tasks_integration_tested[d] \in Nat
          /\ known_bugs[d] \in Nat /\ undiscovered_bugs[d] \in Nat
          /\ tasks_integration_tested[d] <= tasks_unit_tested[d]
          /\ tasks_unit_tested[d] <= tasks_completed[d]
    BY DEF TypeOK, TaskPool, StateValid, Contains
  <2>3. \A d \in Difficulties :
          /\ tasks_todo[d] = 0
          /\ tasks_unit_tested[d] = tasks_completed[d]
          /\ tasks_integration_tested[d] = tasks_completed[d]
    <3>1. Contains(tasks_completed, tasks_integration_tested)
      BY <2>2 DEF Contains
    <3>2. \A d \in Difficulties :
            tasks_todo[d] = 0 /\ tasks_integration_tested[d] = tasks_completed[d]
      BY <2>1, <3>1, EqualTotals DEF TypeOK
    <3> QED
      BY <2>2, <3>2
  <2>4. \A d \in Difficulties : known_bugs[d] = 0 /\ undiscovered_bugs[d] = 0
    BY <2>2, <2>3 DEF StateValid, Contains, Untested, Unintegrated, Minus
  <2>5. tasks_integration_tested = Backlog
    BY <2>2, <2>3 DEF TasksConserved, Plus, TypeOK, TaskPool
  <2>6. tasks_todo = EmptyPool /\ known_bugs = EmptyPool /\ undiscovered_bugs = EmptyPool
    BY <2>3, <2>4 DEF TypeOK, TaskPool, EmptyPool
  <2> QED
    BY <2>5, <2>6
<1> QED
  BY <1>1, Invariance, PTL

-----------------------------------------------------------------------------
(***************************************************************************)
(* Work of the current week.  FreshWorkWaits is inductive once the pools   *)
(* are known to be pools.                                                  *)
(***************************************************************************)

\* A stage that leaves the untested work alone, or starts over, keeps the fresh
\* work waiting.
LEMMA NextFresh ==
  ASSUME Inv, Inv', FreshWorkWaits, [Next]_vars
  PROVE  FreshWorkWaits'
<1> USE DEF Inv, PoolInv
<1>1. CASE OpenWeek
  BY <1>1 DEF OpenWeek, FreshWorkWaits
<1>2. CASE UnitTest
  BY <1>2 DEF UnitTest, FreshWorkWaits
<1>3. CASE FixBugs
  BY <1>3 DEF FixBugs, FreshWorkWaits
<1>4. CASE Develop
  <2>1. PICK completed \in TaskOutput("development", tasks_todo) :
          /\ tasks_completed' = Plus(tasks_completed, completed)
          /\ developed' = completed
          /\ UNCHANGED tasks_unit_tested
    BY <1>4 DEF Develop
  <2>2. completed \in TaskPool
    BY <2>1, TaskOutputFacts DEF TypeOK
  <2> QED
    BY <2>1, <2>2
       DEF FreshWorkWaits, Contains, Untested, Minus, Plus, TypeOK, TaskPool, StateValid
<1>5. CASE Integrate
  <2>1. PICK tested \in TaskPool, failed \in TaskPool : ReturnToBacklog(failed)
    BY <1>5, IntegrateFacts
  <2>2. UNCHANGED developed /\ stage = "integrate"
    BY <1>5 DEF Integrate
  <2>3. Untested' = Untested
    BY <2>1 DEF ReturnToBacklog, Untested, Minus, TypeOK, TaskPool
  <2> QED
    BY <2>2, <2>3 DEF FreshWorkWaits
<1>6. CASE CloseWeek
  BY <1>6 DEF CloseWeek, FreshWorkWaits, pools, Untested
<1>7. CASE UNCHANGED vars
  BY <1>7 DEF vars, pools, FreshWorkWaits, Untested
<1> QED
  BY <1>1, <1>2, <1>3, <1>4, <1>5, <1>6, <1>7 DEF Next, Finished

\* No task is developed and tested in one week, whatever integration returns.
THEOREM FreshWork == Spec => []FreshWorkWaits
<1>1. Init => FreshWorkWaits
  BY DEF Init, FreshWorkWaits, Contains, Untested, Minus, EmptyPool
<1> QED
  BY <1>1, NextFresh, Invariance, PTL DEF Spec

\* No stage takes a task out of the integrated pool.
THEOREM NeverRevoked == Spec => AcceptedStays
<1>1. ASSUME Inv, [Next]_vars
      PROVE  [Contains(tasks_integration_tested', tasks_integration_tested)]_vars
  <2> USE <1>1 DEF Inv, PoolInv
  <2>1. UNCHANGED tasks_integration_tested
        => Contains(tasks_integration_tested', tasks_integration_tested)
    BY DEF Contains, TypeOK, TaskPool
  <2>2. CASE Integrate
    <3>1. PICK tested \in TaskPool, failed \in TaskPool :
            Contains(tested, failed) /\ Accept(Minus(tested, failed))
      BY <2>2, IntegrateFacts
    <3> QED
      BY <3>1 DEF Accept, Contains, Plus, Minus, TypeOK, TaskPool
  <2>3. CASE OpenWeek \/ UnitTest \/ FixBugs \/ Develop \/ CloseWeek \/ UNCHANGED vars
    BY <2>1, <2>3
       DEF OpenWeek, UnitTest, FixBugs, Develop, CloseWeek, vars, pools
  <2> QED
    BY <2>2, <2>3 DEF Next, Finished
<1> QED
  BY <1>1, Invariance, PTL DEF Spec, AcceptedStays

-----------------------------------------------------------------------------
(***************************************************************************)
(* The last week.  An unfinished run has days left, so only a week that    *)
(* began before the deadline can be its last.                              *)
(***************************************************************************)
\* Whole weeks of so many working days reach the deadline.
ReachesDeadline(weeks) == weeks * DaysPerWeek >= WorkingDays

\* A run goes on only before the deadline week, is played in no week after it,
\* and is over for the deadline's sake in that week and in no other: for the
\* callers of the engine the deadline is a number of weeks, as SimulationRuns
\* has it.
OverByTheDeadline ==
  /\ stage # "finished" => ~ReachesDeadline(week)
  /\ week > 0 => ~ReachesDeadline(week - 1)
  /\ stage = "finished" => Outcome # "active"
  /\ Outcome = "deadline_reached" => ReachesDeadline(week)

LEMMA DaysLeft ==
  ASSUME Inv
  PROVE  ReachesDeadline(week) <=> remaining_working_days = 0
<1>1. week * DaysPerWeek \in Nat
  BY CalendarAssumption DEF Inv, PoolInv, TypeOK
<1> QED
  BY <1>1, CalendarAssumption DEF Inv, PoolInv, WeekInv, TypeOK, CalendarExact, ReachesDeadline

\* The outcome of a run that is not over leaves it days; only CloseWeek counts a
\* week, and it was not the last one before.
LEMMA NextOver ==
  ASSUME Inv, Inv', OverByTheDeadline, [Next]_vars
  PROVE  OverByTheDeadline'
<1>1. /\ ReachesDeadline(week) <=> remaining_working_days = 0
      /\ ReachesDeadline(week') <=> remaining_working_days' = 0
  <2>1. (ReachesDeadline(week) <=> remaining_working_days = 0)'
    BY DaysLeft, PTL
  <2> QED  BY <2>1, DaysLeft DEF ReachesDeadline
<1>2. (Outcome = "deadline_reached")' => ReachesDeadline(week')
  BY <1>1 DEF Outcome
<1>3. CASE CloseWeek
  <2>1. week' = week + 1 /\ stage = "close" /\ stage' \in {"idle", "finished"}
        /\ (stage' = "idle" <=> (Outcome = "active")')
    BY <1>3 DEF CloseWeek
  <2>2. ~ReachesDeadline(week' - 1)
    <3>1. week' - 1 = week
      BY <2>1 DEF Inv, PoolInv, TypeOK
    <3> QED  BY <2>1, <3>1 DEF OverByTheDeadline
  <2>3. (Outcome = "active")' => remaining_working_days' # 0
    BY DEF Outcome
  <2> QED  BY <1>1, <1>2, <2>1, <2>2, <2>3 DEF OverByTheDeadline, ReachesDeadline
<1>4. CASE OpenWeek \/ UnitTest \/ FixBugs \/ Develop \/ Integrate
  <2>1. week' = week /\ stage # "finished" /\ stage' # "finished"
    BY <1>4 DEF OpenWeek, UnitTest, FixBugs, Develop, Integrate, calendar
  <2> QED  BY <1>2, <2>1 DEF OverByTheDeadline, ReachesDeadline
<1>5. CASE UNCHANGED vars
  BY <1>5 DEF OverByTheDeadline, ReachesDeadline, Outcome, vars, calendar, pools
<1> QED
  BY <1>3, <1>4, <1>5 DEF Next, Finished

\* For every scenario the deadline is a week: evaluate_outcome lets a run go on
\* before it and never after it, whatever the length of the last week is.
THEOREM DeadlineIsAWeek == Spec => []OverByTheDeadline
<1>1. Init => OverByTheDeadline
  BY CalendarAssumption DEF Init, OverByTheDeadline, ReachesDeadline, Outcome
<1> QED
  BY <1>1, NextOver, Invariance, PTL DEF Spec

=============================================================================
