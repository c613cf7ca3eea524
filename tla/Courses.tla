------------------------------- MODULE Courses -------------------------------
(***************************************************************************)
(* Classes, scenarios and who may start what:                              *)
(* backend/app/classes/service.py, backend/app/scenarios/service.py and    *)
(* the access check of backend/app/simulations/service.py.                 *)
(*                                                                         *)
(* Every operation checks with SELECTs, one after the other, each seeing   *)
(* what is committed at that moment, and then writes its rows and its      *)
(* audit record in one transaction.  So a request is a sequence of reads,  *)
(* `done' of which are done; `found' is the row the latest returned.       *)
(* Between the first write of an operation and its commit nobody else can  *)
(* write, so all it writes is one step.                                    *)
(*                                                                         *)
(* One professor owns everything here.                                     *)
(***************************************************************************)
EXTENDS Integers, Sequences, FiniteSets

CONSTANTS
  Handlers,     \* the requests that can be handled at once
  Classes,      \* ids of classes
  Students,     \* usernames of students
  Scenarios,    \* ids of scenarios
  MaxInserts    \* bound: transactions that insert rows

ASSUME InsertsAssumption == MaxInserts \in Nat

-----------------------------------------------------------------------------
(***************************************************************************)
(* Tables.  Rows have an id no other row of their table ever had: the      *)
(* number of inserts before theirs.                                        *)
(***************************************************************************)
VARIABLES
  db,           \* what is committed
  request,      \* what a handler was asked
  done,         \* how many of its reads are done
  found         \* the row the latest of them returned

vars == <<db, request, done, found>>

NoRequest == [operation |-> "none"]
NoRow == [id |-> 0]

MembershipRows == [id : Nat, class : Classes, student : Students]
RevisionRows == [id : Nat, scenario : Scenarios, number : Nat, status : {"draft", "published"}]
AvailabilityRows == [id : Nat, class : Classes, revision : Nat]
RunRows == [student : Students, class : Classes, revision : Nat]

AuditRecords ==
  ({"class.created", "class.archived"} \X Classes)
    \cup ({"class.student_added", "class.student_removed"} \X Classes \X Students)
    \cup ({"class.scenario_assigned", "class.scenario_unassigned"} \X Classes \X Nat)
    \cup ({"scenario.created", "scenario.archived"} \X Scenarios)
    \cup ({"scenario.revision_created", "scenario.revision_published"} \X Nat)

Tables ==
  [classes : [Classes -> {"absent", "active", "archived"}], users : SUBSET Students,
   members : SUBSET MembershipRows,
   scenarios : [Scenarios -> {"absent", "active", "archived"}],
   revisions : SUBSET RevisionRows, availability : SUBSET AvailabilityRows,
   runs : SUBSET RunRows, audit : SUBSET AuditRecords, inserts : Nat]

EmptyTables(users) ==
  [classes |-> [c \in Classes |-> "absent"], users |-> users, members |-> {},
   scenarios |-> [s \in Scenarios |-> "absent"], revisions |-> {}, availability |-> {},
   runs |-> {}, audit |-> {}, inserts |-> 1]

Memberships(class, student) ==
  {m \in db.members : m.class = class /\ m.student = student}

Assignments(class, revision) ==
  {a \in db.availability : a.class = class /\ a.revision = revision}

RevisionsOf(scenario) == {v \in db.revisions : v.scenario = scenario}

\* Mutants: a unique constraint is missing.
NoMembershipTaken(rows) == FALSE
NoNumberTaken(row) == FALSE

MembershipTaken(rows) == \E m \in rows : Memberships(m.class, m.student) # {}

NumberTaken(row) == \E v \in RevisionsOf(row.scenario) : v.number = row.number

-----------------------------------------------------------------------------
(***************************************************************************)
(* Requests and what they read.                                            *)
(***************************************************************************)
InsertRequests ==
  [operation : {"import_students"}, class : Classes, students : (SUBSET Students) \ {{}}]
    \cup [operation : {"add_student"}, class : Classes, student : Students]
    \cup [operation : {"assign_scenario"}, class : Classes, revision : {v.id : v \in db.revisions}]
    \cup [operation : {"create_revision"}, scenario : Scenarios]

OtherRequests ==
  [operation : {"archive_class"}, class : Classes]
    \cup [operation : {"remove_student"}, class : Classes, student : Students]
    \cup [operation : {"unassign_scenario"}, class : Classes, revision : {v.id : v \in db.revisions}]
    \cup [operation : {"publish_revision"}, scenario : Scenarios,
          number : {v.number : v \in db.revisions}]
    \cup [operation : {"archive_scenario"}, scenario : Scenarios]
    \cup [operation : {"start_run"}, student : db.users, revision : {v.id : v \in db.revisions}]

Reads(r) ==
  IF r.operation = "archive_class" THEN <<"active_class">>
  ELSE IF r.operation = "import_students" THEN <<"active_class", "new_usernames">>
  ELSE IF r.operation = "add_student" THEN <<"active_class", "student", "no_membership">>
  ELSE IF r.operation = "remove_student" THEN <<"active_class", "membership">>
  ELSE IF r.operation = "assign_scenario" THEN
         <<"active_class", "published_revision", "active_scenario", "no_assignment">>
  ELSE IF r.operation = "unassign_scenario" THEN <<"active_class", "assignment">>
  ELSE IF r.operation = "create_revision" THEN <<"active_scenario", "latest_revision">>
  ELSE IF r.operation = "publish_revision" THEN <<"active_scenario", "draft_revision">>
  ELSE IF r.operation = "archive_scenario" THEN <<"active_scenario">>
  ELSE \* start_run
       <<"published_revision", "active_scenario", "access">>

\* A request for an exact revision is also about its scenario.
ScenariosOf(r) ==
  IF r.operation \in {"assign_scenario", "start_run"}
  THEN {v.scenario : v \in {v \in db.revisions : v.id = r.revision}}
  ELSE {r.scenario}

LatestRevision(scenario) ==
  {v \in RevisionsOf(scenario) : \A u \in RevisionsOf(scenario) : u.number <= v.number}

\* Mutant: whose classes they are is not asked.
AnyAssignedClass(student, revision) ==
  {c \in Classes : db.classes[c] = "active" /\ Assignments(c, revision) # {}}

\* The active classes through which a student may start a revision.
AccessibleClasses(student, revision) ==
  {c \in Classes : /\ db.classes[c] = "active"
                   /\ Memberships(c, student) # {}
                   /\ Assignments(c, revision) # {}}

\* What a read returns; with nothing the operation ends there, refused or
\* because there is nothing left to do.
Rows(read, r) ==
  IF read = "active_class" THEN {c \in {r.class} : db.classes[c] = "active"}
  ELSE IF read = "new_usernames" THEN {c \in {r.class} : r.students \cap db.users = {}}
  ELSE IF read = "student" THEN {r.student} \cap db.users
  ELSE IF read = "no_membership" THEN {c \in {r.class} : Memberships(c, r.student) = {}}
  ELSE IF read = "membership" THEN Memberships(r.class, r.student)
  ELSE IF read = "published_revision" THEN
         {v \in db.revisions : v.id = r.revision /\ v.status = "published"}
  ELSE IF read = "active_scenario" THEN {s \in ScenariosOf(r) : db.scenarios[s] = "active"}
  ELSE IF read = "no_assignment" THEN {c \in {r.class} : Assignments(c, r.revision) = {}}
  ELSE IF read = "assignment" THEN Assignments(r.class, r.revision)
  ELSE IF read = "latest_revision" THEN LatestRevision(r.scenario)
  ELSE IF read = "draft_revision" THEN
         {v \in RevisionsOf(r.scenario) : v.number = r.number /\ v.status = "draft"}
  ELSE \* access
       AccessibleClasses(r.student, r.revision)

-----------------------------------------------------------------------------
Init ==
  /\ \E users \in SUBSET Students : db = EmptyTables(users)
  /\ request = [h \in Handlers |-> NoRequest]
  /\ done = [h \in Handlers |-> 0]
  /\ found = [h \in Handlers |-> NoRow]

Ask(h) ==
  /\ request[h] = NoRequest
  /\ \E r \in OtherRequests \cup (IF db.inserts <= MaxInserts THEN InsertRequests ELSE {}) :
       request' = [request EXCEPT ![h] = r]
  /\ UNCHANGED <<db, done, found>>

Finish(h) ==
  /\ request' = [request EXCEPT ![h] = NoRequest]
  /\ done' = [done EXCEPT ![h] = 0]
  /\ found' = [found EXCEPT ![h] = NoRow]

Read(h) ==
  /\ request[h] # NoRequest
  /\ done[h] < Len(Reads(request[h]))
  /\ LET rows == Rows(Reads(request[h])[done[h] + 1], request[h])
     IN  \/ /\ rows = {}
            /\ Finish(h)
         \/ \E row \in rows :
              /\ found' = [found EXCEPT ![h] = row]
              /\ done' = [done EXCEPT ![h] = @ + 1]
              /\ UNCHANGED request
  /\ UNCHANGED db

\* The process dies before the commit.
Fail(h) ==
  /\ request[h] # NoRequest
  /\ Finish(h)
  /\ UNCHANGED db

-----------------------------------------------------------------------------
(***************************************************************************)
(* Transactions: one for each operation, after all its reads.              *)
(***************************************************************************)
Committing(h, operation) ==
  /\ request[h].operation = operation
  /\ done[h] = Len(Reads(request[h]))

\* The row inserts made together, with their audit records, unless a unique
\* constraint refuses one of them.
Insert(taken, tables) == db' = IF taken THEN db ELSE [tables EXCEPT !.inserts = @ + 1]

CreateClass ==
  /\ \E c \in Classes :
       /\ db.classes[c] = "absent"
       /\ db' = [db EXCEPT !.classes[c] = "active", !.audit = @ \cup {<<"class.created", c>>}]
  /\ UNCHANGED <<request, done, found>>

ArchiveClass(h) ==
  /\ Committing(h, "archive_class")
  /\ db' = [db EXCEPT !.classes[request[h].class] = "archived",
                      !.audit = @ \cup {<<"class.archived", request[h].class>>}]
  /\ Finish(h)

\* All accounts and memberships are created, or none.  The one record of an import,
\* class.students_imported, names all its students; it is kept as one element for each.
ImportStudents(h) ==
  /\ Committing(h, "import_students")
  /\ LET r == request[h]
     IN  Insert(r.students \cap db.users # {},
           [db EXCEPT !.users = @ \cup r.students,
              !.members = @ \cup [id : {db.inserts}, class : {r.class}, student : r.students],
              !.audit = @ \cup {<<"class.student_added", r.class, s>> : s \in r.students}])
  /\ Finish(h)

AddStudent(h) ==
  /\ Committing(h, "add_student")
  /\ LET r == request[h]
         row == [id |-> db.inserts, class |-> r.class, student |-> r.student]
     IN  Insert(MembershipTaken({row}),
           [db EXCEPT !.members = @ \cup {row},
                      !.audit = @ \cup {<<"class.student_added", r.class, r.student>>}])
  /\ Finish(h)

\* Mutants: removals are not recorded; the ids of the record are swapped.
Unrecorded(action, class, subject) == {}
SwappedIds(action, class, subject) == {<<action, subject, class>>}

Recorded(action, class, subject) == {<<action, class, subject>>}

\* The row that was found is deleted by its id, if it is still there.
RemoveStudent(h) ==
  /\ Committing(h, "remove_student")
  /\ db' = [db EXCEPT !.members = @ \ {found[h]},
              !.audit = @ \cup
                 Recorded("class.student_removed", request[h].class, request[h].student)]
  /\ Finish(h)

AssignScenario(h) ==
  /\ Committing(h, "assign_scenario")
  /\ LET r == request[h]
     IN  Insert(Assignments(r.class, r.revision) # {},
           [db EXCEPT !.availability =
                        @ \cup {[id |-> db.inserts, class |-> r.class, revision |-> r.revision]},
                      !.audit = @ \cup {<<"class.scenario_assigned", r.class, r.revision>>}])
  /\ Finish(h)

UnassignScenario(h) ==
  /\ Committing(h, "unassign_scenario")
  /\ db' = [db EXCEPT !.availability = @ \ {found[h]},
              !.audit = @ \cup
                 Recorded("class.scenario_unassigned", request[h].class, request[h].revision)]
  /\ Finish(h)

CreateScenario ==
  /\ db.inserts <= MaxInserts
  /\ \E s \in Scenarios :
       /\ db.scenarios[s] = "absent"
       /\ Insert(FALSE,
            [db EXCEPT !.scenarios[s] = "active",
               !.revisions = @ \cup
                  {[id |-> db.inserts, scenario |-> s, number |-> 1, status |-> "draft"]},
               !.audit = @ \cup {<<"scenario.created", s>>}])
  /\ UNCHANGED <<request, done, found>>

\* The number is one more than the latest that was read.
CreateRevision(h) ==
  /\ Committing(h, "create_revision")
  /\ LET row == [id |-> db.inserts, scenario |-> request[h].scenario,
                 number |-> found[h].number + 1, status |-> "draft"]
     IN  Insert(NumberTaken(row),
           [db EXCEPT !.revisions = @ \cup {row},
                      !.audit = @ \cup {<<"scenario.revision_created", row.id>>}])
  /\ Finish(h)

PublishRevision(h) ==
  /\ Committing(h, "publish_revision")
  /\ db' = [db EXCEPT
              !.revisions = {IF v.id = found[h].id THEN [v EXCEPT !.status = "published"] ELSE v :
                               v \in @},
              !.audit = @ \cup {<<"scenario.revision_published", found[h].id>>}]
  /\ Finish(h)

ArchiveScenario(h) ==
  /\ Committing(h, "archive_scenario")
  /\ db' = [db EXCEPT !.scenarios[request[h].scenario] = "archived",
                      !.audit = @ \cup {<<"scenario.archived", request[h].scenario>>}]
  /\ Finish(h)

\* The run records the class that gave access.  Its life is SimulationRuns.
StartRun(h) ==
  /\ Committing(h, "start_run")
  /\ db' = [db EXCEPT !.runs = @ \cup
              {[student |-> request[h].student, class |-> found[h], revision |-> request[h].revision]}]
  /\ Finish(h)

\* What the server does with a request.
Handle(h) ==
  \/ Read(h)
  \/ ArchiveClass(h) \/ ImportStudents(h) \/ AddStudent(h) \/ RemoveStudent(h)
  \/ AssignScenario(h) \/ UnassignScenario(h)
  \/ CreateRevision(h) \/ PublishRevision(h) \/ ArchiveScenario(h) \/ StartRun(h)

Next == CreateClass \/ CreateScenario \/ \E h \in Handlers : Ask(h) \/ Handle(h) \/ Fail(h)

Spec == Init /\ [][Next]_vars

\* The server finishes what it started.
FairSpec == Spec /\ \A h \in Handlers : WF_vars(Handle(h))

-----------------------------------------------------------------------------
(***************************************************************************)
(* Properties, whatever interleaves.                                       *)
(***************************************************************************)
Requests ==
  [operation : {"import_students"}, class : Classes, students : SUBSET Students]
    \cup [operation : {"add_student", "remove_student"}, class : Classes, student : Students]
    \cup [operation : {"assign_scenario", "unassign_scenario"}, class : Classes, revision : Nat]
    \cup [operation : {"create_revision", "archive_scenario"}, scenario : Scenarios]
    \cup [operation : {"archive_class"}, class : Classes]
    \cup [operation : {"publish_revision"}, scenario : Scenarios, number : Nat]
    \cup [operation : {"start_run"}, student : Students, revision : Nat]

TypeOK ==
  /\ db \in Tables
  /\ request \in [Handlers -> Requests \cup {NoRequest}]
  /\ done \in [Handlers -> Nat]
  /\ found \in [Handlers -> Classes \cup Students \cup Scenarios \cup MembershipRows
                              \cup RevisionRows \cup AvailabilityRows \cup {NoRow}]

\* The revisions of a scenario are numbered from 1 without gaps and no number
\* is given twice, although each number is computed from an earlier read.
NumbersWithoutGaps ==
  \A s \in Scenarios :
    db.scenarios[s] # "absent" =>
      /\ RevisionsOf(s) # {}
      /\ {v.number : v \in RevisionsOf(s)} = 1 .. Cardinality(RevisionsOf(s))

\* Nobody is twice in a class, so that removing a student once is enough.
MembersOnce ==
  \A c \in Classes, s \in Students : \A m, n \in Memberships(c, s) : m = n

\* Every run was started by a student who had been added to the class of the
\* run, to play a published revision that had been assigned to that class.
RunsHadAccess ==
  \A run \in db.runs :
    /\ <<"class.student_added", run.class, run.student>> \in db.audit
    /\ <<"class.scenario_assigned", run.class, run.revision>> \in db.audit
    /\ \E v \in db.revisions : v.id = run.revision /\ v.status = "published"

\* The audit accounts for what is there and for what is gone: whoever was added
\* to a class is in it or was removed, and so for assignments.
Accounted ==
  /\ \A c \in Classes, s \in Students :
       /\ Memberships(c, s) # {} => <<"class.student_added", c, s>> \in db.audit
       /\ <<"class.student_added", c, s>> \in db.audit
            => Memberships(c, s) # {} \/ <<"class.student_removed", c, s>> \in db.audit
  /\ \A c \in Classes, v \in db.revisions :
       /\ Assignments(c, v.id) # {} => <<"class.scenario_assigned", c, v.id>> \in db.audit
       /\ <<"class.scenario_assigned", c, v.id>> \in db.audit
            => Assignments(c, v.id) # {} \/ <<"class.scenario_unassigned", c, v.id>> \in db.audit
  /\ \A v \in db.revisions :
       /\ v.status = "published" <=> <<"scenario.revision_published", v.id>> \in db.audit
       /\ v.number > 1 => <<"scenario.revision_created", v.id>> \in db.audit

-----------------------------------------------------------------------------
(***************************************************************************)
(* What the documentation says and the code does not keep.                 *)
(***************************************************************************)

\* "Archived classes [...] reject operations that require an active class":
\* members and assignments of an archived class do not change.
ArchivedRejects ==
  [][\A c \in Classes : db.classes[c] = "archived" =>
       /\ {m \in db'.members : m.class = c} = {m \in db.members : m.class = c}
       /\ {a \in db'.availability : a.class = c} = {a \in db.availability : a.class = c}]_vars

=============================================================================
