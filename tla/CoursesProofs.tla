--------------------------- MODULE CoursesProofs ---------------------------
(***************************************************************************)
(* Invariants of Courses for any number of handlers, classes, students and *)
(* scenarios.  They rest on what a handler has established by its reads    *)
(* that no other handler can take back: a student's account is never       *)
(* deleted, a revision stays published, and the audit only grows.  The     *)
(* second half adds what a transaction relied on when it read: the audit   *)
(* is complete, and revisions are numbered without gaps.                   *)
(***************************************************************************)
EXTENDS Courses, FiniteSetTheorems, TLAPS

IsPublished(id) == \E v \in db.revisions : v.id = id /\ v.status = "published"

HadAccess(class, student, revision) ==
  /\ <<"class.student_added", class, student>> \in db.audit
  /\ <<"class.scenario_assigned", class, revision>> \in db.audit

\* Every row of a membership or an assignment is in the audit, and members
\* have accounts, which is why an import cannot add a member twice.
TableInv ==
  /\ MembersOnce
  /\ \A m \in db.members :
       /\ m.student \in db.users
       /\ <<"class.student_added", m.class, m.student>> \in db.audit
  /\ \A a \in db.availability : <<"class.scenario_assigned", a.class, a.revision>> \in db.audit
  /\ \A run \in db.runs :
       HadAccess(run.class, run.student, run.revision) /\ IsPublished(run.revision)

\* What the reads done so far have established.
Established(h) ==
  /\ request[h] = NoRequest => done[h] = 0
  /\ (request[h].operation = "add_student" /\ done[h] >= 2) => request[h].student \in db.users
  /\ (request[h].operation \in {"create_revision", "publish_revision"} /\ done[h] >= 2)
       => found[h] \in RevisionRows
  /\ (request[h].operation = "start_run" /\ done[h] >= 1) => IsPublished(request[h].revision)
  /\ (request[h].operation = "start_run" /\ done[h] >= 3)
       => found[h] \in Classes /\ HadAccess(found[h], request[h].student, request[h].revision)

Inv == TypeOK /\ TableInv /\ \A h \in Handlers : Established(h)

\* Nothing that a read established is taken back.
Grows ==
  /\ db.users \subseteq db'.users
  /\ db.audit \subseteq db'.audit
  /\ \A id : IsPublished(id) => IsPublished(id)'

-----------------------------------------------------------------------------

\* The end of an operation leaves what the other handlers have established.
LEMMA FinishKeeps ==
  ASSUME NEW h \in Handlers, TypeOK, \A k \in Handlers : Established(k), Grows, Finish(h)
  PROVE  \A k \in Handlers : Established(k)'
<1> TAKE k \in Handlers
<1>1. CASE k = h
  <2>1. request'[k] = NoRequest /\ done'[k] = 0
    BY <1>1 DEF Finish, TypeOK
  <2> QED
    BY <2>1 DEF Established, NoRequest
<1>2. CASE k # h
  <2>1. request'[k] = request[k] /\ done'[k] = done[k] /\ found'[k] = found[k]
    BY <1>2 DEF Finish, TypeOK
  <2>2. Established(k)
    OBVIOUS
  <2> QED
    BY <2>1, <2>2 DEF Established, Grows, HadAccess
<1> QED
  BY <1>1, <1>2

\* Nor does a step that leaves all handlers alone.
LEMMA OthersKeep ==
  ASSUME \A k \in Handlers : Established(k), Grows, UNCHANGED <<request, done, found>>
  PROVE  \A k \in Handlers : Established(k)'
<1> TAKE k \in Handlers
<1>1. Established(k)
  OBVIOUS
<1> QED
  BY <1>1 DEF Established, Grows, HadAccess

\* A finished handler is typed.
LEMMA FinishTyped ==
  ASSUME NEW h \in Handlers, TypeOK, Finish(h)
  PROVE  /\ request' \in [Handlers -> Requests \cup {NoRequest}]
         /\ done' \in [Handlers -> Nat]
         /\ found' \in [Handlers -> Classes \cup Students \cup Scenarios \cup MembershipRows
                                      \cup RevisionRows \cup AvailabilityRows \cup {NoRow}]
BY DEF TypeOK, Finish

\* Tables that lose members and assignments keep their invariants.
LEMMA TablesKept ==
  ASSUME TableInv, Grows,
         db'.members \subseteq db.members, db'.availability \subseteq db.availability,
         db'.runs = db.runs
  PROVE  TableInv'
<1>1. MembersOnce'
  BY DEF TableInv, MembersOnce, Memberships
<1>2. \A m \in db'.members :
        /\ m.student \in db'.users
        /\ <<"class.student_added", m.class, m.student>> \in db'.audit
  BY DEF TableInv, Grows
<1>3. \A a \in db'.availability :
        <<"class.scenario_assigned", a.class, a.revision>> \in db'.audit
  BY DEF TableInv, Grows
<1>4. \A run \in db'.runs :
        HadAccess(run.class, run.student, run.revision)' /\ IsPublished(run.revision)'
  BY DEF TableInv, Grows, HadAccess
<1> QED
  BY <1>1, <1>2, <1>3, <1>4 DEF TableInv

-----------------------------------------------------------------------------

\* What a read of an operation can return.
Findable ==
  Classes \cup Students \cup Scenarios \cup MembershipRows \cup RevisionRows
    \cup AvailabilityRows \cup {NoRow}

LEMMA RowsTyped ==
  ASSUME TypeOK, NEW r \in Requests, NEW n \in 1 .. Len(Reads(r)),
         NEW row \in Rows(Reads(r)[n], r)
  PROVE  row \in Findable
<1>1. CASE r.operation = "import_students"
  <2>1. Reads(r) = <<"active_class", "new_usernames">> /\ r.class \in Classes
    BY <1>1 DEF Reads, Requests
  <2> QED
    BY <2>1 DEF Rows, Findable
<1>2. CASE r.operation = "add_student"
  <2>1. /\ Reads(r) = <<"active_class", "student", "no_membership">>
        /\ r.class \in Classes /\ r.student \in Students
    BY <1>2 DEF Reads, Requests
  <2> QED
    BY <2>1 DEF Rows, Findable
<1>3. CASE r.operation = "remove_student"
  <2>1. Reads(r) = <<"active_class", "membership">> /\ r.class \in Classes
    BY <1>3 DEF Reads, Requests
  <2> QED
    BY <2>1 DEF Rows, Findable, Memberships, TypeOK, Tables
<1>4. CASE r.operation = "assign_scenario"
  <2>1. /\ Reads(r) = <<"active_class", "published_revision", "active_scenario", "no_assignment">>
        /\ r.class \in Classes
        /\ ScenariosOf(r) = {v.scenario : v \in {v \in db.revisions : v.id = r.revision}}
    BY <1>4 DEF Reads, Requests, ScenariosOf
  <2> QED
    BY <2>1 DEF Rows, Findable, RevisionRows, TypeOK, Tables
<1>5. CASE r.operation = "unassign_scenario"
  <2>1. Reads(r) = <<"active_class", "assignment">> /\ r.class \in Classes
    BY <1>5 DEF Reads, Requests
  <2> QED
    BY <2>1 DEF Rows, Findable, Assignments, TypeOK, Tables
<1>6. CASE r.operation = "create_revision"
  <2>1. /\ Reads(r) = <<"active_scenario", "latest_revision">>
        /\ r.scenario \in Scenarios /\ ScenariosOf(r) = {r.scenario}
    BY <1>6 DEF Reads, Requests, ScenariosOf
  <2> QED
    BY <2>1 DEF Rows, Findable, LatestRevision, RevisionsOf, TypeOK, Tables
<1>7. CASE r.operation = "publish_revision"
  <2>1. /\ Reads(r) = <<"active_scenario", "draft_revision">>
        /\ r.scenario \in Scenarios /\ ScenariosOf(r) = {r.scenario}
    BY <1>7 DEF Reads, Requests, ScenariosOf
  <2> QED
    BY <2>1 DEF Rows, Findable, RevisionsOf, TypeOK, Tables
<1>8. CASE r.operation = "archive_scenario"
  <2>1. /\ Reads(r) = <<"active_scenario">>
        /\ r.scenario \in Scenarios /\ ScenariosOf(r) = {r.scenario}
    BY <1>8 DEF Reads, Requests, ScenariosOf
  <2> QED
    BY <2>1 DEF Rows, Findable
<1>9. CASE r.operation = "archive_class"
  <2>1. Reads(r) = <<"active_class">> /\ r.class \in Classes
    BY <1>9 DEF Reads, Requests
  <2> QED
    BY <2>1 DEF Rows, Findable
<1>10. CASE r.operation = "start_run"
  <2>1. /\ Reads(r) = <<"published_revision", "active_scenario", "access">>
        /\ ScenariosOf(r) = {v.scenario : v \in {v \in db.revisions : v.id = r.revision}}
    BY <1>10 DEF Reads, ScenariosOf
  <2> QED
    BY <2>1 DEF Rows, Findable, AccessibleClasses, RevisionRows, TypeOK, Tables
<1> QED
  BY <1>1, <1>2, <1>3, <1>4, <1>5, <1>6, <1>7, <1>8, <1>9, <1>10 DEF Requests

\* A step that leaves the tables alone takes nothing back.
LEMMA SameTables ==
  ASSUME TableInv, UNCHANGED db
  PROVE  TableInv' /\ Grows
<1>1. Grows
  BY DEF Grows, IsPublished
<1> QED
  BY <1>1, TablesKept

LEMMA ReadKeeps ==
  ASSUME Inv, NEW h \in Handlers, Read(h)
  PROVE  Inv'
<1> PICK r, n : r = request[h] /\ n = done[h] + 1
  OBVIOUS
<1>1. TableInv' /\ Grows
  BY SameTables DEF Read, Inv
<1>2. CASE Finish(h)
  <2>1. TypeOK'
    BY <1>2, FinishTyped DEF Inv, TypeOK, Read
  <2>2. \A k \in Handlers : Established(k)'
    BY <1>1, <1>2, FinishKeeps DEF Inv
  <2> QED
    BY <1>1, <2>1, <2>2 DEF Inv
<1>3. CASE \E row \in Rows(Reads(r)[n], r) :
             /\ found' = [found EXCEPT ![h] = row]
             /\ done' = [done EXCEPT ![h] = @ + 1]
             /\ UNCHANGED request
  <2>1. PICK row \in Rows(Reads(r)[n], r) :
          /\ found' = [found EXCEPT ![h] = row]
          /\ done' = [done EXCEPT ![h] = @ + 1]
          /\ UNCHANGED request
    BY <1>3
  <2>2. r \in Requests /\ done[h] \in Nat /\ n \in 1 .. Len(Reads(r))
    <3>1. r \in Requests /\ done[h] \in Nat /\ done[h] < Len(Reads(r))
      BY DEF Inv, TypeOK, Read
    <3>2. Len(Reads(r)) \in Nat
      BY <3>1 DEF Requests, Reads
    <3> QED
      BY <3>1, <3>2
  <2>3. row \in Findable
    BY <2>2, RowsTyped DEF Inv
  <2>4. TypeOK'
    BY <2>1, <2>2, <2>3 DEF Inv, TypeOK, Read, Findable
  <2>5. ASSUME NEW k \in Handlers, k # h
        PROVE  Established(k)'
    <3>1. found'[k] = found[k] /\ done'[k] = done[k] /\ request'[k] = request[k]
      BY <2>1, <2>5 DEF Inv, TypeOK
    <3>2. Established(k)
      BY DEF Inv
    <3> QED
      BY <1>1, <3>1, <3>2 DEF Established, Grows, HadAccess
  <2>6. Established(h)'
    <3>1. found'[h] = row /\ done'[h] = n /\ request'[h] = r /\ r # NoRequest
      BY <2>1 DEF Inv, TypeOK, Read
    <3>2. ASSUME r.operation = "add_student", n >= 2
          PROVE  r.student \in db'.users
      <4>1. CASE n = 2
        <5>1. Reads(r)[n] = "student"
          BY <3>2, <4>1 DEF Reads
        <5> QED
          BY <5>1, <1>1 DEF Rows, Grows
      <4>2. CASE n > 2
        <5>1. done[h] >= 2
          BY <2>2, <4>2
        <5> QED
          BY <5>1, <3>2, <1>1 DEF Inv, Established, Grows
      <4> QED
        BY <3>2, <4>1, <4>2, <2>2
    <3>3. ASSUME r.operation \in {"create_revision", "publish_revision"}, n >= 2
          PROVE  row \in RevisionRows
      <4>1. n = 2 /\ Reads(r)[n] \in {"latest_revision", "draft_revision"}
        BY <3>3, <2>2 DEF Reads
      <4>2. row \in db.revisions
        BY <4>1 DEF Rows, LatestRevision, RevisionsOf
      <4> QED
        BY <4>2 DEF Inv, TypeOK, Tables
    <3>4. ASSUME r.operation = "start_run", n >= 1
          PROVE  IsPublished(r.revision)'
      <4>1. CASE n = 1
        <5>1. Reads(r)[n] = "published_revision"
          BY <3>4, <4>1 DEF Reads
        <5>2. row \in db.revisions /\ row.id = r.revision /\ row.status = "published"
          BY <5>1 DEF Rows
        <5> QED
          BY <5>2, <1>1 DEF IsPublished, Grows
      <4>2. CASE n > 1
        <5>1. done[h] >= 1
          BY <2>2, <4>2
        <5> QED
          BY <5>1, <3>4, <1>1 DEF Inv, Established, Grows
      <4> QED
        BY <3>4, <4>1, <4>2, <2>2
    <3>5. ASSUME r.operation = "start_run", n >= 3
          PROVE  row \in Classes /\ HadAccess(row, r.student, r.revision)'
      <4>1. n = 3 /\ Reads(r)[n] = "access"
        BY <3>5, <2>2 DEF Reads
      <4>2. row \in AccessibleClasses(r.student, r.revision)
        BY <4>1 DEF Rows
      <4>3. /\ row \in Classes
            /\ \E m \in db.members : m.class = row /\ m.student = r.student
            /\ \E a \in db.availability : a.class = row /\ a.revision = r.revision
        BY <4>2 DEF AccessibleClasses, Memberships, Assignments
      <4>4. HadAccess(row, r.student, r.revision)
        BY <4>3 DEF HadAccess, Inv, TableInv
      <4> QED
        BY <4>3, <4>4, <1>1 DEF HadAccess, Grows
    <3> QED
      BY <3>1, <3>2, <3>3, <3>4, <3>5, <2>2 DEF Established
  <2> QED
    BY <1>1, <2>4, <2>5, <2>6 DEF Inv
<1> QED
  BY <1>2, <1>3 DEF Read

-----------------------------------------------------------------------------

\* A transaction that keeps the tables and takes nothing back keeps all.
LEMMA CommitKeeps ==
  ASSUME Inv, NEW h \in Handlers, Finish(h), db' \in Tables, TableInv', Grows
  PROVE  Inv'
<1>1. TypeOK'
  BY FinishTyped DEF Inv, TypeOK
<1>2. \A k \in Handlers : Established(k)'
  BY FinishKeeps DEF Inv
<1> QED
  BY <1>1, <1>2 DEF Inv

LEMMA FailKeeps ==
  ASSUME Inv, NEW h \in Handlers, Fail(h)
  PROVE  Inv'
<1>1. TableInv' /\ Grows
  BY SameTables DEF Inv, Fail
<1>2. db' \in Tables
  BY DEF Inv, TypeOK, Fail
<1> QED
  BY <1>1, <1>2, CommitKeeps DEF Fail

\* A request that is asked has nothing established yet.
LEMMA AskKeeps ==
  ASSUME Inv, NEW h \in Handlers, Ask(h)
  PROVE  Inv'
<1>1. TableInv' /\ Grows
  BY SameTables DEF Inv, Ask
<1>2. PICK r \in OtherRequests \cup InsertRequests : request' = [request EXCEPT ![h] = r]
  BY DEF Ask
<1>3. r \in Requests
  BY DEF InsertRequests, OtherRequests, Requests, Inv, TypeOK, Tables, RevisionRows
<1>4. TypeOK'
  BY <1>2, <1>3 DEF Inv, TypeOK, Ask
<1>5. ASSUME NEW k \in Handlers
      PROVE  Established(k)'
  <2>1. Established(k)
    BY DEF Inv
  <2>2. CASE k = h
    <3>1. done'[k] = 0
      BY <2>1, <2>2 DEF Ask, Established
    <3> QED
      BY <3>1 DEF Established
  <2>3. CASE k # h
    <3>1. request'[k] = request[k] /\ done'[k] = done[k] /\ found'[k] = found[k]
      BY <1>2, <2>3 DEF Ask, Inv, TypeOK
    <3> QED
      BY <1>1, <2>1, <3>1 DEF Established, Grows, HadAccess
  <2> QED
    BY <2>2, <2>3
<1> QED
  BY <1>1, <1>4, <1>5 DEF Inv

LEMMA CreateClassKeeps ==
  ASSUME Inv, CreateClass
  PROVE  Inv'
<1>1. PICK c \in Classes :
        db' = [db EXCEPT !.classes[c] = "active", !.audit = @ \cup {<<"class.created", c>>}]
  BY DEF CreateClass
<1>2. db \in Tables
  BY DEF Inv, TypeOK
<1>3. /\ db' \in Tables
      /\ db'.users = db.users /\ db'.members = db.members
      /\ db'.revisions = db.revisions /\ db'.availability = db.availability
      /\ db'.runs = db.runs /\ db.audit \subseteq db'.audit
  <2>1. [db.classes EXCEPT ![c] = "active"] \in [Classes -> {"absent", "active", "archived"}]
    BY <1>2 DEF Tables
  <2>2. db.audit \cup {<<"class.created", c>>} \in SUBSET AuditRecords
    BY <1>2 DEF Tables, AuditRecords
  <2> QED
    BY <1>1, <1>2, <2>1, <2>2 DEF Tables
<1>4. Grows
  BY <1>3 DEF Grows, IsPublished
<1>5. TableInv'
  BY <1>3, <1>4, TablesKept DEF Inv
<1>6. \A k \in Handlers : Established(k)'
  BY <1>4, OthersKeep DEF Inv, CreateClass
<1> QED
  BY <1>3, <1>5, <1>6 DEF Inv, TypeOK, CreateClass

LEMMA CreateScenarioKeeps ==
  ASSUME Inv, CreateScenario
  PROVE  Inv'
<1>1. PICK s \in Scenarios :
        db' = [[db EXCEPT !.scenarios[s] = "active",
                  !.revisions = @ \cup
                     {[id |-> db.inserts, scenario |-> s, number |-> 1, status |-> "draft"]},
                  !.audit = @ \cup {<<"scenario.created", s>>}] EXCEPT !.inserts = @ + 1]
  BY DEF CreateScenario, Insert
<1>2. db \in Tables
  BY DEF Inv, TypeOK
<1>3. /\ db' \in Tables
      /\ db'.users = db.users /\ db'.members = db.members
      /\ db.revisions \subseteq db'.revisions /\ db'.availability = db.availability
      /\ db'.runs = db.runs /\ db.audit \subseteq db'.audit
  <2>1. [db.scenarios EXCEPT ![s] = "active"] \in [Scenarios -> {"absent", "active", "archived"}]
    BY <1>2 DEF Tables
  <2>2. db.audit \cup {<<"scenario.created", s>>} \in SUBSET AuditRecords
    BY <1>2 DEF Tables, AuditRecords
  <2>3. db.revisions \cup {[id |-> db.inserts, scenario |-> s, number |-> 1, status |-> "draft"]}
          \in SUBSET RevisionRows
    BY <1>2 DEF Tables, RevisionRows
  <2>4. db.inserts + 1 \in Nat
    BY <1>2 DEF Tables
  <2> QED
    BY <1>1, <1>2, <2>1, <2>2, <2>3, <2>4 DEF Tables
<1>4. Grows
  BY <1>3 DEF Grows, IsPublished
<1>5. TableInv'
  BY <1>3, <1>4, TablesKept DEF Inv
<1>6. \A k \in Handlers : Established(k)'
  BY <1>4, OthersKeep DEF Inv, CreateScenario
<1> QED
  BY <1>3, <1>5, <1>6 DEF Inv, TypeOK, CreateScenario

\* What the operations carry with them.
LEMMA RequestFields ==
  ASSUME TypeOK, NEW h \in Handlers
  PROVE  LET r == request[h]
         IN  /\ db \in Tables
             /\ r.operation \in {"import_students", "add_student", "remove_student", "assign_scenario",
                                "unassign_scenario", "archive_class"} => r.class \in Classes
             /\ r.operation \in {"add_student", "remove_student", "start_run"} => r.student \in Students
             /\ r.operation = "import_students" => r.students \subseteq Students
             /\ r.operation \in {"assign_scenario", "unassign_scenario", "start_run"} => r.revision \in Nat
             /\ r.operation \in {"create_revision", "publish_revision", "archive_scenario"} =>
                  r.scenario \in Scenarios
<1> DEFINE r == request[h]
<1>1. r \in Requests \cup {NoRequest} /\ db \in Tables
  BY DEF TypeOK
<1> HIDE DEF r
<1>2. CASE r = NoRequest
  BY <1>1, <1>2 DEF NoRequest, r
<1>3. CASE r \in Requests
  <2>1. r.operation = "import_students" => r.class \in Classes /\ r.students \subseteq Students
    BY <1>3 DEF Requests
  <2>2. r.operation \in {"add_student", "remove_student"} => r.class \in Classes /\ r.student \in Students
    BY <1>3 DEF Requests
  <2>3. r.operation \in {"assign_scenario", "unassign_scenario"} => r.class \in Classes /\ r.revision \in Nat
    BY <1>3 DEF Requests
  <2>4. r.operation \in {"create_revision", "publish_revision", "archive_scenario"} => r.scenario \in Scenarios
    BY <1>3 DEF Requests
  <2>5. r.operation = "archive_class" => r.class \in Classes
    BY <1>3 DEF Requests
  <2>6. r.operation = "start_run" => r.student \in Students /\ r.revision \in Nat
    BY <1>3 DEF Requests
  <2> QED
    BY <1>1, <2>1, <2>2, <2>3, <2>4, <2>5, <2>6 DEF r
<1> QED
  BY <1>1, <1>2, <1>3

LEMMA ArchiveClassKeeps ==
  ASSUME Inv, NEW h \in Handlers, ArchiveClass(h)
  PROVE  Inv'
<1>1. db \in Tables /\ request[h].class \in Classes
  BY RequestFields DEF Inv, ArchiveClass, Committing
<1>2. /\ db' \in Tables
      /\ db'.users = db.users /\ db'.members = db.members
      /\ db'.revisions = db.revisions /\ db'.availability = db.availability
      /\ db'.runs = db.runs /\ db.audit \subseteq db'.audit
  <2>1. [db.classes EXCEPT ![request[h].class] = "archived"]
          \in [Classes -> {"absent", "active", "archived"}]
    BY <1>1 DEF Tables
  <2>2. db.audit \cup {<<"class.archived", request[h].class>>} \in SUBSET AuditRecords
    BY <1>1 DEF Tables, AuditRecords
  <2> QED
    BY <1>1, <2>1, <2>2 DEF ArchiveClass, Tables
<1>3. Grows
  BY <1>2 DEF Grows, IsPublished
<1>4. TableInv'
  BY <1>2, <1>3, TablesKept DEF Inv
<1> QED
  BY <1>2, <1>3, <1>4, CommitKeeps DEF ArchiveClass

LEMMA ArchiveScenarioKeeps ==
  ASSUME Inv, NEW h \in Handlers, ArchiveScenario(h)
  PROVE  Inv'
<1>1. db \in Tables /\ request[h].scenario \in Scenarios
  BY RequestFields DEF Inv, ArchiveScenario, Committing
<1>2. /\ db' \in Tables
      /\ db'.users = db.users /\ db'.members = db.members
      /\ db'.revisions = db.revisions /\ db'.availability = db.availability
      /\ db'.runs = db.runs /\ db.audit \subseteq db'.audit
  <2>1. [db.scenarios EXCEPT ![request[h].scenario] = "archived"]
          \in [Scenarios -> {"absent", "active", "archived"}]
    BY <1>1 DEF Tables
  <2>2. db.audit \cup {<<"scenario.archived", request[h].scenario>>} \in SUBSET AuditRecords
    BY <1>1 DEF Tables, AuditRecords
  <2> QED
    BY <1>1, <2>1, <2>2 DEF ArchiveScenario, Tables
<1>3. Grows
  BY <1>2 DEF Grows, IsPublished
<1>4. TableInv'
  BY <1>2, <1>3, TablesKept DEF Inv
<1> QED
  BY <1>2, <1>3, <1>4, CommitKeeps DEF ArchiveScenario

LEMMA RemoveStudentKeeps ==
  ASSUME Inv, NEW h \in Handlers, RemoveStudent(h)
  PROVE  Inv'
<1>1. db \in Tables /\ request[h].class \in Classes /\ request[h].student \in Students
  BY RequestFields DEF Inv, RemoveStudent, Committing
<1>2. /\ db' \in Tables
      /\ db'.users = db.users /\ db'.members \subseteq db.members
      /\ db'.revisions = db.revisions /\ db'.availability = db.availability
      /\ db'.runs = db.runs /\ db.audit \subseteq db'.audit
  <2>1. db.members \ {found[h]} \in SUBSET MembershipRows
    BY <1>1 DEF Tables
  <2>2. db.audit \cup {<<"class.student_removed", request[h].class, request[h].student>>}
          \in SUBSET AuditRecords
    BY <1>1 DEF Tables, AuditRecords
  <2> QED
    BY <1>1, <2>1, <2>2 DEF RemoveStudent, Recorded, Tables
<1>3. Grows
  BY <1>2 DEF Grows, IsPublished
<1>4. TableInv'
  BY <1>2, <1>3, TablesKept DEF Inv
<1> QED
  BY <1>2, <1>3, <1>4, CommitKeeps DEF RemoveStudent

LEMMA UnassignScenarioKeeps ==
  ASSUME Inv, NEW h \in Handlers, UnassignScenario(h)
  PROVE  Inv'
<1>1. db \in Tables /\ request[h].class \in Classes /\ request[h].revision \in Nat
  BY RequestFields DEF Inv, UnassignScenario, Committing
<1>2. /\ db' \in Tables
      /\ db'.users = db.users /\ db'.members = db.members
      /\ db'.revisions = db.revisions /\ db'.availability \subseteq db.availability
      /\ db'.runs = db.runs /\ db.audit \subseteq db'.audit
  <2>1. db.availability \ {found[h]} \in SUBSET AvailabilityRows
    BY <1>1 DEF Tables
  <2>2. db.audit \cup {<<"class.scenario_unassigned", request[h].class, request[h].revision>>}
          \in SUBSET AuditRecords
    BY <1>1 DEF Tables, AuditRecords
  <2> QED
    BY <1>1, <2>1, <2>2 DEF UnassignScenario, Recorded, Tables
<1>3. Grows
  BY <1>2 DEF Grows, IsPublished
<1>4. TableInv'
  BY <1>2, <1>3, TablesKept DEF Inv
<1> QED
  BY <1>2, <1>3, <1>4, CommitKeeps DEF UnassignScenario

\* The revision that was found is typed.
LEMMA FoundRevision ==
  ASSUME Inv, NEW h \in Handlers,
         Committing(h, "create_revision") \/ Committing(h, "publish_revision")
  PROVE  found[h] \in RevisionRows /\ request[h].scenario \in Scenarios
<1>1. Established(h) /\ done[h] = 2
  BY DEF Inv, Committing, Reads
<1> QED
  BY <1>1, RequestFields DEF Established, Committing, Inv

LEMMA CreateRevisionKeeps ==
  ASSUME Inv, NEW h \in Handlers, CreateRevision(h)
  PROVE  Inv'
<1> DEFINE row == [id |-> db.inserts, scenario |-> request[h].scenario,
                   number |-> found[h].number + 1, status |-> "draft"]
<1>1. db \in Tables /\ found[h] \in RevisionRows /\ request[h].scenario \in Scenarios
  BY FoundRevision DEF Inv, TypeOK, CreateRevision
<1>2. /\ db' \in Tables
      /\ db'.users = db.users /\ db'.members = db.members
      /\ db.revisions \subseteq db'.revisions /\ db'.availability = db.availability
      /\ db'.runs = db.runs /\ db.audit \subseteq db'.audit
  <2>1. row \in RevisionRows
    BY <1>1 DEF Tables, RevisionRows
  <2>2. db.audit \cup {<<"scenario.revision_created", row.id>>} \in SUBSET AuditRecords
    BY <1>1 DEF Tables, AuditRecords
  <2>3. db.revisions \cup {row} \in SUBSET RevisionRows /\ db.inserts + 1 \in Nat
    BY <1>1, <2>1 DEF Tables
  <2>4. \/ db' = db
        \/ db' = [[db EXCEPT !.revisions = @ \cup {row},
                             !.audit = @ \cup {<<"scenario.revision_created", row.id>>}]
                    EXCEPT !.inserts = @ + 1]
    BY DEF CreateRevision, Insert
  <2>5. CASE db' = db
    BY <1>1, <2>5
  <2>6. CASE db' # db
    <3> HIDE DEF row
    <3>1. db' = [[db EXCEPT !.revisions = @ \cup {row},
                            !.audit = @ \cup {<<"scenario.revision_created", row.id>>}]
                    EXCEPT !.inserts = @ + 1]
      BY <2>4, <2>6
    <3> QED
      BY <1>1, <2>2, <2>3, <3>1 DEF Tables
  <2> QED
    BY <2>5, <2>6
<1>3. Grows
  BY <1>2 DEF Grows, IsPublished
<1>4. TableInv'
  BY <1>2, <1>3, TablesKept DEF Inv
<1> QED
  BY <1>2, <1>3, <1>4, CommitKeeps DEF CreateRevision

LEMMA PublishRevisionKeeps ==
  ASSUME Inv, NEW h \in Handlers, PublishRevision(h)
  PROVE  Inv'
<1> DEFINE After(v) == IF v.id = found[h].id THEN [v EXCEPT !.status = "published"] ELSE v
<1>1. db \in Tables /\ found[h] \in RevisionRows
  BY FoundRevision DEF Inv, TypeOK, PublishRevision
<1>2. \A v \in RevisionRows :
        /\ After(v) \in RevisionRows /\ After(v).id = v.id
        /\ v.status = "published" => After(v).status = "published"
  BY DEF RevisionRows
<1>3. /\ db' \in Tables
      /\ db'.users = db.users /\ db'.members = db.members
      /\ db'.revisions = {After(v) : v \in db.revisions} /\ db'.availability = db.availability
      /\ db'.runs = db.runs /\ db.audit \subseteq db'.audit
  <2>1. {After(v) : v \in db.revisions} \in SUBSET RevisionRows
    BY <1>1, <1>2 DEF Tables
  <2>2. db.audit \cup {<<"scenario.revision_published", found[h].id>>} \in SUBSET AuditRecords
    BY <1>1 DEF Tables, AuditRecords, RevisionRows
  <2>3. db' = [db EXCEPT !.revisions = {After(v) : v \in @},
                 !.audit = @ \cup {<<"scenario.revision_published", found[h].id>>}]
    BY DEF PublishRevision
  <2> HIDE DEF After
  <2> QED
    BY <1>1, <2>1, <2>2, <2>3 DEF Tables
<1>4. Grows
  <2>1. ASSUME NEW id, IsPublished(id)
        PROVE  IsPublished(id)'
    <3>1. PICK v \in db.revisions : v.id = id /\ v.status = "published"
      BY <2>1 DEF IsPublished
    <3>2. After(v) \in db'.revisions /\ After(v).id = id /\ After(v).status = "published"
      <4>1. v \in RevisionRows
        BY <1>1, <3>1 DEF Tables
      <4>2. After(v).id = id /\ After(v).status = "published"
        BY <1>2, <3>1, <4>1
      <4>3. db'.revisions = {After(w) : w \in db.revisions}
        BY <1>3
      <4> HIDE DEF After
      <4> QED
        BY <3>1, <4>2, <4>3
    <3> QED
      BY <3>2 DEF IsPublished
  <2> QED
    BY <1>3, <2>1 DEF Grows
<1>5. TableInv'
  BY <1>3, <1>4, TablesKept DEF Inv
<1> QED
  BY <1>3, <1>4, <1>5, CommitKeeps DEF PublishRevision

-----------------------------------------------------------------------------

\* The unique constraint and the order of the reads keep members unique.
LEMMA AddStudentKeeps ==
  ASSUME Inv, NEW h \in Handlers, AddStudent(h)
  PROVE  Inv'
<1> PICK r, row : r = request[h] /\ row = [id |-> db.inserts, class |-> r.class, student |-> r.student]
  OBVIOUS
<1>1. /\ db \in Tables
      /\ r.class \in Classes /\ r.student \in Students
  BY RequestFields DEF Inv, AddStudent, Committing
<1>2. row \in MembershipRows /\ row.class = r.class /\ row.student = r.student
  BY <1>1 DEF MembershipRows, Tables
<1>3. r.student \in db.users
  <2>1. Established(h) /\ r.operation = "add_student" /\ done[h] = 3
    BY DEF Inv, AddStudent, Committing, Reads
  <2> QED
    BY <2>1 DEF Established
<1>4. CASE db' = db
  <2>1. TableInv' /\ Grows
    BY <1>4, SameTables DEF Inv
  <2> QED
    BY <1>1, <1>4, <2>1, CommitKeeps DEF AddStudent
<1>5. CASE db' # db
  <2>1. /\ Memberships(r.class, r.student) = {}
        /\ db' = [[db EXCEPT !.members = @ \cup {row},
                     !.audit = @ \cup {<<"class.student_added", r.class, r.student>>}]
                    EXCEPT !.inserts = @ + 1]
    BY <1>2, <1>5 DEF AddStudent, Insert, MembershipTaken
  <2>2. /\ db' \in Tables
        /\ db'.users = db.users /\ db'.members = db.members \cup {row}
        /\ db'.revisions = db.revisions /\ db'.availability = db.availability
        /\ db'.runs = db.runs
        /\ db'.audit = db.audit \cup {<<"class.student_added", r.class, r.student>>}
    <3>1. db.members \cup {row} \in SUBSET MembershipRows /\ db.inserts + 1 \in Nat
      BY <1>1, <1>2 DEF Tables
    <3>2. db.audit \cup {<<"class.student_added", r.class, r.student>>} \in SUBSET AuditRecords
      BY <1>1 DEF Tables, AuditRecords
    <3> DEFINE members == db.members \cup {row}
               audit == db.audit \cup {<<"class.student_added", r.class, r.student>>}
    <3>3. db' = [[db EXCEPT !.members = members, !.audit = audit] EXCEPT !.inserts = @ + 1]
      BY <2>1
    <3>4. members \in SUBSET MembershipRows /\ audit \in SUBSET AuditRecords
      BY <3>1, <3>2
    <3> HIDE DEF members, audit
    <3>5. db' = [db EXCEPT !.members = members, !.audit = audit, !.inserts = db.inserts + 1]
      BY <1>1, <3>3 DEF Tables
    <3>6. /\ db' \in Tables
          /\ db'.users = db.users /\ db'.members = members
          /\ db'.revisions = db.revisions /\ db'.availability = db.availability
          /\ db'.runs = db.runs /\ db'.audit = audit
      BY <1>1, <3>1, <3>4, <3>5 DEF Tables
    <3> QED
      BY <3>6 DEF members, audit
  <2>3. Grows
    BY <2>2 DEF Grows, IsPublished
  <2>4. TableInv'
    <3>1. MembersOnce'
      BY <1>2, <2>1, <2>2 DEF Inv, TableInv, MembersOnce, Memberships
    <3>2. \A m \in db'.members :
            /\ m.student \in db'.users
            /\ <<"class.student_added", m.class, m.student>> \in db'.audit
      BY <1>2, <1>3, <2>2 DEF Inv, TableInv
    <3>3. /\ \A a \in db'.availability :
               <<"class.scenario_assigned", a.class, a.revision>> \in db'.audit
          /\ \A run \in db'.runs :
               HadAccess(run.class, run.student, run.revision)' /\ IsPublished(run.revision)'
      BY <2>2, <2>3 DEF Inv, TableInv, Grows, HadAccess
    <3> QED
      BY <3>1, <3>2, <3>3 DEF TableInv
  <2> QED
    BY <2>2, <2>3, <2>4, CommitKeeps DEF AddStudent
<1> QED
  BY <1>4, <1>5

\* The members an import adds had no account, so they were in no class.
LEMMA ImportStudentsKeeps ==
  ASSUME Inv, NEW h \in Handlers, ImportStudents(h)
  PROVE  Inv'
<1> PICK r, rows : r = request[h] /\ rows = [id : {db.inserts}, class : {r.class}, student : r.students]
  OBVIOUS
<1>1. /\ db \in Tables
      /\ r.class \in Classes /\ r.students \subseteq Students
  BY RequestFields DEF Inv, ImportStudents, Committing
<1>2. /\ rows \subseteq MembershipRows
      /\ \A m \in rows : m.class = r.class /\ m.student \in r.students
      /\ \A m, n \in rows : m.student = n.student => m = n
  BY <1>1 DEF MembershipRows, Tables
<1>3. CASE db' = db
  <2>1. TableInv' /\ Grows
    BY <1>3, SameTables DEF Inv
  <2> QED
    BY <1>1, <1>3, <2>1, CommitKeeps DEF ImportStudents
<1>4. CASE db' # db
  <2> DEFINE added == {<<"class.student_added", r.class, s>> : s \in r.students}
  <2>1. /\ r.students \cap db.users = {}
        /\ db' = [[db EXCEPT !.users = @ \cup r.students, !.members = @ \cup rows,
                             !.audit = @ \cup added] EXCEPT !.inserts = @ + 1]
    BY <1>4 DEF ImportStudents, Insert
  <2>2. /\ db' \in Tables
        /\ db'.users = db.users \cup r.students /\ db'.members = db.members \cup rows
        /\ db'.revisions = db.revisions /\ db'.availability = db.availability
        /\ db'.runs = db.runs /\ db'.audit = db.audit \cup added
    <3>1. /\ db.members \cup rows \in SUBSET MembershipRows /\ db.inserts + 1 \in Nat
          /\ db.users \cup r.students \in SUBSET Students
      BY <1>1, <1>2 DEF Tables
    <3>2. db.audit \cup added \in SUBSET AuditRecords
      BY <1>1 DEF Tables, AuditRecords
    <3> HIDE DEF added
    <3> QED
      BY <1>1, <2>1, <3>1, <3>2 DEF Tables
  <2>3. Grows
    BY <2>2 DEF Grows, IsPublished
  <2>4. TableInv'
    <3>1. MembersOnce'
      <4>1. \A m \in db.members : m.student \notin r.students
        BY <2>1 DEF Inv, TableInv
      <4> QED
        BY <1>2, <2>2, <4>1 DEF Inv, TableInv, MembersOnce, Memberships
    <3>2. \A m \in db'.members :
            /\ m.student \in db'.users
            /\ <<"class.student_added", m.class, m.student>> \in db'.audit
      BY <1>2, <2>2 DEF Inv, TableInv
    <3>3. /\ \A a \in db'.availability :
               <<"class.scenario_assigned", a.class, a.revision>> \in db'.audit
          /\ \A run \in db'.runs :
               HadAccess(run.class, run.student, run.revision)' /\ IsPublished(run.revision)'
      BY <2>2, <2>3 DEF Inv, TableInv, Grows, HadAccess
    <3> QED
      BY <3>1, <3>2, <3>3 DEF TableInv
  <2> QED
    BY <2>2, <2>3, <2>4, CommitKeeps DEF ImportStudents
<1> QED
  BY <1>3, <1>4

LEMMA AssignScenarioKeeps ==
  ASSUME Inv, NEW h \in Handlers, AssignScenario(h)
  PROVE  Inv'
<1> PICK r, row : /\ r = request[h]
                  /\ row = [id |-> db.inserts, class |-> r.class, revision |-> r.revision]
  OBVIOUS
<1>1. /\ db \in Tables
      /\ r.class \in Classes /\ r.revision \in Nat
  BY RequestFields DEF Inv, AssignScenario, Committing
<1>2. row \in AvailabilityRows /\ row.class = r.class /\ row.revision = r.revision
  BY <1>1 DEF AvailabilityRows, Tables
<1>3. CASE db' = db
  <2>1. TableInv' /\ Grows
    BY <1>3, SameTables DEF Inv
  <2> QED
    BY <1>1, <1>3, <2>1, CommitKeeps DEF AssignScenario
<1>4. CASE db' # db
  <2>1. db' = [[db EXCEPT !.availability = @ \cup {row},
                  !.audit = @ \cup {<<"class.scenario_assigned", r.class, r.revision>>}]
                 EXCEPT !.inserts = @ + 1]
    BY <1>4 DEF AssignScenario, Insert
  <2>2. /\ db' \in Tables
        /\ db'.users = db.users /\ db'.members = db.members
        /\ db'.revisions = db.revisions /\ db'.availability = db.availability \cup {row}
        /\ db'.runs = db.runs
        /\ db'.audit = db.audit \cup {<<"class.scenario_assigned", r.class, r.revision>>}
    <3>1. db.availability \cup {row} \in SUBSET AvailabilityRows /\ db.inserts + 1 \in Nat
      BY <1>1, <1>2 DEF Tables
    <3>2. db.audit \cup {<<"class.scenario_assigned", r.class, r.revision>>} \in SUBSET AuditRecords
      BY <1>1 DEF Tables, AuditRecords
    <3> QED
      BY <1>1, <2>1, <3>1, <3>2 DEF Tables
  <2>3. Grows
    BY <2>2 DEF Grows, IsPublished
  <2>4. TableInv'
    <3>1. MembersOnce'
      BY <2>2 DEF Inv, TableInv, MembersOnce, Memberships
    <3>2. /\ \A m \in db'.members :
               /\ m.student \in db'.users
               /\ <<"class.student_added", m.class, m.student>> \in db'.audit
          /\ \A run \in db'.runs :
               HadAccess(run.class, run.student, run.revision)' /\ IsPublished(run.revision)'
      BY <2>2, <2>3 DEF Inv, TableInv, Grows, HadAccess
    <3>3. \A a \in db'.availability :
            <<"class.scenario_assigned", a.class, a.revision>> \in db'.audit
      BY <1>2, <2>2 DEF Inv, TableInv
    <3> QED
      BY <3>1, <3>2, <3>3 DEF TableInv
  <2> QED
    BY <2>2, <2>3, <2>4, CommitKeeps DEF AssignScenario
<1> QED
  BY <1>3, <1>4

\* The class that gave access may be gone by now; that it gave access is not.
LEMMA StartRunKeeps ==
  ASSUME Inv, NEW h \in Handlers, StartRun(h)
  PROVE  Inv'
<1> PICK r, run : /\ r = request[h]
                  /\ run = [student |-> r.student, class |-> found[h], revision |-> r.revision]
  OBVIOUS
<1>1. /\ db \in Tables
      /\ r.student \in Students /\ r.revision \in Nat
  BY RequestFields DEF Inv, StartRun, Committing
<1>2. /\ found[h] \in Classes
      /\ HadAccess(found[h], r.student, r.revision) /\ IsPublished(r.revision)
  <2>1. Established(h) /\ r.operation = "start_run" /\ done[h] = 3
    BY DEF Inv, StartRun, Committing, Reads
  <2> QED
    BY <2>1 DEF Established
<1>3. /\ run \in RunRows
      /\ run.class = found[h] /\ run.student = r.student /\ run.revision = r.revision
  BY <1>1, <1>2 DEF RunRows
<1>4. /\ db' \in Tables
      /\ db'.users = db.users /\ db'.members = db.members
      /\ db'.revisions = db.revisions /\ db'.availability = db.availability
      /\ db'.runs = db.runs \cup {run} /\ db'.audit = db.audit
  <2>1. db' = [db EXCEPT !.runs = @ \cup {run}]
    BY DEF StartRun
  <2>2. db.runs \cup {run} \in SUBSET RunRows
    BY <1>1, <1>3 DEF Tables
  <2> QED
    BY <1>1, <2>1, <2>2 DEF Tables
<1>5. Grows
  BY <1>4 DEF Grows, IsPublished
<1>6. TableInv'
  <2>1. MembersOnce'
    BY <1>4 DEF Inv, TableInv, MembersOnce, Memberships
  <2>2. /\ \A m \in db'.members :
             /\ m.student \in db'.users
             /\ <<"class.student_added", m.class, m.student>> \in db'.audit
        /\ \A a \in db'.availability :
             <<"class.scenario_assigned", a.class, a.revision>> \in db'.audit
    BY <1>4 DEF Inv, TableInv
  <2>3. \A u \in db'.runs :
          HadAccess(u.class, u.student, u.revision)' /\ IsPublished(u.revision)'
    <3>1. \A u \in db'.runs : HadAccess(u.class, u.student, u.revision) /\ IsPublished(u.revision)
      BY <1>2, <1>3, <1>4 DEF Inv, TableInv
    <3> QED
      BY <3>1, <1>5 DEF Grows, HadAccess
  <2> QED
    BY <2>1, <2>2, <2>3 DEF TableInv
<1> QED
  BY <1>4, <1>5, <1>6, CommitKeeps DEF StartRun

-----------------------------------------------------------------------------

LEMMA InitInv == Init => Inv
<1> SUFFICES ASSUME Init PROVE Inv
  OBVIOUS
<1>1. PICK users \in SUBSET Students : db = EmptyTables(users)
  BY DEF Init
<1>2. TypeOK
  <2>1. db \in Tables
    BY <1>1 DEF EmptyTables, Tables
  <2> QED
    BY <2>1 DEF Init, TypeOK
<1>3. TableInv
  BY <1>1 DEF TableInv, EmptyTables, MembersOnce, Memberships
<1>4. \A h \in Handlers : Established(h)
  BY DEF Init, Established, NoRequest
<1> QED
  BY <1>2, <1>3, <1>4 DEF Inv

\* The invariant of the courses: typed tables, unique members, recorded and
\* published access of every run, and what each handler may rely on after its
\* reads (service.py of classes, scenarios and simulations).
THEOREM CoursesInvariant == Spec => []Inv
<1>1. Init => Inv
  BY InitInv
<1>2. Inv /\ [Next]_vars => Inv'
  <2> SUFFICES ASSUME Inv, [Next]_vars PROVE Inv'
    OBVIOUS
  <2>1. CASE CreateClass
    BY <2>1, CreateClassKeeps
  <2>2. CASE CreateScenario
    BY <2>2, CreateScenarioKeeps
  <2>3. ASSUME NEW h \in Handlers, Ask(h) \/ Fail(h)
        PROVE  Inv'
    BY <2>3, AskKeeps, FailKeeps
  <2>4. ASSUME NEW h \in Handlers, Handle(h)
        PROVE  Inv'
    BY <2>4, ReadKeeps, ArchiveClassKeeps, ImportStudentsKeeps, AddStudentKeeps,
       RemoveStudentKeeps, AssignScenarioKeeps, UnassignScenarioKeeps, CreateRevisionKeeps,
       PublishRevisionKeeps, ArchiveScenarioKeeps, StartRunKeeps DEF Handle
  <2>5. CASE UNCHANGED vars
    <3>1. TableInv' /\ Grows
      BY <2>5, SameTables DEF Inv, vars
    <3>2. \A k \in Handlers : Established(k)'
      BY <2>5, <3>1, OthersKeep DEF Inv, vars
    <3> QED
      BY <2>5, <3>1, <3>2 DEF Inv, TypeOK, vars
  <2> QED
    BY <2>1, <2>2, <2>3, <2>4, <2>5 DEF Next
<1> QED
  BY <1>1, <1>2, PTL DEF Spec

\* The tables, the requests and what was read stay within their types.
THEOREM CoursesTyped == Spec => []TypeOK
BY CoursesInvariant, PTL DEF Inv

\* No interleaving of add_student and import_students puts a student twice in
\* a class (add_student, import_students_csv).
THEOREM CoursesMembersOnce == Spec => []MembersOnce
BY CoursesInvariant, PTL DEF Inv, TableInv

\* Whatever happens between start_run's reads and its commit, the run belongs
\* to a class its student was added to and its published revision assigned to.
THEOREM CoursesRunsHadAccess == Spec => []RunsHadAccess
<1>1. Inv => RunsHadAccess
  BY DEF Inv, TableInv, RunsHadAccess, HadAccess, IsPublished
<1> QED
  BY <1>1, CoursesInvariant, PTL


-----------------------------------------------------------------------------
(***************************************************************************)
(* The inductive invariant.                                                *)
(***************************************************************************)
NumbersOf(s) == {v.number : v \in RevisionsOf(s)}

\* Whoever was added is there or was removed.
MembersTold ==
  \A c \in Classes, s \in Students :
    <<"class.student_added", c, s>> \in db.audit =>
      Memberships(c, s) # {} \/ <<"class.student_removed", c, s>> \in db.audit

\* So for assignments.
AssignmentsTold ==
  \A c \in Classes, n \in Nat :
    <<"class.scenario_assigned", c, n>> \in db.audit =>
      Assignments(c, n) # {} \/ <<"class.scenario_unassigned", c, n>> \in db.audit

\* The audit tells the state of each revision, and of none that is to come.
RevisionsTold ==
  /\ \A v \in db.revisions :
       /\ v.id < db.inserts
       /\ (v.status = "published") <=> (<<"scenario.revision_published", v.id>> \in db.audit)
       /\ v.number > 1 => <<"scenario.revision_created", v.id>> \in db.audit
  /\ \A n \in Nat : <<"scenario.revision_published", n>> \in db.audit => n < db.inserts

\* Numbers are given once and without gaps; a scenario that exists has one.
NumbersInv ==
  \A s \in Scenarios :
    /\ IsFiniteSet(RevisionsOf(s))
    /\ \A u, v \in RevisionsOf(s) : u.number = v.number => u = v
    /\ NumbersOf(s) = 1 .. Cardinality(RevisionsOf(s))
    /\ (db.scenarios[s] = "absent") <=> (RevisionsOf(s) = {})

TablesInv == MembersTold /\ AssignmentsTold /\ RevisionsTold /\ NumbersInv

\* What an operation relies on of the rows its reads found.
Relied(h) ==
  /\ (request[h].operation = "remove_student" /\ done[h] >= 2) =>
       found[h].class = request[h].class /\ found[h].student = request[h].student
  /\ (request[h].operation = "unassign_scenario" /\ done[h] >= 2) =>
       found[h].class = request[h].class /\ found[h].revision = request[h].revision
  /\ (request[h].operation = "publish_revision" /\ done[h] >= 2) => found[h].id < db.inserts
  /\ (request[h].operation = "create_revision" /\ done[h] >= 2) =>
       found[h].number \in NumbersOf(request[h].scenario)
  /\ (request[h].operation = "archive_scenario" /\ done[h] >= 1) =>
       db.scenarios[request[h].scenario] # "absent"

RecordsInv == Inv /\ TablesInv /\ \A h \in Handlers : Relied(h)

\* What is never taken back.
GoesOn ==
  /\ db.inserts <= db'.inserts
  /\ \A s \in Scenarios :
       /\ NumbersOf(s) \subseteq NumbersOf(s)'
       /\ db.scenarios[s] # "absent" => db'.scenarios[s] # "absent"

-----------------------------------------------------------------------------
(***************************************************************************)
(* What the other handlers rely on stays.                                  *)
(***************************************************************************)
LEMMA RelyKept ==
  ASSUME Inv, Inv', GoesOn, NEW k \in Handlers, Relied(k),
         request'[k] = request[k], done'[k] = done[k], found'[k] = found[k]
  PROVE  Relied(k)'
<1>1. ASSUME request[k].operation \in {"create_revision", "archive_scenario"}
      PROVE  request[k].scenario \in Scenarios
  BY <1>1, RequestFields DEF Inv
<1>2. ASSUME request[k].operation = "publish_revision", done[k] >= 2
      PROVE  found[k].id < db'.inserts
  <2>1. found[k] \in RevisionRows
    BY <1>2 DEF Inv, Established
  <2>2. found[k].id \in Nat /\ db.inserts \in Nat /\ db'.inserts \in Nat
    BY <2>1 DEF RevisionRows, Inv, TypeOK, Tables
  <2>3. found[k].id < db.inserts
    BY <1>2 DEF Relied
  <2> QED
    BY <2>2, <2>3 DEF GoesOn
<1>3. ASSUME request[k].operation = "create_revision", done[k] >= 2
      PROVE  found[k].number \in NumbersOf(request[k].scenario)'
  BY <1>1, <1>3 DEF Relied, GoesOn
<1>4. ASSUME request[k].operation = "archive_scenario", done[k] >= 1
      PROVE  db'.scenarios[request[k].scenario] # "absent"
  BY <1>1, <1>4 DEF Relied, GoesOn
<1> QED
  BY <1>2, <1>3, <1>4 DEF Relied

LEMMA FinishRelies ==
  ASSUME RecordsInv, Inv', GoesOn, NEW h \in Handlers, Finish(h)
  PROVE  \A k \in Handlers : Relied(k)'
<1> TAKE k \in Handlers
<1>1. CASE k = h
  <2>1. request'[k] = NoRequest
    BY <1>1 DEF Finish, RecordsInv, Inv, TypeOK
  <2> QED
    BY <2>1 DEF Relied, NoRequest
<1>2. CASE k # h
  BY <1>2, RelyKept DEF Finish, RecordsInv, Inv, TypeOK
<1> QED
  BY <1>1, <1>2

-----------------------------------------------------------------------------
(***************************************************************************)
(* Tables a transaction does not touch.                                    *)
(***************************************************************************)
\* No record of this action is added.
Untold(action) == \A x \in db'.audit \ db.audit : x[1] # action

LEMMA MembersKept ==
  ASSUME MembersTold, db.members \subseteq db'.members, db.audit \subseteq db'.audit,
         Untold("class.student_added")
  PROVE  MembersTold'
<1> SUFFICES ASSUME NEW c \in Classes, NEW s \in Students,
                    <<"class.student_added", c, s>> \in db'.audit
             PROVE  Memberships(c, s)' # {} \/ <<"class.student_removed", c, s>> \in db'.audit
  BY DEF MembersTold
<1>1. <<"class.student_added", c, s>> \in db.audit
  BY DEF Untold
<1>2. Memberships(c, s) \subseteq Memberships(c, s)'
  BY DEF Memberships
<1> QED
  BY <1>1, <1>2 DEF MembersTold

LEMMA AssignmentsKept ==
  ASSUME AssignmentsTold, db.availability \subseteq db'.availability, db.audit \subseteq db'.audit,
         Untold("class.scenario_assigned")
  PROVE  AssignmentsTold'
<1> SUFFICES ASSUME NEW c \in Classes, NEW n \in Nat,
                    <<"class.scenario_assigned", c, n>> \in db'.audit
             PROVE  Assignments(c, n)' # {} \/ <<"class.scenario_unassigned", c, n>> \in db'.audit
  BY DEF AssignmentsTold
<1>1. <<"class.scenario_assigned", c, n>> \in db.audit
  BY DEF Untold
<1>2. Assignments(c, n) \subseteq Assignments(c, n)'
  BY DEF Assignments
<1> QED
  BY <1>1, <1>2 DEF AssignmentsTold

LEMMA RevisionsKept ==
  ASSUME Inv, Inv', RevisionsTold, db'.revisions = db.revisions, db.inserts <= db'.inserts,
         db.audit \subseteq db'.audit, Untold("scenario.revision_published")
  PROVE  RevisionsTold'
<1>1. \A n : <<"scenario.revision_published", n>> \in db'.audit =>
               <<"scenario.revision_published", n>> \in db.audit
  BY DEF Untold
<1>2. db.inserts \in Nat /\ db'.inserts \in Nat /\ \A v \in db.revisions : v.id \in Nat
  BY DEF Inv, TypeOK, Tables, RevisionRows
<1> QED
  BY <1>1, <1>2 DEF RevisionsTold

LEMMA NumbersKept ==
  ASSUME NumbersInv, db'.revisions = db.revisions,
         \A s \in Scenarios : (db'.scenarios[s] = "absent") <=> (db.scenarios[s] = "absent")
  PROVE  NumbersInv' /\ \A s \in Scenarios : NumbersOf(s)' = NumbersOf(s)
<1>1. \A s : RevisionsOf(s)' = RevisionsOf(s)
  BY DEF RevisionsOf
<1>2. \A s : NumbersOf(s)' = NumbersOf(s)
  BY <1>1 DEF NumbersOf
<1>3. NumbersInv'
  BY <1>1, <1>2 DEF NumbersInv
<1> QED
  BY <1>2, <1>3

\* A transaction that only tells of something else keeps the records.
LEMMA QuietKeeps ==
  ASSUME RecordsInv, Inv', NEW h \in Handlers, Finish(h),
         db'.members = db.members, db'.availability = db.availability,
         db'.revisions = db.revisions, db'.inserts = db.inserts,
         \A s \in Scenarios : (db'.scenarios[s] = "absent") <=> (db.scenarios[s] = "absent"),
         db.audit \subseteq db'.audit,
         Untold("class.student_added"), Untold("class.scenario_assigned"),
         Untold("scenario.revision_published")
  PROVE  RecordsInv'
<1>1. db.inserts \in Nat
  BY DEF RecordsInv, Inv, TypeOK, Tables
<1>2. TablesInv'
  BY <1>1, MembersKept, AssignmentsKept, RevisionsKept, NumbersKept DEF RecordsInv, TablesInv
<1>3. GoesOn
  BY <1>1, NumbersKept DEF GoesOn, RecordsInv, TablesInv
<1> QED
  BY <1>2, <1>3, FinishRelies DEF RecordsInv

\* So does one that changes nothing, as when a constraint refuses it.
LEMMA SameKeeps ==
  ASSUME RecordsInv, Inv', NEW h \in Handlers, Finish(h), db' = db
  PROVE  RecordsInv'
<1>1. /\ Untold("class.student_added") /\ Untold("class.scenario_assigned")
      /\ Untold("scenario.revision_published")
  BY DEF Untold
<1> QED
  BY <1>1, QuietKeeps

-----------------------------------------------------------------------------
(***************************************************************************)
(* Members and assignments.                                                *)
(***************************************************************************)
LEMMA ArchiveClassRecords ==
  ASSUME RecordsInv, Inv', NEW h \in Handlers, ArchiveClass(h)
  PROVE  RecordsInv'
<1>1. db \in Tables
  BY DEF RecordsInv, Inv, TypeOK
<1>2. /\ db'.members = db.members /\ db'.availability = db.availability
      /\ db'.revisions = db.revisions /\ db'.inserts = db.inserts
      /\ db'.scenarios = db.scenarios
      /\ db'.audit = db.audit \cup {<<"class.archived", request[h].class>>}
  BY <1>1 DEF ArchiveClass, Tables
<1>3. /\ Untold("class.student_added") /\ Untold("class.scenario_assigned")
      /\ Untold("scenario.revision_published")
  BY <1>2 DEF Untold
<1> QED
  BY <1>2, <1>3, QuietKeeps DEF ArchiveClass

LEMMA StartRunRecords ==
  ASSUME RecordsInv, Inv', NEW h \in Handlers, StartRun(h)
  PROVE  RecordsInv'
<1>1. db \in Tables
  BY DEF RecordsInv, Inv, TypeOK
<1>2. /\ db'.members = db.members /\ db'.availability = db.availability
      /\ db'.revisions = db.revisions /\ db'.inserts = db.inserts
      /\ db'.scenarios = db.scenarios /\ db'.audit = db.audit
  BY <1>1 DEF StartRun, Tables
<1>3. /\ Untold("class.student_added") /\ Untold("class.scenario_assigned")
      /\ Untold("scenario.revision_published")
  BY <1>2 DEF Untold
<1> QED
  BY <1>2, <1>3, QuietKeeps DEF StartRun

LEMMA ArchiveScenarioRecords ==
  ASSUME RecordsInv, Inv', NEW h \in Handlers, ArchiveScenario(h)
  PROVE  RecordsInv'
<1>1. db \in Tables /\ request[h].scenario \in Scenarios
  <2>1. TypeOK
    BY DEF RecordsInv, Inv
  <2> QED
    BY <2>1, RequestFields DEF ArchiveScenario, Committing
<1>2. /\ db'.members = db.members /\ db'.availability = db.availability
      /\ db'.revisions = db.revisions /\ db'.inserts = db.inserts
      /\ db'.scenarios = [db.scenarios EXCEPT ![request[h].scenario] = "archived"]
      /\ db'.audit = db.audit \cup {<<"scenario.archived", request[h].scenario>>}
  BY <1>1 DEF ArchiveScenario, Tables
<1>3. /\ Untold("class.student_added") /\ Untold("class.scenario_assigned")
      /\ Untold("scenario.revision_published")
  BY <1>2 DEF Untold
<1>4. db.scenarios[request[h].scenario] # "absent"
  <2>1. request[h].operation = "archive_scenario" /\ done[h] >= 1
    BY DEF ArchiveScenario, Committing, Reads
  <2> QED
    BY <2>1 DEF RecordsInv, Relied
<1>5. \A s \in Scenarios : (db'.scenarios[s] = "absent") <=> (db.scenarios[s] = "absent")
  BY <1>1, <1>2, <1>4 DEF Tables
<1> QED
  BY <1>2, <1>3, <1>5, QuietKeeps DEF ArchiveScenario

\* Only the row that was found goes, and its removal is told.
LEMMA RemoveStudentRecords ==
  ASSUME RecordsInv, Inv', NEW h \in Handlers, RemoveStudent(h)
  PROVE  RecordsInv'
<1> DEFINE told == <<"class.student_removed", request[h].class, request[h].student>>
<1>1. db \in Tables
  BY DEF RecordsInv, Inv, TypeOK
<1>2. /\ db'.members = db.members \ {found[h]} /\ db'.availability = db.availability
      /\ db'.revisions = db.revisions /\ db'.inserts = db.inserts
      /\ db'.scenarios = db.scenarios
      /\ db'.audit = db.audit \cup {told}
  BY <1>1 DEF RemoveStudent, Recorded, Tables
<1>3. /\ Untold("class.student_added") /\ Untold("class.scenario_assigned")
      /\ Untold("scenario.revision_published")
  BY <1>2 DEF Untold
<1>4. found[h].class = request[h].class /\ found[h].student = request[h].student
  <2>1. request[h].operation = "remove_student" /\ done[h] >= 2
    BY DEF RemoveStudent, Committing, Reads
  <2> QED
    BY <2>1 DEF RecordsInv, Relied
<1>5. MembersTold'
  <2> SUFFICES ASSUME NEW c \in Classes, NEW s \in Students,
                      <<"class.student_added", c, s>> \in db'.audit
               PROVE  Memberships(c, s)' # {} \/ <<"class.student_removed", c, s>> \in db'.audit
    BY DEF MembersTold
  <2>1. <<"class.student_added", c, s>> \in db.audit
    BY <1>3 DEF Untold
  <2>2. CASE c = request[h].class /\ s = request[h].student
    BY <1>2, <2>2
  <2>3. CASE ~(c = request[h].class /\ s = request[h].student)
    <3>1. Memberships(c, s)' = Memberships(c, s)
      BY <1>2, <1>4, <2>3 DEF Memberships
    <3> QED
      BY <1>2, <2>1, <3>1 DEF RecordsInv, TablesInv, MembersTold
  <2> QED
    BY <2>2, <2>3
<1>6. TablesInv' /\ GoesOn
  <2>1. db.inserts \in Nat
    BY <1>1 DEF Tables
  <2>2. AssignmentsTold' /\ RevisionsTold'
    BY <1>2, <1>3, <2>1, AssignmentsKept, RevisionsKept DEF RecordsInv, TablesInv
  <2>3. NumbersInv' /\ GoesOn
    BY <1>2, <2>1, NumbersKept DEF RecordsInv, TablesInv, GoesOn
  <2> QED
    BY <1>5, <2>2, <2>3 DEF TablesInv
<1> QED
  BY <1>6, FinishRelies DEF RecordsInv, RemoveStudent

LEMMA UnassignScenarioRecords ==
  ASSUME RecordsInv, Inv', NEW h \in Handlers, UnassignScenario(h)
  PROVE  RecordsInv'
<1> DEFINE told == <<"class.scenario_unassigned", request[h].class, request[h].revision>>
<1>1. db \in Tables
  BY DEF RecordsInv, Inv, TypeOK
<1>2. /\ db'.members = db.members /\ db'.availability = db.availability \ {found[h]}
      /\ db'.revisions = db.revisions /\ db'.inserts = db.inserts
      /\ db'.scenarios = db.scenarios
      /\ db'.audit = db.audit \cup {told}
  BY <1>1 DEF UnassignScenario, Recorded, Tables
<1>3. /\ Untold("class.student_added") /\ Untold("class.scenario_assigned")
      /\ Untold("scenario.revision_published")
  BY <1>2 DEF Untold
<1>4. found[h].class = request[h].class /\ found[h].revision = request[h].revision
  <2>1. request[h].operation = "unassign_scenario" /\ done[h] >= 2
    BY DEF UnassignScenario, Committing, Reads
  <2> QED
    BY <2>1 DEF RecordsInv, Relied
<1>5. AssignmentsTold'
  <2> SUFFICES ASSUME NEW c \in Classes, NEW n \in Nat,
                      <<"class.scenario_assigned", c, n>> \in db'.audit
               PROVE  \/ Assignments(c, n)' # {}
                      \/ <<"class.scenario_unassigned", c, n>> \in db'.audit
    BY DEF AssignmentsTold
  <2>1. <<"class.scenario_assigned", c, n>> \in db.audit
    BY <1>3 DEF Untold
  <2>2. CASE c = request[h].class /\ n = request[h].revision
    BY <1>2, <2>2
  <2>3. CASE ~(c = request[h].class /\ n = request[h].revision)
    <3>1. Assignments(c, n)' = Assignments(c, n)
      BY <1>2, <1>4, <2>3 DEF Assignments
    <3> QED
      BY <1>2, <2>1, <3>1 DEF RecordsInv, TablesInv, AssignmentsTold
  <2> QED
    BY <2>2, <2>3
<1>6. TablesInv' /\ GoesOn
  <2>1. db.inserts \in Nat
    BY <1>1 DEF Tables
  <2>2. MembersTold' /\ RevisionsTold'
    BY <1>2, <1>3, <2>1, MembersKept, RevisionsKept DEF RecordsInv, TablesInv
  <2>3. NumbersInv' /\ GoesOn
    BY <1>2, <2>1, NumbersKept DEF RecordsInv, TablesInv, GoesOn
  <2> QED
    BY <1>5, <2>2, <2>3 DEF TablesInv
<1> QED
  BY <1>6, FinishRelies DEF RecordsInv, UnassignScenario

LEMMA AddStudentRecords ==
  ASSUME RecordsInv, Inv', NEW h \in Handlers, AddStudent(h)
  PROVE  RecordsInv'
<1> DEFINE row == [id |-> db.inserts, class |-> request[h].class, student |-> request[h].student]
           told == <<"class.student_added", request[h].class, request[h].student>>
<1>1. db \in Tables /\ db.inserts \in Nat
  BY DEF RecordsInv, Inv, TypeOK, Tables
<1>2. CASE db' = db
  BY <1>2, SameKeeps DEF AddStudent
<1>3. CASE db' # db
  <2>1. db' = [[db EXCEPT !.members = @ \cup {row}, !.audit = @ \cup {told}]
                 EXCEPT !.inserts = @ + 1]
    BY <1>3 DEF AddStudent, Insert
  <2>2. row.class = request[h].class /\ row.student = request[h].student
    OBVIOUS
  <2> HIDE DEF row, told
  <2>3. /\ db'.members = db.members \cup {row} /\ db'.availability = db.availability
        /\ db'.revisions = db.revisions /\ db'.inserts = db.inserts + 1
        /\ db'.scenarios = db.scenarios
        /\ db'.audit = db.audit \cup {told}
    BY <1>1, <2>1 DEF Tables
  <2>4. Untold("class.scenario_assigned") /\ Untold("scenario.revision_published")
    BY <2>3 DEF Untold, told
  <2>5. MembersTold'
    <3> SUFFICES ASSUME NEW c \in Classes, NEW s \in Students,
                        <<"class.student_added", c, s>> \in db'.audit
                 PROVE  Memberships(c, s)' # {} \/ <<"class.student_removed", c, s>> \in db'.audit
      BY DEF MembersTold
    <3>1. CASE <<"class.student_added", c, s>> \in db.audit
      <4>1. Memberships(c, s) \subseteq Memberships(c, s)'
        BY <2>3 DEF Memberships
      <4> QED
        BY <2>3, <3>1, <4>1 DEF RecordsInv, TablesInv, MembersTold
    <3>2. CASE <<"class.student_added", c, s>> = told
      <4>1. c = row.class /\ s = row.student
        BY <2>2, <3>2 DEF told
      <4>2. row \in Memberships(c, s)'
        BY <2>3, <4>1 DEF Memberships
      <4> QED
        BY <4>2
    <3> QED
      BY <2>3, <3>1, <3>2
  <2>6. AssignmentsTold' /\ RevisionsTold'
    BY <1>1, <2>3, <2>4, AssignmentsKept, RevisionsKept DEF RecordsInv, TablesInv
  <2>7. NumbersInv' /\ GoesOn
    BY <1>1, <2>3, NumbersKept DEF RecordsInv, TablesInv, GoesOn
  <2> QED
    BY <2>5, <2>6, <2>7, FinishRelies DEF RecordsInv, TablesInv, AddStudent
<1> QED
  BY <1>2, <1>3

LEMMA ImportStudentsRecords ==
  ASSUME RecordsInv, Inv', NEW h \in Handlers, ImportStudents(h)
  PROVE  RecordsInv'
<1> PICK r, rows : /\ r = request[h]
                   /\ rows = [id : {db.inserts}, class : {r.class}, student : r.students]
  OBVIOUS
<1> DEFINE added == {<<"class.student_added", r.class, s>> : s \in r.students}
<1>1. db \in Tables /\ db.inserts \in Nat
  BY DEF RecordsInv, Inv, TypeOK, Tables
<1>2. CASE db' = db
  BY <1>2, SameKeeps DEF ImportStudents
<1>3. CASE db' # db
  <2>1. db' = [[db EXCEPT !.users = @ \cup r.students, !.members = @ \cup rows,
                          !.audit = @ \cup added] EXCEPT !.inserts = @ + 1]
    BY <1>3 DEF ImportStudents, Insert
  <2> HIDE DEF added
  <2>2. /\ db'.members = db.members \cup rows /\ db'.availability = db.availability
        /\ db'.revisions = db.revisions /\ db'.inserts = db.inserts + 1
        /\ db'.scenarios = db.scenarios
        /\ db'.audit = db.audit \cup added
    BY <1>1, <2>1 DEF Tables
  <2>3. Untold("class.scenario_assigned") /\ Untold("scenario.revision_published")
    BY <2>2 DEF Untold, added
  <2>4. MembersTold'
    <3> SUFFICES ASSUME NEW c \in Classes, NEW s \in Students,
                        <<"class.student_added", c, s>> \in db'.audit
                 PROVE  Memberships(c, s)' # {} \/ <<"class.student_removed", c, s>> \in db'.audit
      BY DEF MembersTold
    <3>1. CASE <<"class.student_added", c, s>> \in db.audit
      <4>1. Memberships(c, s) \subseteq Memberships(c, s)'
        BY <2>2 DEF Memberships
      <4> QED
        BY <2>2, <3>1, <4>1 DEF RecordsInv, TablesInv, MembersTold
    <3>2. CASE <<"class.student_added", c, s>> \in added
      <4>1. c = r.class /\ s \in r.students
        BY <3>2 DEF added
      <4> DEFINE m == [id |-> db.inserts, class |-> c, student |-> s]
      <4>2. m \in rows /\ m.class = c /\ m.student = s
        BY <4>1
      <4> HIDE DEF m
      <4>3. m \in Memberships(c, s)'
        BY <2>2, <4>2 DEF Memberships
      <4> QED
        BY <4>3
    <3> QED
      BY <2>2, <3>1, <3>2
  <2>5. AssignmentsTold' /\ RevisionsTold'
    BY <1>1, <2>2, <2>3, AssignmentsKept, RevisionsKept DEF RecordsInv, TablesInv
  <2>6. NumbersInv' /\ GoesOn
    BY <1>1, <2>2, NumbersKept DEF RecordsInv, TablesInv, GoesOn
  <2> QED
    BY <2>4, <2>5, <2>6, FinishRelies DEF RecordsInv, TablesInv, ImportStudents
<1> QED
  BY <1>2, <1>3

LEMMA AssignScenarioRecords ==
  ASSUME RecordsInv, Inv', NEW h \in Handlers, AssignScenario(h)
  PROVE  RecordsInv'
<1> DEFINE row == [id |-> db.inserts, class |-> request[h].class, revision |-> request[h].revision]
           told == <<"class.scenario_assigned", request[h].class, request[h].revision>>
<1>1. db \in Tables /\ db.inserts \in Nat
  BY DEF RecordsInv, Inv, TypeOK, Tables
<1>2. CASE db' = db
  BY <1>2, SameKeeps DEF AssignScenario
<1>3. CASE db' # db
  <2>1. db' = [[db EXCEPT !.availability = @ \cup {row}, !.audit = @ \cup {told}]
                 EXCEPT !.inserts = @ + 1]
    BY <1>3 DEF AssignScenario, Insert
  <2>2. row.class = request[h].class /\ row.revision = request[h].revision
    OBVIOUS
  <2> HIDE DEF row, told
  <2>3. /\ db'.members = db.members /\ db'.availability = db.availability \cup {row}
        /\ db'.revisions = db.revisions /\ db'.inserts = db.inserts + 1
        /\ db'.scenarios = db.scenarios
        /\ db'.audit = db.audit \cup {told}
    BY <1>1, <2>1 DEF Tables
  <2>4. Untold("class.student_added") /\ Untold("scenario.revision_published")
    BY <2>3 DEF Untold, told
  <2>5. AssignmentsTold'
    <3> SUFFICES ASSUME NEW c \in Classes, NEW n \in Nat,
                        <<"class.scenario_assigned", c, n>> \in db'.audit
                 PROVE  \/ Assignments(c, n)' # {}
                        \/ <<"class.scenario_unassigned", c, n>> \in db'.audit
      BY DEF AssignmentsTold
    <3>1. CASE <<"class.scenario_assigned", c, n>> \in db.audit
      <4>1. Assignments(c, n) \subseteq Assignments(c, n)'
        BY <2>3 DEF Assignments
      <4> QED
        BY <2>3, <3>1, <4>1 DEF RecordsInv, TablesInv, AssignmentsTold
    <3>2. CASE <<"class.scenario_assigned", c, n>> = told
      <4>1. c = row.class /\ n = row.revision
        BY <2>2, <3>2 DEF told
      <4>2. row \in Assignments(c, n)'
        BY <2>3, <4>1 DEF Assignments
      <4> QED
        BY <4>2
    <3> QED
      BY <2>3, <3>1, <3>2
  <2>6. MembersTold' /\ RevisionsTold'
    BY <1>1, <2>3, <2>4, MembersKept, RevisionsKept DEF RecordsInv, TablesInv
  <2>7. NumbersInv' /\ GoesOn
    BY <1>1, <2>3, NumbersKept DEF RecordsInv, TablesInv, GoesOn
  <2> QED
    BY <2>5, <2>6, <2>7, FinishRelies DEF RecordsInv, TablesInv, AssignScenario
<1> QED
  BY <1>2, <1>3

-----------------------------------------------------------------------------
(***************************************************************************)
(* Revisions.                                                              *)
(***************************************************************************)
\* A revision numbered one more than the last continues the numbers.
LEMMA NextNumber ==
  ASSUME NumbersInv, NEW s \in Scenarios, NEW row, row.scenario = s,
         row.number = Cardinality(RevisionsOf(s)) + 1,
         db'.revisions = db.revisions \cup {row}, db'.scenarios[s] # "absent",
         \A t \in Scenarios \ {s} : (db'.scenarios[t] = "absent") <=> (db.scenarios[t] = "absent")
  PROVE  NumbersInv' /\ \A t \in Scenarios : NumbersOf(t) \subseteq NumbersOf(t)'
<1> DEFINE n == Cardinality(RevisionsOf(s))
<1>1. /\ IsFiniteSet(RevisionsOf(s)) /\ n \in Nat
      /\ NumbersOf(s) = 1 .. n
      /\ \A u, v \in RevisionsOf(s) : u.number = v.number => u = v
  BY FS_CardinalityType DEF NumbersInv
<1>2. RevisionsOf(s)' = RevisionsOf(s) \cup {row}
  BY DEF RevisionsOf
<1>3. ASSUME NEW t \in Scenarios, t # s
      PROVE  RevisionsOf(t)' = RevisionsOf(t) /\ NumbersOf(t)' = NumbersOf(t)
  <2>1. RevisionsOf(t)' = RevisionsOf(t)
    BY <1>3 DEF RevisionsOf
  <2> QED
    BY <2>1 DEF NumbersOf
<1>4. NumbersOf(s)' = NumbersOf(s) \cup {row.number}
  BY <1>2 DEF NumbersOf
<1>5. row.number = n + 1
  OBVIOUS
<1> HIDE DEF n
<1>6. row.number \notin NumbersOf(s) /\ NumbersOf(s)' = 1 .. (n + 1)
  BY <1>1, <1>4, <1>5
<1>7. \A v \in RevisionsOf(s) : v.number # row.number
  BY <1>6 DEF NumbersOf
<1>8. row \notin RevisionsOf(s)
  BY <1>7
<1>9. IsFiniteSet(RevisionsOf(s)') /\ Cardinality(RevisionsOf(s)') = n + 1
  BY <1>1, <1>2, <1>8, FS_AddElement DEF n
<1>10. \A u, v \in RevisionsOf(s)' : u.number = v.number => u = v
  BY <1>1, <1>2, <1>7
<1>11. NumbersInv'
  <2> SUFFICES ASSUME NEW t \in Scenarios
               PROVE  /\ IsFiniteSet(RevisionsOf(t)')
                      /\ \A u, v \in RevisionsOf(t)' : u.number = v.number => u = v
                      /\ NumbersOf(t)' = 1 .. Cardinality(RevisionsOf(t)')
                      /\ (db'.scenarios[t] = "absent") <=> (RevisionsOf(t)' = {})
    BY DEF NumbersInv
  <2>1. CASE t = s
    BY <1>2, <1>6, <1>9, <1>10, <2>1
  <2>2. CASE t # s
    BY <1>3, <2>2 DEF NumbersInv
  <2> QED
    BY <2>1, <2>2
<1> QED
  BY <1>3, <1>4, <1>11

\* A draft whose id is new is told as one.
LEMMA NewRevisionTold ==
  ASSUME Inv, RevisionsTold, NEW row \in RevisionRows, row.id = db.inserts, row.status = "draft",
         db'.revisions = db.revisions \cup {row}, db'.inserts = db.inserts + 1,
         db.audit \subseteq db'.audit, Untold("scenario.revision_published"),
         row.number > 1 => <<"scenario.revision_created", row.id>> \in db'.audit
  PROVE  RevisionsTold'
<1>1. db.inserts \in Nat /\ \A v \in db.revisions : v.id \in Nat
  BY DEF Inv, TypeOK, Tables, RevisionRows
<1>2. \A n : (<<"scenario.revision_published", n>> \in db'.audit) <=>
               (<<"scenario.revision_published", n>> \in db.audit)
  BY DEF Untold
<1>3. <<"scenario.revision_published", row.id>> \notin db'.audit
  BY <1>1, <1>2 DEF RevisionsTold
<1>4. \A n \in Nat : <<"scenario.revision_published", n>> \in db'.audit => n < db'.inserts
  BY <1>1, <1>2 DEF RevisionsTold
<1>5. ASSUME NEW v \in db'.revisions
      PROVE  /\ v.id < db'.inserts
             /\ (v.status = "published") <=> (<<"scenario.revision_published", v.id>> \in db'.audit)
             /\ v.number > 1 => <<"scenario.revision_created", v.id>> \in db'.audit
  <2>1. CASE v = row
    BY <1>1, <1>3, <2>1
  <2>2. CASE v \in db.revisions
    BY <1>1, <1>2, <2>2 DEF RevisionsTold
  <2> QED
    BY <2>1, <2>2
<1> QED
  BY <1>4, <1>5 DEF RevisionsTold

LEMMA CreateScenarioRecords ==
  ASSUME RecordsInv, Inv', CreateScenario
  PROVE  RecordsInv'
<1> DEFINE row(s) == [id |-> db.inserts, scenario |-> s, number |-> 1, status |-> "draft"]
<1>1. PICK s \in Scenarios :
        /\ db.scenarios[s] = "absent"
        /\ db' = [[db EXCEPT !.scenarios[s] = "active", !.revisions = @ \cup {row(s)},
                     !.audit = @ \cup {<<"scenario.created", s>>}] EXCEPT !.inserts = @ + 1]
  BY DEF CreateScenario, Insert
<1>2. db \in Tables /\ db.inserts \in Nat
  BY DEF RecordsInv, Inv, TypeOK, Tables
<1>3. /\ row(s) \in RevisionRows /\ row(s).scenario = s /\ row(s).number = 1
      /\ row(s).id = db.inserts /\ row(s).status = "draft"
  BY <1>2 DEF RevisionRows
<1> HIDE DEF row
<1>4. /\ db'.members = db.members /\ db'.availability = db.availability
      /\ db'.revisions = db.revisions \cup {row(s)} /\ db'.inserts = db.inserts + 1
      /\ db'.scenarios = [db.scenarios EXCEPT ![s] = "active"]
      /\ db'.audit = db.audit \cup {<<"scenario.created", s>>}
  BY <1>1, <1>2 DEF Tables
<1>5. /\ Untold("class.student_added") /\ Untold("class.scenario_assigned")
      /\ Untold("scenario.revision_published")
  BY <1>4 DEF Untold
<1>6. Cardinality(RevisionsOf(s)) = 0
  BY <1>1, FS_EmptySet DEF RecordsInv, TablesInv, NumbersInv
<1>7. /\ db'.scenarios[s] # "absent"
      /\ \A t \in Scenarios \ {s} : (db'.scenarios[t] = "absent") <=> (db.scenarios[t] = "absent")
      /\ \A t \in Scenarios : db.scenarios[t] # "absent" => db'.scenarios[t] # "absent"
  BY <1>2, <1>4 DEF Tables
<1>8. NumbersInv' /\ GoesOn
  <2>1. row(s).number = Cardinality(RevisionsOf(s)) + 1
    BY <1>3, <1>6
  <2>2. NumbersInv' /\ \A t \in Scenarios : NumbersOf(t) \subseteq NumbersOf(t)'
    BY <1>3, <1>4, <1>7, <2>1, NextNumber DEF RecordsInv, TablesInv
  <2> QED
    BY <1>2, <1>4, <1>7, <2>2 DEF GoesOn
<1>9. RevisionsTold'
  <2>1. ~(row(s).number > 1)
    BY <1>3
  <2>2. db.audit \subseteq db'.audit
    BY <1>4
  <2> QED
    BY <1>3, <1>4, <1>5, <2>1, <2>2, NewRevisionTold DEF RecordsInv, TablesInv
<1>10. MembersTold' /\ AssignmentsTold'
  BY <1>4, <1>5, MembersKept, AssignmentsKept DEF RecordsInv, TablesInv
<1>11. \A k \in Handlers : Relied(k)'
  BY <1>8, RelyKept DEF CreateScenario, RecordsInv
<1> QED
  BY <1>8, <1>9, <1>10, <1>11 DEF RecordsInv, TablesInv

\* The number is one more than one that is there; when the unique constraint
\* lets it through it is one more than the last.
LEMMA CreateRevisionRecords ==
  ASSUME RecordsInv, Inv', NEW h \in Handlers, CreateRevision(h)
  PROVE  RecordsInv'
<1> DEFINE s == request[h].scenario
           row == [id |-> db.inserts, scenario |-> s, number |-> found[h].number + 1,
                   status |-> "draft"]
           told == <<"scenario.revision_created", row.id>>
<1>1. db \in Tables /\ db.inserts \in Nat
  BY DEF RecordsInv, Inv, TypeOK, Tables
<1>2. CASE db' = db
  BY <1>2, SameKeeps DEF CreateRevision
<1>3. CASE db' # db
  <2>1. /\ ~NumberTaken(row)
        /\ db' = [[db EXCEPT !.revisions = @ \cup {row}, !.audit = @ \cup {told}]
                    EXCEPT !.inserts = @ + 1]
    BY <1>3 DEF CreateRevision, Insert
  <2>2. s \in Scenarios /\ found[h] \in RevisionRows
    BY FoundRevision DEF CreateRevision, RecordsInv
  <2>3. found[h].number \in NumbersOf(s)
    <3>1. request[h].operation = "create_revision" /\ done[h] >= 2
      BY DEF CreateRevision, Committing, Reads
    <3> QED
      BY <3>1 DEF RecordsInv, Relied
  <2>4. /\ row \in RevisionRows /\ row.scenario = s /\ row.number = found[h].number + 1
        /\ row.id = db.inserts /\ row.status = "draft"
    BY <1>1, <2>2 DEF RevisionRows
  <2> HIDE DEF row, told, s
  <2>5. /\ db'.members = db.members /\ db'.availability = db.availability
        /\ db'.revisions = db.revisions \cup {row} /\ db'.inserts = db.inserts + 1
        /\ db'.scenarios = db.scenarios
        /\ db'.audit = db.audit \cup {told}
    BY <1>1, <2>1 DEF Tables
  <2>6. /\ Untold("class.student_added") /\ Untold("class.scenario_assigned")
        /\ Untold("scenario.revision_published")
    BY <2>5 DEF Untold, told
  <2>7. row.number \notin NumbersOf(s)
    BY <2>1, <2>4 DEF NumberTaken, NumbersOf
  <2>8. row.number = Cardinality(RevisionsOf(s)) + 1
    <3> DEFINE n == Cardinality(RevisionsOf(s))
    <3>1. n \in Nat /\ NumbersOf(s) = 1 .. n
      BY <2>2, FS_CardinalityType DEF RecordsInv, TablesInv, NumbersInv
    <3> HIDE DEF n
    <3>2. row.number = n + 1
      BY <2>3, <2>4, <2>7, <3>1
    <3> QED
      BY <3>2 DEF n
  <2>9. db.scenarios[s] # "absent"
    <3>1. RevisionsOf(s) # {}
      BY <2>3 DEF NumbersOf
    <3> QED
      BY <2>2, <3>1 DEF RecordsInv, TablesInv, NumbersInv
  <2>10. NumbersInv' /\ GoesOn
    <3>1. NumbersInv' /\ \A t \in Scenarios : NumbersOf(t) \subseteq NumbersOf(t)'
      BY <2>2, <2>4, <2>5, <2>8, <2>9, NextNumber DEF RecordsInv, TablesInv
    <3> QED
      BY <1>1, <2>5, <3>1 DEF GoesOn
  <2>11. RevisionsTold'
    <3>1. <<"scenario.revision_created", row.id>> \in db'.audit /\ db.audit \subseteq db'.audit
      BY <2>5 DEF told
    <3> QED
      BY <2>4, <2>5, <2>6, <3>1, NewRevisionTold DEF RecordsInv, TablesInv
  <2>12. MembersTold' /\ AssignmentsTold'
    BY <2>5, <2>6, MembersKept, AssignmentsKept DEF RecordsInv, TablesInv
  <2> QED
    BY <2>10, <2>11, <2>12, FinishRelies DEF RecordsInv, TablesInv, CreateRevision
<1> QED
  BY <1>2, <1>3

\* Publishing changes neither ids nor numbers, and is told of that id.
LEMMA PublishRevisionRecords ==
  ASSUME RecordsInv, Inv', NEW h \in Handlers, PublishRevision(h)
  PROVE  RecordsInv'
<1> DEFINE After(v) == IF v.id = found[h].id THEN [v EXCEPT !.status = "published"] ELSE v
           told == <<"scenario.revision_published", found[h].id>>
<1>1. db \in Tables /\ db.inserts \in Nat /\ found[h] \in RevisionRows
  BY FoundRevision DEF RecordsInv, Inv, TypeOK, Tables, PublishRevision
<1>2. \A v \in RevisionRows :
        /\ After(v).id = v.id /\ After(v).number = v.number /\ After(v).scenario = v.scenario
        /\ v.id = found[h].id => After(v).status = "published"
        /\ v.id # found[h].id => After(v).status = v.status
  BY DEF RevisionRows
<1>3. found[h].id < db.inserts /\ found[h].id \in Nat
  <2>1. request[h].operation = "publish_revision" /\ done[h] >= 2
    BY DEF PublishRevision, Committing, Reads
  <2> QED
    BY <1>1, <2>1 DEF RecordsInv, Relied, RevisionRows
<1>4. db' = [db EXCEPT !.revisions = {After(v) : v \in @}, !.audit = @ \cup {told}]
  BY DEF PublishRevision
<1> HIDE DEF After, told
<1>5. /\ db'.members = db.members /\ db'.availability = db.availability
      /\ db'.revisions = {After(v) : v \in db.revisions} /\ db'.inserts = db.inserts
      /\ db'.scenarios = db.scenarios
      /\ db'.audit = db.audit \cup {told}
  BY <1>1, <1>4 DEF Tables
<1>6. Untold("class.student_added") /\ Untold("class.scenario_assigned")
  BY <1>5 DEF Untold, told
<1>7. db.revisions \subseteq RevisionRows
  BY <1>1 DEF Tables
<1>8. RevisionsTold'
  <2>1. ASSUME NEW v \in db.revisions
        PROVE  /\ After(v).id < db'.inserts
               /\ (After(v).status = "published")
                    <=> (<<"scenario.revision_published", After(v).id>> \in db'.audit)
               /\ After(v).number > 1 =>
                    <<"scenario.revision_created", After(v).id>> \in db'.audit
    <3>1. /\ v.id < db.inserts
          /\ (v.status = "published") <=> (<<"scenario.revision_published", v.id>> \in db.audit)
          /\ v.number > 1 => <<"scenario.revision_created", v.id>> \in db.audit
      BY DEF RecordsInv, TablesInv, RevisionsTold
    <3>2. (<<"scenario.revision_published", v.id>> \in db'.audit) <=>
            (<<"scenario.revision_published", v.id>> \in db.audit \/ v.id = found[h].id)
      BY <1>5 DEF told
    <3> QED
      BY <1>2, <1>5, <1>7, <3>1, <3>2
  <2>2. ASSUME NEW n \in Nat, <<"scenario.revision_published", n>> \in db'.audit
        PROVE  n < db'.inserts
    <3>1. CASE <<"scenario.revision_published", n>> \in db.audit
      BY <1>5, <3>1 DEF RecordsInv, TablesInv, RevisionsTold
    <3>2. CASE n = found[h].id
      BY <1>3, <1>5, <3>2
    <3> QED
      BY <1>5, <2>2, <3>1, <3>2 DEF told
  <2> QED
    BY <1>5, <2>1, <2>2 DEF RevisionsTold
<1>9. ASSUME NEW s \in Scenarios
      PROVE  /\ IsFiniteSet(RevisionsOf(s)')
             /\ \A u, v \in RevisionsOf(s)' : u.number = v.number => u = v
             /\ NumbersOf(s)' = NumbersOf(s)
             /\ Cardinality(RevisionsOf(s)') = Cardinality(RevisionsOf(s))
             /\ (RevisionsOf(s)' = {}) <=> (RevisionsOf(s) = {})
  <2> DEFINE f == [v \in RevisionsOf(s) |-> After(v)]
  <2>1. RevisionsOf(s)' = {After(v) : v \in RevisionsOf(s)}
    BY <1>2, <1>5, <1>7 DEF RevisionsOf
  <2>2. \A v \in RevisionsOf(s) : After(v).number = v.number
    BY <1>2, <1>7 DEF RevisionsOf
  <2>3. /\ IsFiniteSet(RevisionsOf(s))
        /\ \A u, v \in RevisionsOf(s) : u.number = v.number => u = v
    BY DEF RecordsInv, TablesInv, NumbersInv
  <2>4. f \in Bijection(RevisionsOf(s), RevisionsOf(s)')
    BY <2>1, <2>2, <2>3 DEF Bijection, Injection, Surjection, IsInjective
  <2>5. IsFiniteSet(RevisionsOf(s)') /\ Cardinality(RevisionsOf(s)') = Cardinality(RevisionsOf(s))
    BY <2>3, <2>4, FS_Bijection DEF ExistsBijection
  <2>6. NumbersOf(s)' = NumbersOf(s)
    BY <2>1, <2>2 DEF NumbersOf
  <2>7. \A u, v \in RevisionsOf(s)' : u.number = v.number => u = v
    BY <2>1, <2>2, <2>3
  <2> QED
    BY <2>1, <2>5, <2>6, <2>7
<1>10. NumbersInv'
  BY <1>5, <1>9 DEF RecordsInv, TablesInv, NumbersInv
<1>11. GoesOn
  BY <1>1, <1>5, <1>9 DEF GoesOn
<1>12. MembersTold' /\ AssignmentsTold'
  BY <1>5, <1>6, MembersKept, AssignmentsKept DEF RecordsInv, TablesInv
<1> QED
  BY <1>8, <1>10, <1>11, <1>12, FinishRelies DEF RecordsInv, TablesInv, PublishRevision

-----------------------------------------------------------------------------
(***************************************************************************)
(* Requests and their reads.                                               *)
(***************************************************************************)
\* Steps that leave the tables alone.
LEMMA SameTablesRecords ==
  ASSUME RecordsInv, Inv', db' = db
  PROVE  TablesInv' /\ GoesOn
<1>1. db.inserts \in Nat
  BY DEF RecordsInv, Inv, TypeOK, Tables
<1>2. /\ Untold("class.student_added") /\ Untold("class.scenario_assigned")
      /\ Untold("scenario.revision_published")
  BY DEF Untold
<1>3. TablesInv'
  BY <1>1, <1>2, MembersKept, AssignmentsKept, RevisionsKept, NumbersKept DEF RecordsInv, TablesInv
<1> QED
  BY <1>1, <1>3, NumbersKept DEF GoesOn, RecordsInv, TablesInv

\* What a read returns is what the operation will rely on.
LEMMA ReadRecords ==
  ASSUME RecordsInv, Inv', NEW h \in Handlers, Read(h)
  PROVE  RecordsInv'
<1> PICK r, n : r = request[h] /\ n = done[h] + 1
  OBVIOUS
<1>1. db' = db
  BY DEF Read
<1>2. TablesInv' /\ GoesOn
  BY <1>1, SameTablesRecords
<1>3. CASE Finish(h)
  BY <1>2, <1>3, FinishRelies DEF RecordsInv
<1>4. CASE \E row \in Rows(Reads(r)[n], r) :
             /\ found' = [found EXCEPT ![h] = row]
             /\ done' = [done EXCEPT ![h] = @ + 1]
             /\ UNCHANGED request
  <2>1. PICK row \in Rows(Reads(r)[n], r) :
          /\ found' = [found EXCEPT ![h] = row]
          /\ done' = [done EXCEPT ![h] = @ + 1]
          /\ UNCHANGED request
    BY <1>4
  <2>2. TypeOK
    BY DEF RecordsInv, Inv
  <2>3. /\ found'[h] = row /\ done'[h] = n /\ request'[h] = r
        /\ n \in Nat /\ n >= 1 /\ done[h] < Len(Reads(r))
    BY <2>1, <2>2 DEF TypeOK, Read
  <2>4. ASSUME NEW k \in Handlers, k # h
        PROVE  Relied(k)'
    <3>1. found'[k] = found[k] /\ done'[k] = done[k] /\ request'[k] = request[k]
      BY <2>1, <2>2, <2>4 DEF TypeOK
    <3> QED
      BY <1>2, <3>1, RelyKept DEF RecordsInv
  <2>5. Relied(h)'
    <3>1. ASSUME r.operation = "remove_student", n >= 2
          PROVE  row.class = r.class /\ row.student = r.student
      <4>1. n = 2 /\ Reads(r)[n] = "membership"
        BY <2>2, <2>3, <3>1 DEF Reads, TypeOK
      <4>2. row \in Memberships(r.class, r.student)
        BY <4>1 DEF Rows
      <4> QED
        BY <4>2 DEF Memberships
    <3>2. ASSUME r.operation = "unassign_scenario", n >= 2
          PROVE  row.class = r.class /\ row.revision = r.revision
      <4>1. n = 2 /\ Reads(r)[n] = "assignment"
        BY <2>2, <2>3, <3>2 DEF Reads, TypeOK
      <4>2. row \in Assignments(r.class, r.revision)
        BY <4>1 DEF Rows
      <4> QED
        BY <4>2 DEF Assignments
    <3>3. ASSUME r.operation = "publish_revision", n >= 2
          PROVE  row.id < db'.inserts
      <4>1. n = 2 /\ Reads(r)[n] = "draft_revision"
        BY <2>2, <2>3, <3>3 DEF Reads, TypeOK
      <4>2. row \in db.revisions
        BY <4>1 DEF Rows, RevisionsOf
      <4> QED
        BY <1>1, <4>2 DEF RecordsInv, TablesInv, RevisionsTold
    <3>4. ASSUME r.operation = "create_revision", n >= 2
          PROVE  row.number \in NumbersOf(r.scenario)'
      <4>1. n = 2 /\ Reads(r)[n] = "latest_revision"
        BY <2>2, <2>3, <3>4 DEF Reads, TypeOK
      <4>2. row \in RevisionsOf(r.scenario)
        BY <4>1 DEF Rows, LatestRevision
      <4> QED
        BY <1>1, <4>2 DEF NumbersOf, RevisionsOf
    <3>5. ASSUME r.operation = "archive_scenario", n >= 1
          PROVE  db'.scenarios[r.scenario] # "absent"
      <4>1. n = 1 /\ Reads(r)[n] = "active_scenario"
        BY <2>2, <2>3, <3>5 DEF Reads, TypeOK
      <4>2. ScenariosOf(r) = {r.scenario}
        BY <3>5 DEF ScenariosOf
      <4>3. db.scenarios[r.scenario] = "active"
        BY <4>1, <4>2 DEF Rows
      <4> QED
        BY <1>1, <4>3
    <3> QED
      BY <2>3, <3>1, <3>2, <3>3, <3>4, <3>5 DEF Relied
  <2> QED
    BY <1>2, <2>4, <2>5 DEF RecordsInv
<1> QED
  BY <1>3, <1>4 DEF Read

LEMMA AskRecords ==
  ASSUME RecordsInv, Inv', NEW h \in Handlers, Ask(h)
  PROVE  RecordsInv'
<1>1. TablesInv' /\ GoesOn
  BY SameTablesRecords DEF Ask
<1>2. PICK r : request' = [request EXCEPT ![h] = r]
  BY DEF Ask
<1>3. TypeOK
  BY DEF RecordsInv, Inv
<1>4. ASSUME NEW k \in Handlers
      PROVE  Relied(k)'
  <2>1. CASE k = h
    <3>1. done'[k] = 0
      BY <2>1 DEF Ask, RecordsInv, Inv, Established
    <3> QED
      BY <3>1 DEF Relied
  <2>2. CASE k # h
    <3>1. request'[k] = request[k] /\ done'[k] = done[k] /\ found'[k] = found[k]
      BY <1>2, <1>3, <2>2 DEF Ask, TypeOK
    <3> QED
      BY <1>1, <3>1, RelyKept DEF RecordsInv
  <2> QED
    BY <2>1, <2>2
<1> QED
  BY <1>1, <1>4 DEF RecordsInv

LEMMA CreateClassRecords ==
  ASSUME RecordsInv, Inv', CreateClass
  PROVE  RecordsInv'
<1>1. PICK c \in Classes :
        db' = [db EXCEPT !.classes[c] = "active", !.audit = @ \cup {<<"class.created", c>>}]
  BY DEF CreateClass
<1>2. db \in Tables /\ db.inserts \in Nat
  BY DEF RecordsInv, Inv, TypeOK, Tables
<1>3. /\ db'.members = db.members /\ db'.availability = db.availability
      /\ db'.revisions = db.revisions /\ db'.inserts = db.inserts
      /\ db'.scenarios = db.scenarios
      /\ db'.audit = db.audit \cup {<<"class.created", c>>}
  BY <1>1, <1>2 DEF Tables
<1>4. /\ Untold("class.student_added") /\ Untold("class.scenario_assigned")
      /\ Untold("scenario.revision_published")
  BY <1>3 DEF Untold
<1>5. TablesInv'
  BY <1>2, <1>3, <1>4, MembersKept, AssignmentsKept, RevisionsKept, NumbersKept
     DEF RecordsInv, TablesInv
<1>6. GoesOn
  BY <1>2, <1>3, NumbersKept DEF GoesOn, RecordsInv, TablesInv
<1>7. \A k \in Handlers : Relied(k)'
  BY <1>6, RelyKept DEF CreateClass, RecordsInv
<1> QED
  BY <1>5, <1>7 DEF RecordsInv

LEMMA InitRecords ==
  ASSUME Init, Inv
  PROVE  RecordsInv
<1>1. PICK users \in SUBSET Students : db = EmptyTables(users)
  BY DEF Init
<1>2. MembersTold /\ AssignmentsTold /\ RevisionsTold
  BY <1>1 DEF EmptyTables, MembersTold, AssignmentsTold, RevisionsTold
<1>3. NumbersInv
  <2>1. \A s \in Scenarios :
          RevisionsOf(s) = {} /\ NumbersOf(s) = {} /\ db.scenarios[s] = "absent"
    BY <1>1 DEF EmptyTables, RevisionsOf, NumbersOf
  <2>2. IsFiniteSet({}) /\ Cardinality({}) = 0 /\ 1 .. 0 = {}
    BY FS_EmptySet
  <2> QED
    BY <2>1, <2>2 DEF NumbersInv
<1>4. \A h \in Handlers : Relied(h)
  BY DEF Init, Relied, NoRequest
<1> QED
  BY <1>2, <1>3, <1>4 DEF RecordsInv, TablesInv

-----------------------------------------------------------------------------
(***************************************************************************)
(* The theorems.                                                           *)
(***************************************************************************)
\* The records keep their invariant, whatever interleaves, fails or is refused.
THEOREM RecordsInvariant == Spec => []RecordsInv
<1>1. Init /\ Inv => RecordsInv
  BY InitRecords
<1>2. RecordsInv /\ Inv' /\ [Next]_vars => RecordsInv'
  <2> SUFFICES ASSUME RecordsInv, Inv', [Next]_vars PROVE RecordsInv'
    OBVIOUS
  <2>1. CASE UNCHANGED vars
    <3>1. UNCHANGED <<db, request, done, found>>
      BY <2>1 DEF vars
    <3>2. TablesInv' /\ GoesOn
      BY <3>1, SameTablesRecords
    <3>3. \A k \in Handlers : Relied(k)'
      BY <3>1, <3>2, RelyKept DEF RecordsInv
    <3> QED
      BY <3>2, <3>3 DEF RecordsInv
  <2>2. ASSUME NEW h \in Handlers, Fail(h)
        PROVE  RecordsInv'
    BY <2>2, SameKeeps DEF Fail
  <2>3. ASSUME NEW h \in Handlers, Handle(h)
        PROVE  RecordsInv'
    BY <2>3, ReadRecords, ArchiveClassRecords, ImportStudentsRecords, AddStudentRecords,
       RemoveStudentRecords, AssignScenarioRecords, UnassignScenarioRecords,
       CreateRevisionRecords, PublishRevisionRecords, ArchiveScenarioRecords,
       StartRunRecords DEF Handle
  <2> QED
    BY <2>1, <2>2, <2>3, AskRecords, CreateClassRecords, CreateScenarioRecords DEF Next
<1> QED
  BY <1>1, <1>2, CoursesInvariant, PTL DEF Spec

\* The revisions of a scenario are numbered from 1 without gaps, although each
\* number is computed from a read that another request may have overtaken.
THEOREM CoursesNumbersWithoutGaps == Spec => []NumbersWithoutGaps
<1>1. RecordsInv => NumbersWithoutGaps
  BY DEF RecordsInv, TablesInv, NumbersInv, NumbersWithoutGaps, NumbersOf
<1> QED
  BY <1>1, RecordsInvariant, PTL

\* The audit accounts for every member, assignment and revision that is there
\* and for every one that is gone.
THEOREM CoursesAccounted == Spec => []Accounted
<1>1. RecordsInv => Accounted
  <2> SUFFICES ASSUME RecordsInv PROVE Accounted
    OBVIOUS
  <2>1. \A v \in db.revisions : v.id \in Nat
    BY DEF RecordsInv, Inv, TypeOK, Tables, RevisionRows
  <2>2. \A c, s : Memberships(c, s) # {} => <<"class.student_added", c, s>> \in db.audit
    BY DEF RecordsInv, Inv, TableInv, Memberships
  <2>3. \A c, n : Assignments(c, n) # {} => <<"class.scenario_assigned", c, n>> \in db.audit
    BY DEF RecordsInv, Inv, TableInv, Assignments
  <2>4. MembersTold /\ AssignmentsTold /\ RevisionsTold
    BY DEF RecordsInv, TablesInv
  <2> QED
    BY <2>1, <2>2, <2>3, <2>4 DEF Accounted, MembersTold, AssignmentsTold, RevisionsTold
<1> QED
  BY <1>1, RecordsInvariant, PTL

=============================================================================
