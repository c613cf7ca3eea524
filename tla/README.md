# PM-Sim in TLA+

PM-Sim is a classroom simulation of software projects.  A professor writes scenarios and assigns
them to classes; a student plays a run of a scenario week by week, answers the content the scenario
delivers on the way, and submits; the professor reads results and an audit.  This directory models
the program: its state machines as TLA+ modules, their model checking with TLC on small instances,
and theorems about them, for every value of the constants, with proofs TLAPS checks.

Paths of the code are relative to the repository; `PROJECT.json` maps each definition to its lines.

## 1. The system

| Component | State it keeps | Operations | Correct when |
| --- | --- | --- | --- |
| Simulation engine, `backend/app/simulation/` | An immutable `SimulationState`: calendar, budget, employees, task pools by difficulty, defects | `process_week` runs six stages in order (staff, unit test, fix, develop, integrate, close); `evaluate_outcome`; `build_simulation_result` | No task is lost or invented, pools stay inside each other so that no stage raises half-way, the calendar is exact, completion means that nothing is left, every run ends |
| Run service, `backend/app/simulations/service.py` | Rows `simulation_runs`, `simulation_turns`, `content_deliveries`, `content_responses`, `applied_presentation_effects` | `start_simulation_run`, `complete_simulation_turn`, `content_command`, `submit_simulation_run` | A command takes effect once and whole, whatever is retried, interleaved or lost; turns are one unbroken history; content gates hold |
| Authored content, `backend/app/authored_content/` | None: pure functions of the script and the rows | `resolve` (eligibility, order, gate), dependencies, triggers, answers, effects, `verify_replay` | Nothing is delivered before its checkpoint or its dependencies; no script blocks a run for good |
| Scenarios, `backend/app/scenarios/` | `scenarios`, `scenario_revisions` | create, revise, publish, archive; validation; conversion to engine inputs | Revisions are numbered without gaps, published ones never change |
| Classes, `backend/app/classes/` | `classes`, `class_memberships`, `scenario_availability` | create, rename, archive, import / add / remove students, assign / unassign, access queries | Only published revisions of active scenarios are assigned, and runs start only through an assignment |
| Authentication, `backend/app/auth/`, `frontend/src/context/` | `users`, `auth_sessions`; the browser's cookie and the user the page shows | login, logout, token lookup with expiry, password change and reset, clean-up | A session that is over serves nothing; the page shows the user its requests are done for, and stops when the session ends |
| Database, `backend/app/db/` | The SQLite file: WAL, `busy_timeout`, foreign keys, unique constraints | One session per request | One writer at a time, constraints decide races |
| Results and audit, `backend/app/results/`, `backend/app/audit/` | `audit_logs`; otherwise read-only | Result lists, content replay | The replay agrees with the rows, whatever was published and however it was played |
| Batch, `backend/app/batch/`, `scripts/run_batch.py`, `backend/main.py` | Report files and the manifest of an experiment | Plays many runs of the engine with strategies, writes reports one after the other | Every run ends; what is called done is on the disk, and an experiment that is let in without `--force` finds its outputs free |
| HTTP API, `backend/app/api/` | None | Maps requests to the operations and errors to status codes | A reply tells what happened |
| Student's page, `frontend/src/pages/SimulationV2.jsx` | React state: the run shown, the pending request and its idempotency key | Sends, retries, reloads | A retry is the same command |
| Professor's page, `frontend/src/pages/CourseOverview.jsx` | React state: the classes, the selected one and its details | Selects, changes, reloads | A page at rest shows what the server has |

Interactions.  The browser calls the HTTP API; each request runs in a thread of the server with its
own database session and calls one service operation, which reads rows, calls the pure engine and
the pure resolver, writes rows and commits once.  Nothing but the database is shared.  The batch
runner calls the engine directly.

What is hard.  Two tabs, a double click or a retry produce overlapping requests of one run, and the
service checks versions, gates and keys before its transaction is open.  Content resolution works in
rounds against rows that the session may have read earlier.  A turn is several writes and a flush
before one commit.  A reply may be lost after the commit, come late, or come after that of a later
request, while the cookie belongs to the browser.  A batch is killed between two files and started
again over what it left.  In the engine six stages move anonymous
tasks between pools that must stay inside each other, with rework that goes back to the start.
`PROJECT.json` lists each hazard at its line with the properties that watch it.

## 2. The modules

| Module | Models | Kind |
| --- | --- | --- |
| `WeeklyTurn` | the engine: one run, stage by stage | state machine |
| `WeeklyTurnProofs` | its invariants | proofs |
| `ContentResolver` | `resolve`, triggers, dependencies, the script rules | operators |
| `RunLedger` | what a run promises: a ledger of weeks, answers and one end | abstract specification |
| `SimulationRuns` | the run service, its sessions, transactions, retries and crashes | state machine over `ContentResolver`, implements `RunLedger` |
| `SimulationRunsProofs` | its invariants, for any number of handlers; the refinement of `RunLedger` and the gate, while requests do not overlap | proofs |
| `Courses` | classes, members, scenarios, revisions, assignments, and the access a run starts with | state machine |
| `CoursesProofs` | its invariants: types, memberships, access, the audit and the numbers | proofs |
| `StudentPage` | the page on which a student plays: loads, buttons, retries, conflicts | state machine |
| `StudentPageProofs` | its invariants | proofs |
| `AuthSessions` | sessions, passwords' changes, and one browser window | state machine |
| `AuthSessionsProofs` | its invariants | proofs |
| `ContentAudit` | a script from its publication through a run to the replay of the audit | state machine over `ContentResolver` |
| `ContentAuditProofs` | its invariants: what the replay repeats, what is delivered in time | proofs |
| `Experiments` | the batch tools and the files they leave | state machine |
| `ExperimentsProofs` | its invariants | proofs |
| `CoursePage` | the page on which a professor runs classes | state machine |
| `CoursePageProofs` | its invariants | proofs |
| `MCWeeklyTurn`, `MCSimulationRuns`, `MCConcurrentRuns`, `MCTerminalContent`, `MCCourses`, `MCStudentPage`, `MCContentAudit`, `MCComponents` | constants for TLC | instances |
| `MCScripts` | the scripts an author may try to publish | constants of two instances |

### WeeklyTurn

One variable per field of `SimulationState` that any property can tell apart, under the field's
name, and `stage`, the place reached in `process_week`.  A stage is one action: `OpenWeek` applies
hires and dismissals and computes the hours (it is disabled for a plan that `calculate_hours` refuses
because meetings and training do not fit), `UnitTest`, `FixBugs`, `Develop`, `Integrate`, and
`CloseWeek`, which pays, advances the calendar and evaluates the outcome.  Stages never interleave
with anything; they are separate actions because each builds a state that `__post_init__` validates,
and the question is whether any of them raises.

Random draws are choices: a stage may complete any number of tasks of each difficulty up to what
there is (`TaskOutput`), defects of new work are any sub-pool of it, and the sampling without
replacement of `sample_existing` is the exact hypergeometric range (`SampleExisting`).  Productivity,
error rates, stress and skill weigh those draws and are left out, as no property depends on a weight.
Employees are a count with one salary.  `Finished` is the end of a run: its callers do not play on.

### ContentResolver

`resolve` over a script of entries: `IsEligible` (the checkpoint is not after the one reached),
`DependenciesCompleted`, the order `Precedes` by priority and ordinal, and `Actionable`, the earliest
required candidate.  `Fresh` is what one round delivers: presentation entries before the gate, and the
gate.  Checkpoints are numbers in the order of `Checkpoint.sort_key`.  `ScriptAssumption` is
`ValidScript`: the rules `ScenarioDefinition` enforces before a script is stored, and that its entries are
finitely many.

### SimulationRuns

`db` is the committed content of the run tables; `writer` holds SQLite's write lock and `draft` is
the database as its open transaction sees it.  A handler goes through `phase`s in the order of the
code: `Lookup` (idempotency), `Load` (ownership, status, version), then for a turn `ReadDeliveries`,
`OpenDeliveries`, `Round`, `Gate`, `Play`, `Round`, `CommitTurn`; for content `ReadDelivery`,
`Respond`, `Round`, `CommitResponse`; for a submission `Submit`, `Round`, `CommitRun`.  `Start` inserts
the run and resolves its first content.

The concurrency is that of SQLAlchemy on Python's `sqlite3`:

- A SELECT opens no transaction and sees what is committed when it runs; the first INSERT or UPDATE
  opens one and waits for the write lock (`Write` needs `writer` free or own).  From there on the
  handler reads its own `draft`.  A handler that waits too long gives up (`GiveUp`, `busy_timeout`).
- An object once loaded is not read again: `loaded` is the run row of the session, and `seen` keeps
  the statuses of delivery rows read before the transaction, which a later SELECT in the same
  session does not refresh (`SessionStatuses`).
- An UPDATE names its row by id and writes the columns that changed against the loaded values
  (`RunAfterTurn`, `RunAfterResponse`): that is how a concurrent change survives or is overwritten.
- Unique constraints on week, key and response refuse the loser (`TurnTaken`, `ResponseTaken`) with an
  integrity error that ends its transaction.
- Being blocked commits (`CommitBlocked`), every other error rolls back.  `Fail` is a crash, or the
  engine refusing the decision, at any point before the answer.

The simulation state is the sequence of decisions played (`play`).  This is exact: the random source
of a week is seeded with the run's seed and the week, so equal histories give equal states.  The
outcome of a play is a parameter (`CompletingPlays`, `Deadline`).  A request digest covers everything
but the key, so requests with equal keys are compared as values.

Clients are arbitrary: `Send` offers every command with every key and every version up to the current
one, `Retry` repeats a command whatever its reply was, `Receive` moves on.

### RunLedger

A run as a reader of the results understands it: weeks are played one at a time while the run is
active, each entry is answered once, the run ends once and its result belongs to its last week, and
the version counts the commands.  `SimulationRuns` implements it (`LedgerSpec`) while requests are
handled one at a time; while they overlap it does not, see section 5.

### Courses

The tables that say who may play what.  Rows keep the columns that the operations read; ids are
numbers in the order of the inserts, and the audit is the set of its records.  Each operation of
`classes/service.py` and `scenarios/service.py` is a request: `Ask` takes it, `Read` does its SELECTs
one after the other (`Reads` lists them in the order of the code, `Rows` is what each returns), and
the operation's own action is its transaction: its rows and its audit record, or nothing.  A read that
returns nothing ends the operation, which is every refusal and also the quiet return of a removal that
finds no membership.  What a later step uses of a read is `found`.  The deletes name the row that was
found by its id; the inserts are refused by the unique constraints (`MembershipTaken`, `NumberTaken`).
`Fail` loses the work before the commit.  Starting a run is here up to the inserted run; the rest of
its life is `SimulationRuns`.

Left out: renaming a class, which no other operation reads, resetting a password (it is in
`AuthSessions`), the ownership checks (one professor owns everything), and the contents of a revision.

### StudentPage

What a student sees and presses.  `page` is the state of `SimulationV2.jsx` and its `ContentPanel`: the
run as some reply left it, whether the spinner is shown, the kept submission, and the entry that the
panel has pending.  `calls` are the calls on their way with the handler that awaits them: the first
load, a button of the week, or an entry's.  `Press...` are the buttons with the conditions under which
they are rendered and enabled; `Serve` is the server, one command at a time; `Receive...` is what the
handler does with the reply up to its next await, a further call included (`Reload`).  A failed call
(`Fail`) may still be carried out later, and so may what a reopened page has given up (`Abandoned`).
`Elsewhere` is another tab that shows the run as it is.

A spinner unmounts the panel: its pending entry is gone, and its handlers that still run can set the
page's run and nothing of the panel (`mounted`).  A key is a number nobody uses; it stands for the
decision it was made with, so `turns` with equal keys are one decision played twice.  The server's
script is reduced to entries that are due before a week and answered in any order.  That a button with
`isLoading` cannot be pressed is Chakra UI's.  Left out: the confirmation of a submission, which stays
open if another tab ends the run, and the decision form; the end of the session is in `AuthSessions`.

### AuthSessions

`sessions` are the rows of `auth_sessions` with the time they have left; a token is its owner and a
number, and a new session takes one that nobody has, which is what a random token amounts to.  A
request is a record that goes from `sent` over `read` to its reply.  `Read...` is what a handler reads
before it spends its time on scrypt, `Write...` its transaction; `Authenticate` deletes the expired row
it meets, as `current_user` does.  `Tick` is time, `CleanUp` the command of `main.py`.

The window is `cookie` and `page` (`AuthProvider`'s `currentUser`).  A request carries the cookie of the
moment it is sent (`FromPage`); the cookie of a reply is set when it arrives (`CookieAfter`), and so is
what the page makes of it (`PageAfter`): a 401 of anything but a login ends what it shows, a logout ends
it whatever its reply.  A reload asks again who is signed in and no longer waits for what was on its way,
which the server may still carry out; nor does it set a cookie then.  `LoseConnection` loses a reply.

Three history variables say what the code does not keep: `over`, the tokens still held somewhere whose
session has ended, `dead`, whether it had when the request was sent, and `stale`, whether the password
that a login verified has been changed since.  Passwords themselves are not modelled.

### ContentAudit

`SimulationRuns` has one script and asks what overlapping requests do to it.  Here the script is a
variable chosen once from all an author may try, `Publishable` is the validator, one student plays
request by request, and the rows are read by the replay after each.  `agenda` is what the command that
runs has still to resolve, `round` the entries that a round still delivers.  An effect is recorded with
the presentation before and after it (`AuditRows`); answers are normalised as `answers.py` does, to the
order in which the options are defined.  `Divergences` is `verify_replay` over the rows as
`load_professor_content_audit` orders them.

`NothingIsLost` says what a script that was published still gives, in two parts.  `ResolvedIsComplete`: a
checkpoint that has been resolved with nothing left to answer has delivered all that was due at it.
`FirmIsInTime`: what is due before a week is complete when that week is played, or a survey that is still
open, in every part of the script whose entries do not wait for surveys (`Firm`); required questions and
fragments hold the week up, surveys do not.  `Stages` and `Kept` are loops of the code, as functions of
the number of rounds they have gone.

### Experiments

A tool is a `process` with the jobs it has left and, for the first of them, the files it has `left` to
write, in the order of the code (`Rank`, `Writing`).  Each tool has files of its own: an experiment always
`results.json` and `results.csv` (`ExperimentOutputs`), `execute_batch` the `batch-report` files of the
formats asked for (`DirectoryOutputs`; the CSV of several strategies are one file here), `pm-sim batch`
the one it is told to write.  Only `report.html` is shared, and it presents the files of the tool that
wrote it (`Sources`).  `_atomic_write` is one step (a temporary file takes the destination's place;
that nothing comes between its `exists` and its `os.replace` is because one tool runs at a time),
`write_text` two (`Truncate`, `Fill`).  Every step may fail:
`run_batch.py` then records the job as failed and goes on, the other tools end.  `Kill` ends a process
anywhere.  A file remembers which start wrote it, from which version of the scenario.

### CoursePage

`server` is how often each active class was changed, `details` the class and the version the page
shows.  `loads` are the requests for details in the order they were sent; each is read by the server
and received when it likes.  An action (`runAction`) locks the other actions and then awaits the server,
perhaps the list of classes, perhaps the details, in the order of each handler (`Served`, `Listed`).
`calm` is history: it is lost when a request fails, a load overtakes another, or the professor selects
a class during an action, and comes back with the next selection of a page at rest.

### MCComponents

These four parts share no variable with each other or with the rest.  `MCComponents` explores them in one
run: `part` names the one that runs and the others rest in an initial state, so its behaviours are those
of each, side by side, and the states of the run are the sum of theirs.  It extends all four, so that the
properties checked are the ones the theorems state, and TLC evaluates the assumptions the proofs use.

## 3. The runs

| Run | Question | Instance and why it is enough |
| --- | --- | --- |
| `engine` | Do the pools, the calendar and completion stay right over all draws, and does every run end? | Two tasks of different difficulty, three full weeks and a short one, overtime and reserved hours, among them plans that fit only with overtime: enough to develop, test, integrate, fail, return and accept in different weeks.  Small because the theorems cover every backlog and calendar |
| `run_serial` | Does one request at a time keep the ledger, the gates and retries, and can a student always finish? | Three keys (two weeks and two gates need them; a key can be reused), two weeks (a turn from a started run and one from a played one), one crash; a script with every kind of entry, a gate at the start, one that an event opens, and an end |
| `run_concurrent` | What holds for two requests in every interleaving: is the history a chain, is each entry answered once and never delivered early, and does a run that is over stay over? | Two handlers, two keys, two weeks; an optional question whose answer frees a gate, and an event that makes the resolution of a turn open its transaction before the gate.  Handlers and keys are symmetric |
| `run_concurrent_version`, `run_concurrent_gate` | Is the version monotone, do gates hold, while requests overlap? No | As `run_concurrent` |
| `content_unreachable` | Is all content of the end delivered? No | A script that ends with two gates |
| `courses` | Do numbers, members, access and audit stay right for two requests in every interleaving? | Two handlers, one class, one scenario, two students, accounts that exist or not at the start, and three inserts: two revisions with an assignment, or an import against an addition.  Handlers and students are symmetric |
| `courses_archived` | Does an archived class stay as it is? No | As `courses` |
| `student_page` | Is no decision played twice, is a week played only from a page that named it, and does the student finish, whatever fails and overlaps? | Three weeks (one lost, one played elsewhere, one played from the replay of the first), an optional entry from the start (its conflict reloads the page while a submission is kept) and a required one (its gate refuses the first week), one failure, one command of another tab, one command that arrives late, two calls awaited at once |
| `components`, sessions | Does a session that is over serve nothing, does the page show the user its cookie stands for, and does it close when the session ends? | Two users (one takes over the window of the other), two tokens, sessions that live one step (they expire while a request is on its way), two requests on their way, one lost reply, reload, login elsewhere or reset |
| `components`, scripts | What does the replay make of runs nobody touched, and can what is published lock itself? | Every script of three entries, each depending on any one entry or none, one of lower priority, over two weeks: events with effects, required fragments and surveys at the start, before the first week and at the end, and fragments and surveys before and after the first week and before the second.  That gives a circle of three, a dependency on a later checkpoint, a gate that an event opens, a chain of surveys.  Hidden events, notes and questions are combinations of what these do, and the theorems cover every script (2.3 million states with the other three parts) |
| `components`, experiments | Is what the manifest and the exit status say on the disk, in which order do files appear, and does the check at the start cover what is written later? | A matrix of two jobs, two starts of any tool with any formats (one is killed, the next meets what it left) and one edit of the scenario |
| `components`, the professor's page | Does a page at rest show the class it selects as it is? | Three classes, two actions (one after the other, or one archives what the next is about), two loads on their way (one overtakes the other) |
| `sessions_old` | Do sessions opened with an old password end with it? No | As `components` |
| `audit_replay` | Is the replay of a run that nobody touched free of divergences? No | As `components` |

Two handlers suffice for the safety of overlapping requests because a request interacts with others
only through `db` (and the lock): what a sequence of other requests does to `db` between two steps of
one handler, the other handler can do by sending them one after the other.  What two do not show is
three requests that overlap pairwise.  `AuthSessions` alone was also explored with three requests on
their way (1.8 million states), which found nothing more.

Fairness.  `WeeklyTurn!FairSpec` has WF of the whole next step, as `run_simulation` loops and
`process_week` never waits.  `SimulationRuns!FairSpec` has WF of each handler's own steps: the
server's threads run, and waiting for the lock ends in `GiveUp`.  `PlayedSpec` adds the student: WF of
starting and, because other commands may be sent in between, SF of reading replies and of sending
a useful next request (a turn when nothing blocks, a response to what blocks, current version, fresh
key).  `StudentPage!FairSpec` has
WF of each waiter's calls, which end in a reply or an error, and SF of the buttons (a reload takes them
away again and again) and of opening the page anew when it offers nothing else; nothing is assumed of
discarding, submitting, other tabs, or calls nobody awaits.  `AuthSessions` has WF of reading, writing
and receiving, and of a window that shows a user sending some request: the page polls nothing, but its
timer logs out after an hour without activity, so it does send one.  Time, clean-up, logins and troubles
are never assumed.  Crashes are bounded by `MaxFailures`, without which a run that fails every time would
never end.

Deadlock is checked in every run of the engine, the run service and the courses.  It is not checked in
`student_page`, where a run is over and read, nor in `components` and the runs of its modules, where a
batch, a run or a page whose bounds are used up really is at its end.

## 4. What is proved

In `WeeklyTurnProofs`, from the assumptions on the constants that `WeeklyTurn` states (a backlog, a
calendar and a budget that are natural numbers) and nothing else:

| Theorem | States |
| --- | --- |
| `TypeCorrect` | `TypeOK` |
| `NeverRaises` | `StateValid`: no stage builds a state that `__post_init__` refuses |
| `Conservation` | `TasksConserved` |
| `Calendar` | `CalendarExact` |
| `CompletedClean` | `CompletedIsClean` |
| `FreshWork` | `FreshWorkWaits` |
| `NeverRevoked` | `AcceptedStays` |
| `DeadlineIsAWeek` | `OverByTheDeadline`: a run goes on only before the deadline week, and only that week is reported as the deadline |

None of these is inductive alone.  The inductive invariant is `Inv`, of two parts.  `PoolInv` is what the
pools keep from stage to stage: their types, the containments of `StateValid` and conservation.
`WeekInv` is `CalendarExact` with what ties it to the stage: a week that is being played has days left and
is as long as they allow.  `Invariance` shows `Spec => []Inv`, one step per action; each theorem follows
from it, `FreshWork` and `DeadlineIsAWeek` by an induction of their own on top of it.  `DeadlineIsAWeek` is
what lets `SimulationRuns` speak of a `Deadline` in weeks: an unfinished run has days left, so the week that
reaches the deadline ends with an outcome, no week before it is reported as the deadline, and none follows.
With every week ending, this is the safety half of `RunEnds`.  `CompletedClean` also needs
`EqualTotals`: `evaluate_outcome` compares two sums over the difficulties, and because one pool
contains the other difficulty by difficulty, equal sums make the pools equal.

In `CoursesProofs`, for any number of handlers, classes, students and scenarios:

| Theorem | States |
| --- | --- |
| `CoursesTyped` | `TypeOK` |
| `CoursesMembersOnce` | `MembersOnce` |
| `CoursesRunsHadAccess` | `RunsHadAccess` |
| `CoursesNumbersWithoutGaps` | `NumbersWithoutGaps` |
| `CoursesAccounted` | `Accounted` |
| `CoursesInvariant` | the inductive invariant the first three follow from |

What a handler has read may be out of date when it commits: the class may be archived, the student
removed, the assignment withdrawn.  The proof therefore rests on what cannot be taken back (`Grows`):
accounts are not deleted, published revisions stay published, the audit only grows.  `Established`
says which of these facts each read has secured for its handler, and two lemmas (`FinishKeeps`,
`OthersKeep`) show once that a step of another handler keeps them, so each action only has to show
that its own tables stay typed, that it takes nothing back, and that `TableInv` holds.  `TableInv` adds
to `MembersOnce` that every member has an account: an import inserts accounts under their unique
names together with the memberships, so it cannot add somebody who is already a member.

For the last two, the invariant `RecordsInv` adds what a transaction `Relied` on when it read: the row found for a removal
is of that class and student, the id of a revision was given before the next one, and the number read as
the last one was given.  None of this can be taken back (`GoesOn`), so it holds when the transaction
commits.  The number a handler computes from its read may have been given meanwhile; the unique
constraint then refuses it, and a number that passes is one more than one that was given and not given
itself.  As the numbers given are `1 .. n`, it is `n + 1` (`NextNumber`).  For the audit, a removal that
deletes a row deletes the only one there is (`MembersOnce`), and it records it in the same transaction.

In `SimulationRunsProofs`, for any number of handlers, requests, failures and any script that the rules
allow:

| Theorem | States |
| --- | --- |
| `RunsTyped` | `TypeOK` |
| `HistoryIsComplete` | `TurnChain` |
| `ResponsesAreUnique` | `OneResponse` |
| `DependenciesHold` | `DependenciesFirst` |
| `DeliveriesAreTimely` | `NothingEarly` |
| `AcknowledgedIsStored` | `RepliesAreStored` |
| `OverIsOver` | `StaysOver` |
| `NothingIsTakenBack` | every step satisfies `Grows(db, db')`: history is continued, turns, deliveries and completions stay |
| `RunsInvariant` | the inductive invariant they follow from |

The argument is that of optimistic concurrency, and shows where it does not need the version.  Only the
handler that holds the write lock has a draft (`LockInv`), and the draft is the database with the rows
of one request on top (`DraftOK`), because nobody else commits meanwhile.  What a handler read before it
held the lock may be old, but runs only grow (`Grows`): what was completed, delivered, played or ended
stays so, which is what dependencies, checkpoints and replies need.  The one thing that does need the
present is a turn, whose play extends the history it loaded.  Weeks are unique and without gaps, so a
turn that the unique constraint lets in has been computed from the last week there is (`PlayedStep`),
and is never inserted behind one it has not seen.  That the *version* may go back and a gate may be
passed nonetheless is what the runs of section 5 show.

The same module goes on under `Serial` (there is one handler; it may still fail, lose replies and retry):

| Theorem | States |
| --- | --- |
| `RunsKeepLedger` | `LedgerSpec`: `SimulationRuns` implements `RunLedger` |
| `GatesHold` | `GateHolds` |
| `BlockersAreShown` | `BlockedShowsBlocker` |
| `RetriesAreSafe` | `RetriesSucceed` |
| `SerialInvariant` | the inductive invariant they follow from |

With one handler the loaded run is the current one (`CurrentInv`), a key found free stays free until it
is used (`KeysInv`, `TakenInv`), and a request that is worked on has not been stored (`UnstoredInv`).
`LedgerCommit` shows that each commit is one step of the ledger; everything else stutters.  For the gate,
a round that finds nothing fresh and nothing blocking means that every required entry that is due has
been completed (`NoGateLeft`): otherwise there would be a first one in the order, whose dependencies are
completed or would come first themselves.  That there is a first one (`FirstInOrder`) is because the script
is finite: a smallest set of entries without a first one could not lose any of them.

In `AuthSessionsProofs`, for any number of users, sessions, requests on their way and troubles, and any
lifetime:

| Theorem | States |
| --- | --- |
| `SessionsTyped` | `TypeOK` |
| `SessionsEndedServesNothing` | `EndedServesNothing` |
| `SessionsPageIsCookies` | `PageIsCookies` |
| `SessionsInvariant` | the inductive invariant they follow from |

`EndedServesNothing` needs that a token whose session is over never works again (`OverInv`): no row that
has not expired bears it, and a new row takes a token nobody holds, so a token that is still held by the
browser or by a request cannot come back to life; and the token of a request sent in vain stays in
`over` while the request is on its way (`DeadInv`).  `PageIsCookies` needs what replies can still do to the
cookie and the page: while the page asks who is there, only that question is awaited and the cookie is the
one it was asked with (`MeInv`); the form to sign in shows only when nobody is, so the login that is
answered finds no other user's page, and its reply carries a token of the user it names (`LoginInv`).
That a logout and a changed password take the cookie and the page together needs no more than their
handlers; the deletion of a logout names a token it has found (`LogoutInv`), which types need.

In `StudentPageProofs`, for any script, any number of weeks, failures, other tabs and calls on their way:

| Theorem | States |
| --- | --- |
| `PageTyped` | `TypeOK` |
| `DecisionsArePlayedOnce` | `DecisionPlayedOnce` |
| `PlayedWeeksWereShown` | `PlayedWeekWasShown` |
| `PageInvariant` | the inductive invariant they follow from |

Whatever the page shows and any reply brings was the run at some moment (`SeenInv`): an earlier version,
or this version with its week.  So a request for a turn names an old version, which the server refuses,
or the present one, whose week was shown (`NamedInv`), in whatever order loads, responses and conflicts
have set the page.  A turn made a version (`MadeInv`), so a repeated key meets its turn and plays nothing.
That a key nobody uses exists needs that finitely many are used (`FiniteInv`).

In `ExperimentsProofs`, for any matrix, any number of starts, failures, kills and edits:

| Theorem | States |
| --- | --- |
| `HtmlStandsOnItsSources` | `HtmlAfterSources` |
| `SuccessMeansComplete` | `SuccessIsComplete` |
| `ZeroIsTheWholeMatrix` | `ZeroMeansAll` |
| `AdmittedStaysFree` | `AdmittedIsFree` |
| `ExperimentsInvariant` | the inductive invariant they follow from |

A process may die anywhere and leave what it has written, so the invariant speaks of the starts that
wrote the files: files are of starts up to the last one (`TypeInv`), what the job at hand has written so
far and what its successful entries promise is of the present start (`WorkInv`), and entries and jobs left
make up the matrix (`MatrixInv`).  A write makes a file as new as any, so it keeps every claim about older
ones (`WriteKeeps`); only the HTML needs its sources first, and it comes last (`HtmlIsLast`).
`AdmittedIsFree` rests on the distinct paths of the jobs: a write takes its file out of `left` and touches
the place of no later job.  All there is to assume is that the matrix is a sequence of names, no two of
them equal (`ExperimentsAssumption`), which `_experiment` makes sure of.

In `ContentAuditProofs`, for any set of scripts, any number of entries, weeks and options:

| Theorem | States |
| --- | --- |
| `ReplayRepeats` | `OnlyOrderDiverges` |
| `PublishedIsDelivered` | `NothingIsLost` |
| `PublishedIsValid` | `ValidScript`, of every script that can be published |
| `AuditInvariant` | the inductive invariant they follow from |

The records replay because each was made as the replay makes it: `Repeats` says that every effect was
recorded between the presentation that the effects before it make and the one that it makes of that, and
`RowsRepeat` that the rows of one more delivery keep this; `NormalizedOnce` says that a normalised answer
is its own normal form.  `PublishedIsValid` closes a gap between two modules: what the theorems of
`SimulationRuns` assume of a script (`ScriptAssumption`) is what the validator, with sort keys of its
own, establishes; only the types of the fields are taken from the authors' forms (`AuditAssumption`).  In
a script that is listed in order, what an entry depends on is listed, and so was delivered and completed,
before it (`DeliveryInv`).  That nothing is lost rests on the validator: entries that are due and not
complete would have one among them that waits for none of the others (`Acyclic`), and its dependencies
are due with it (`DueDependencies`), so it is a candidate; a required one is actionable or another blocks
in its place, anything else is fresh (`NothingFresh`).  `DueIsComplete` applies this to a checkpoint that
is resolved, `FirmIsComplete` to the gate of a week, from where it holds on because weeks only go up and
what is completed stays so (`FirmKept`).  `Applied` and `Kept` are recursive functions; what they compute
is proved by `Induction`, for a property given as the set of the numbers that have it, over the least
number that does not.

In `CoursePageProofs`, for any classes, any number of the professor's actions and of loads on their way:

| Theorem | States |
| --- | --- |
| `QuietPagesAreCurrent` | `QuietPageIsCurrent` |
| `CoursePageInvariant` | the inductive invariant they follow from |

The page is current at rest because of what is on its way before (`ViewInv`): on a calm page the last load
asked for is of the selected class and will be read as it is, or has been, and when none is left the details
shown are those.  This fails in two stretches, which the invariant names: an action has changed the class on
the server and has yet to ask for its details (`Behind`), or the list of classes is on its way and will
select one (`Choosing`).  `ActionInv` says that the action of a calm page is about the selected class, or
that nothing is selected, in each stage of each operation, so that what it asks for is what was missing; and
`LoadsInv` that the load an action waits for is the only one of its kind, so that the reply that unlocks the
page is its own.

Only model-checked is liveness (`RunEnds`, `StudentFinishes`, `DeadPageCloses`): the prover does not handle
fairness.  Every other property that a passing run checks is a theorem.  `MCScripts` enumerates scripts by
construction and has nothing to prove.

## 5. What the runs found

- **A version can go back** (`run_concurrent_version`).  The version is compared when a request loads
  the run and written as `expected_version + 1` by an UPDATE that names the row by id alone.  Of
  commands that overlap, the last to commit decides.
- **A gate can be passed** (`run_concurrent_gate`).  The gate is read before the turn's transaction is
  open; an answer that frees a required entry in between is not noticed, and the version check does
  not notice the answer either.
- **Content can become unreachable** (`content_unreachable`).  Responding to a `run_finished` entry
  resolves its checkpoint without `terminal=True`, so a second gate at the end is never delivered.
- **An archived class can change** (`courses_archived`).  Whether the class is active is read before
  the transaction opens and by no later statement.  An import hashes up to a hundred passwords
  between the two.
- **A session can survive a password change** (`sessions_old`).  A login reads the hash, verifies the old
  password and inserts its session last; a change or a reset that commits in between deletes the sessions
  there are, and that one is not among them.
- **The audit reports divergences of its own making** (`audit_replay`).  Deliveries are loaded by their
  place in the sequence, and the replay expects that list to be in the order of checkpoints, priorities
  and dependencies.  A script may list its entries in any order.  `OnlyOrderDiverges` shows that nothing
  else diverges.

Seen while modelling, and not the subject of a run: a retried week names the version the page shows
now, so that after a reload in between its decision may be played for a later week than it was made
for; a run that another tab has ended refuses a week with 400, on which the page neither reloads nor
stops offering the retry; and when only the list of turns fails to load after a played week, the page
offers a retry of a request it has already given up.  Further:

- A response that failed stays pending in the content panel, which says that the same request can be
  retried, but its button is in its loading state and cannot be pressed; the page has to be opened anew.
- A completed run may hold wrong specifications that no integration exposed: the failures are sampled
  from all completed tasks.
- Priority sorts a waiting entry of an earlier checkpoint behind a new one of a later checkpoint, and a
  submission resolves every checkpoint at once, those of weeks never played included.
- What waits for a survey may come late or never.  Answering resolves only the checkpoint of the entry that
  was answered (`service.py:498-499`), so an entry of a later checkpoint waits for the next turn.  Of three
  surveys in a chain, before the last week but one, after it and before the last, the third is never
  delivered even to a student who answers everything before each turn, and neither is what waits for a
  survey of the last turn.  `NothingIsLost` says what is not lost.
- The run API does not apply the visibility of authored objects (`visibility.py`), which
  `docs/scenario-authoring.md:105` describes.
- Two tabs share one cookie: when one signs in as somebody else, the other goes on showing its user.
- Selecting a class while an action runs, or two loads that overtake each other, can leave the professor's
  page with the details of a class that is not the selected one.
- The scenario of a batch is hashed and executed from two reads of its file.  `execute_batch` with a
  directory rewrites its JSON and CSV in place and then refuses to replace an older HTML, which then
  stands beside newer files; a process killed in between leaves a torn file.
- A removal whose membership was removed and added again in between deletes nothing and is recorded as
  done.
- A run may start for a student who was removed, or of a revision that was unassigned or archived, between
  the check of access and the insert.  `RunsHadAccess` says no more than that access was once given.

## 6. What is not modelled, and the plan

Left out for good: password hashing, JSON and HTML serialisation, the backup call, schema migrations and
settings, the check of the documentation, page layout, forms and charts, read-only lists.  The
floating-point formulas of productivity, quality and score have no control of their own; their draws are
choices in `WeeklyTurn`.  The strategies and statistics of a batch are arithmetic over results.

Next, in this order:

1. `Courses` composed with `SimulationRuns`, so that a run is played through the class that gave access
   to it, and `StudentPage` with `SimulationRuns` in place of its simple server.
2. `TaskDistribution`: the largest-remainder distribution and the integer parts of the score against
   reference definitions over bounded inputs.
