---------------------------- MODULE SimulationRuns ----------------------------
(***************************************************************************)
(* The life of one simulation run: backend/app/simulations/service.py.     *)
(*                                                                         *)
(* Students play a run through requests: weekly turns, answers and         *)
(* acknowledgements of authored content, and submission.  Each request is  *)
(* handled by a thread with a database session of its own, so requests of  *)
(* one run interleave.  A handler first reads, each SELECT seeing what is  *)
(* committed at that moment; its first INSERT or UPDATE opens a            *)
(* transaction that holds the write lock of the database (`writer') until  *)
(* it commits, and that sees what was committed when it was opened.  What  *)
(* a handler read before is kept in its session and is not read again.     *)
(*                                                                         *)
(* The tables are one value, db; draft is db as the writer sees it.  The   *)
(* simulation state is the sequence of the decisions played, which         *)
(* determines it: turns are seeded by the run's seed and the week.         *)
(***************************************************************************)
EXTENDS ContentResolver, Sequences

CONSTANTS
  Handlers,         \* the requests that can be handled at once
  NoHandler,        \* nobody holds the write lock
  Keys,             \* idempotency keys clients generate
  Decisions,        \* the canonical weekly decisions
  CompletingPlays,  \* the plays after which the engine reports completion
  Deadline,         \* the week in which the engine reports the deadline
  MaxFailures       \* bound: crashes and refusals that lose a request's work

ASSUME HandlerAssumption == NoHandler \notin Handlers
ASSUME DeadlineAssumption == Deadline \in 1 .. Horizon
ASSUME FailureAssumption == MaxFailures \in Nat

Plays == Seq(Decisions)

\* evaluate_outcome of the state a play leads to.
Outcome(play) ==
  IF play \in CompletingPlays THEN "completed"
  ELSE IF Len(play) >= Deadline THEN "deadline_reached" ELSE "active"

-----------------------------------------------------------------------------
(***************************************************************************)
(* Requests.  The digest of a request covers its kind, version and payload *)
(* but not its key; comparing whole requests with equal keys is the same.  *)
(***************************************************************************)
Turns == [kind : {"turn"}, key : Keys, decision : Decisions, expected : Nat]
ContentCommands ==
  [kind : {"answer", "acknowledge"}, key : Keys, entry : Entries, expected : Nat]
Submissions == [kind : {"submit"}, expected : Nat]
NoRequest == [kind |-> "none"]
StartRequest == [kind |-> "start"]

Requests == Turns \cup ContentCommands \cup Submissions

(***************************************************************************)
(* Rows.  A run that has not been started has status "absent".             *)
(***************************************************************************)
NoResult == [play |-> <<>>, submitted |-> FALSE]

RunRows ==
  [status : {"absent", "active", "completed", "deadline_reached", "submitted"},
   week : Nat, version : Nat, play : Plays, result : [play : Plays, submitted : BOOLEAN]]
TurnRows == [week : Nat, request : Turns, version : Nat, play : Plays]
NoTurn == [week |-> 0]
ResponseRows == ContentCommands

NoRun == [status |-> "absent", week |-> 0, version |-> 0, play |-> <<>>, result |-> NoResult]
NewRun == [status |-> "active", week |-> 0, version |-> 1, play |-> <<>>, result |-> NoResult]

Databases ==
  [run : RunRows, turns : SUBSET TurnRows, deliveries : Statuses,
   responses : SUBSET ResponseRows]

EmptyDatabase ==
  [run |-> NoRun, turns |-> {}, deliveries |-> Undelivered, responses |-> {}]

-----------------------------------------------------------------------------
VARIABLES
  db,       \* what is committed
  writer,   \* the handler whose transaction holds the write lock
  draft,    \* the database as that transaction sees it
  phase,    \* how far a handler is
  request,  \* what it was asked
  loaded,   \* the run row in its session
  seen,     \* the statuses of the delivery rows in its session
  reply,    \* its answer
  failures  \* how often a request's work was lost

session == <<loaded, seen>>
vars == <<db, writer, draft, phase, request, session, reply, failures>>

Resolving == {"before_week", "after_week", "run_finished", "run_started", "responded"}
Phases == Resolving \cup
  {"idle", "lookup", "load", "deliver", "gate", "play", "open", "respond", "submit", "commit", "done"}
Outcomes == {"none", "ok", "rejected", "conflict", "blocked", "integrity_error", "failed"}

NoReply == [outcome |-> "none", turn |-> NoTurn]
Replies == [outcome : Outcomes, turn : TurnRows \cup {NoTurn}]

\* The database as h sees it now.
View(h) == IF writer = h THEN draft ELSE db

\* h's transaction, opened now if it is not open, changes the database to d.
Write(h, d) ==
  /\ writer \in {NoHandler, h}
  /\ writer' = h
  /\ draft' = d
  /\ UNCHANGED db

\* The transaction of h commits d; one that failed leaves nothing.
Commit(h, d) ==
  /\ writer = h
  /\ db' = d
  /\ draft' = EmptyDatabase
  /\ writer' = NoHandler

Rollback(h) ==
  IF writer = h
  THEN writer' = NoHandler /\ draft' = EmptyDatabase /\ UNCHANGED db
  ELSE UNCHANGED <<db, writer, draft>>

Proceed(h, to) == phase' = [phase EXCEPT ![h] = to]

\* h answers and its session ends.
Answer(h, outcome, turn) ==
  /\ phase' = [phase EXCEPT ![h] = "done"]
  /\ reply' = [reply EXCEPT ![h] = [outcome |-> outcome, turn |-> turn]]
  /\ loaded' = [loaded EXCEPT ![h] = NoRun]
  /\ seen' = [seen EXCEPT ![h] = Undelivered]

-----------------------------------------------------------------------------
Init ==
  /\ db = EmptyDatabase
  /\ writer = NoHandler
  /\ draft = EmptyDatabase
  /\ phase = [h \in Handlers |-> "idle"]
  /\ request = [h \in Handlers |-> NoRequest]
  /\ loaded = [h \in Handlers |-> NoRun]
  /\ seen = [h \in Handlers |-> Undelivered]
  /\ reply = [h \in Handlers |-> NoReply]
  /\ failures = 0

\* start_simulation_run inserts the run and resolves run_started.  Starting
\* again would start another run.
Start(h) ==
  /\ db.run = NoRun
  /\ phase[h] = "idle"
  /\ writer = NoHandler
  /\ Write(h, [db EXCEPT !.run = NewRun])
  /\ request' = [request EXCEPT ![h] = StartRequest]
  /\ Proceed(h, "run_started")
  /\ UNCHANGED <<session, reply, failures>>

\* A client sends a request that names the version it last read, or an older
\* one that another tab still shows.
Send(h) ==
  /\ db.run # NoRun
  /\ phase[h] = "idle"
  /\ \E r \in [kind : {"turn"}, key : Keys, decision : Decisions, expected : 1 .. db.run.version]
          \cup [kind : {"answer", "acknowledge"}, key : Keys, entry : Delivered(db.deliveries),
                expected : 1 .. db.run.version]
          \cup [kind : {"submit"}, expected : 1 .. db.run.version] :
       request' = [request EXCEPT ![h] = r]
  /\ Proceed(h, IF request'[h].kind = "submit" THEN "load" ELSE "lookup")
  /\ UNCHANGED <<db, writer, draft, session, reply, failures>>

\* The client has its reply, or sends the same request again because the
\* reply was lost or reported a failure.
Receive(h) ==
  /\ phase[h] = "done"
  /\ Proceed(h, "idle")
  /\ request' = [request EXCEPT ![h] = NoRequest]
  /\ reply' = [reply EXCEPT ![h] = NoReply]
  /\ UNCHANGED <<db, writer, draft, session, failures>>

Retry(h) ==
  /\ phase[h] = "done"
  /\ request[h] \in Requests
  /\ Proceed(h, IF request[h].kind = "submit" THEN "load" ELSE "lookup")
  /\ reply' = [reply EXCEPT ![h] = NoReply]
  /\ UNCHANGED <<db, writer, draft, request, session, failures>>

-----------------------------------------------------------------------------
(***************************************************************************)
(* Before the transaction.                                                 *)
(***************************************************************************)

\* Mutant: a key is never looked up.
NothingStored(h) == {}

\* The row stored under the key of h's request.
Stored(h) ==
  IF request[h].kind = "turn"
  THEN {t \in db.turns : t.request.key = request[h].key}
  ELSE {[request |-> c] : c \in {c \in db.responses : c.key = request[h].key}}

\* Mutant: whoever knows the key gets the stored row.
LookupByKey(h) ==
  /\ phase[h] = "lookup"
  /\ \/ /\ Stored(h) = {}
        /\ Proceed(h, "load")
        /\ UNCHANGED <<session, reply>>
     \/ \E row \in Stored(h) :
          Answer(h, "ok", IF request[h].kind = "turn" THEN row ELSE NoTurn)
  /\ UNCHANGED <<db, writer, draft, request, failures>>

\* Idempotency precedes the version: a stored request is answered from its row,
\* and a key stored for another request is refused.
Lookup(h) ==
  /\ phase[h] = "lookup"
  /\ \/ /\ Stored(h) = {}
        /\ Proceed(h, "load")
        /\ UNCHANGED <<session, reply>>
     \/ \E row \in Stored(h) :
          /\ row.request = request[h]
          /\ Answer(h, "ok", IF request[h].kind = "turn" THEN row ELSE NoTurn)
     \/ \E row \in Stored(h) :
          /\ row.request # request[h]
          /\ Answer(h, "conflict", NoTurn)
  /\ UNCHANGED <<db, writer, draft, request, failures>>

\* Mutant: turns are accepted after the end, as content is.
AcceptsAlways(h) == request[h].kind # "submit" \/ db.run.status = "active"

\* Content may be answered after the end of the run.
Accepts(h) == db.run.status = "active" \/ request[h] \in ContentCommands

\* The handler reads the run once and works with this row from then on.
\* Submitting a run that is over is no error.
Load(h) ==
  /\ phase[h] = "load"
  /\ \/ /\ ~Accepts(h)
        /\ Answer(h, IF request[h].kind = "submit" THEN "ok" ELSE "rejected", NoTurn)
     \/ /\ Accepts(h)
        /\ db.run.version # request[h].expected
        /\ Answer(h, "conflict", NoTurn)
     \/ /\ Accepts(h)
        /\ db.run.version = request[h].expected
        /\ loaded' = [loaded EXCEPT ![h] = db.run]
        /\ Proceed(h, CASE request[h].kind = "turn" -> "before_week"
                        [] request[h].kind = "submit" -> "submit"
                        [] OTHER -> "open")
        /\ UNCHANGED <<seen, reply>>
  /\ UNCHANGED <<db, writer, draft, request, failures>>

-----------------------------------------------------------------------------
(***************************************************************************)
(* Delivering content.  _resolve_content delivers round by round, because  *)
(* what completes in one round may free what depends on it.  A round that  *)
(* completes nothing leaves nothing fresh, so stopping there or after one  *)
(* more look is the same.                                                  *)
(***************************************************************************)

\* The week h plays.
Week(h) == loaded[h].week + 1

Reached(h) ==
  CASE phase[h] = "run_started" -> RunStarted
    [] phase[h] = "before_week" -> BeforeWeek(Week(h))
    [] phase[h] = "after_week" -> AfterWeek(Week(h))
    [] phase[h] = "run_finished" -> RunFinished
    [] phase[h] = "responded" -> Trigger[request[h].entry]

\* A row that is already in the session keeps the status it had when it was
\* first read; other rows are read as they are now.
SessionStatuses(h) ==
  [e \in Entries |->
     IF seen[h][e] # "pending" THEN seen[h][e] ELSE View(h).deliveries[e]]

FreshFor(h) == Fresh(SessionStatuses(h), Reached(h), phase[h] = "run_finished")

\* Where a handler goes once a checkpoint has nothing more to deliver.
AfterResolving(h) ==
  CASE phase[h] = "before_week" -> "gate"
    [] phase[h] = "after_week" /\ Outcome(Append(loaded[h].play, request[h].decision)) # "active"
         -> "run_finished"
    [] OTHER -> "commit"

\* The delivery rows are read before a turn has written anything.
ReadDeliveries(h) ==
  /\ phase[h] = "before_week"
  /\ writer # h
  /\ seen' = [seen EXCEPT ![h] = db.deliveries]
  /\ Proceed(h, "deliver")
  /\ UNCHANGED <<db, writer, draft, request, loaded, reply, failures>>

\* What is fresh by what was read opens the transaction, unless somebody else
\* has delivered it since: then the unique constraint refuses it.
OpenDeliveries(h) ==
  /\ phase[h] = "deliver"
  /\ LET fresh == Fresh(seen[h], BeforeWeek(Week(h)), FALSE)
     IN  \/ /\ fresh = {}
            /\ Proceed(h, "gate")
            /\ seen' = [seen EXCEPT ![h] = Undelivered]
            /\ UNCHANGED <<db, writer, draft, loaded, reply>>
         \/ /\ fresh # {}
            /\ fresh \cap Delivered(db.deliveries) = {}
            /\ Write(h, [db EXCEPT !.deliveries = Deliver(@, fresh)])
            /\ Proceed(h, "before_week")
            /\ UNCHANGED <<session, reply>>
         \/ /\ fresh \cap Delivered(db.deliveries) # {}
            /\ writer = NoHandler
            /\ Answer(h, "integrity_error", NoTurn)
            /\ UNCHANGED <<db, writer, draft>>
  /\ UNCHANGED <<request, failures>>

\* One round inside the transaction.
Round(h) ==
  /\ phase[h] \in Resolving
  /\ writer = h
  /\ \/ /\ FreshFor(h) # {}
        /\ Write(h, [draft EXCEPT !.deliveries = Deliver(@, FreshFor(h))])
        /\ UNCHANGED <<phase, seen>>
     \/ /\ FreshFor(h) = {}
        /\ Proceed(h, AfterResolving(h))
        /\ seen' = [seen EXCEPT ![h] = Undelivered]
        /\ UNCHANGED <<db, writer, draft>>
  /\ UNCHANGED <<request, loaded, reply, failures>>

-----------------------------------------------------------------------------
(***************************************************************************)
(* Weekly turns.                                                           *)
(***************************************************************************)

\* Mutant: the blocked command is rolled back like any other error.
ReleaseBlocked(h) == Rollback(h)

\* Being blocked is a committed outcome: the blocking delivery must be there
\* for the student to respond to.
CommitBlocked(h) ==
  IF writer = h THEN Commit(h, draft) ELSE UNCHANGED <<db, writer, draft>>

\* Mutant: the gate only looks at entries of the coming week.
BlockingThisWeek(h) ==
  {e \in Blocking(View(h).deliveries) : Trigger[e] = BeforeWeek(Week(h))}

\* Any required entry that waits for the student blocks the week.
BlockingFor(h) == Blocking(View(h).deliveries)

Gate(h) ==
  /\ phase[h] = "gate"
  /\ \/ /\ BlockingFor(h) # {}
        /\ CommitBlocked(h)
        /\ Answer(h, "blocked", NoTurn)
     \/ /\ BlockingFor(h) = {}
        /\ Proceed(h, "play")
        /\ UNCHANGED <<db, writer, draft, session, reply>>
  /\ UNCHANGED <<request, failures>>

\* The row a turn adds.
TurnOf(h) ==
  [week |-> Week(h), request |-> request[h], version |-> request[h].expected + 1,
   play |-> Append(loaded[h].play, request[h].decision)]

\* Mutant: the unique constraint on the week is missing.
TurnKeyTaken(d, turn) == \E t \in d.turns : t.request.key = turn.request.key

\* One turn per week and one turn per key.
TurnTaken(d, turn) ==
  \E t \in d.turns : t.week = turn.week \/ t.request.key = turn.request.key

\* process_week, then the turn is inserted.
Play(h) ==
  /\ phase[h] = "play"
  /\ writer \in {NoHandler, h}
  /\ \/ /\ TurnTaken(View(h), TurnOf(h))
        /\ Rollback(h)
        /\ Answer(h, "integrity_error", NoTurn)
     \/ /\ ~TurnTaken(View(h), TurnOf(h))
        /\ Write(h, [View(h) EXCEPT !.turns = @ \cup {TurnOf(h)}])
        /\ Proceed(h, "after_week")
        /\ UNCHANGED <<session, reply>>
  /\ UNCHANGED <<request, failures>>

\* Mutant: every column of the run is written.
WholeRunAfterTurn(run, h) ==
  LET turn == TurnOf(h)
  IN  [status |-> Outcome(turn.play), week |-> turn.week, version |-> turn.version,
       play |-> turn.play,
       result |-> IF Outcome(turn.play) = "active" THEN loaded[h].result
                  ELSE [play |-> turn.play, submitted |-> FALSE]]

\* The UPDATE names the row by its id alone and writes the columns whose values
\* differ from the loaded ones; "active" is what status was.
RunAfterTurn(run, h) ==
  LET turn == TurnOf(h)
  IN  [run EXCEPT !.week = turn.week, !.version = turn.version, !.play = turn.play,
         !.status = IF Outcome(turn.play) = "active" THEN @ ELSE Outcome(turn.play),
         !.result = IF Outcome(turn.play) = "active" THEN @
                    ELSE [play |-> turn.play, submitted |-> FALSE]]

CommitTurn(h) ==
  /\ phase[h] = "commit"
  /\ request[h].kind = "turn"
  /\ Commit(h, [draft EXCEPT !.run = RunAfterTurn(@, h)])
  /\ Answer(h, "ok", TurnOf(h))
  /\ UNCHANGED <<request, failures>>

-----------------------------------------------------------------------------
(***************************************************************************)
(* Answers, acknowledgements, submission, start.                           *)
(***************************************************************************)

\* The command must fit the entry, which must be waiting for it.
Fits(kind, e) ==
  \/ kind = "answer" /\ Kind[e] = "question"
  \/ kind = "acknowledge" /\ Kind[e] = "fragment" /\ Required[e]

ReadDelivery(h) ==
  /\ phase[h] = "open"
  /\ \/ /\ db.deliveries[request[h].entry] = "actionable"
        /\ Fits(request[h].kind, request[h].entry)
        /\ Proceed(h, "respond")
        /\ UNCHANGED <<session, reply>>
     \/ /\ db.deliveries[request[h].entry] # "actionable"
             \/ ~Fits(request[h].kind, request[h].entry)
        /\ Answer(h, "rejected", NoTurn)
  /\ UNCHANGED <<db, writer, draft, request, failures>>

\* Mutant: an entry may have several responses.
OnlyKeyTaken(d, c) == \E r \in d.responses : r.key = c.key

\* One response per entry, since all have version 1, and one per key.
ResponseTaken(d, c) == \E r \in d.responses : r.entry = c.entry \/ r.key = c.key

Respond(h) ==
  /\ phase[h] = "respond"
  /\ writer = NoHandler
  /\ \/ /\ ResponseTaken(db, request[h])
        /\ Answer(h, "integrity_error", NoTurn)
        /\ UNCHANGED <<db, writer, draft>>
     \/ /\ ~ResponseTaken(db, request[h])
        /\ Write(h, [db EXCEPT !.responses = @ \cup {request[h]},
                               !.deliveries[request[h].entry] = "completed"])
        /\ Proceed(h, "responded")
        /\ UNCHANGED <<session, reply>>
  /\ UNCHANGED <<request, failures>>

\* Mutant: responding leaves the version alone.
SameRunAfterResponse(run, h) == run

RunAfterResponse(run, h) == [run EXCEPT !.version = request[h].expected + 1]

CommitResponse(h) ==
  /\ phase[h] = "commit"
  /\ request[h] \in ContentCommands
  /\ Commit(h, [draft EXCEPT !.run = RunAfterResponse(@, h)])
  /\ Answer(h, "ok", NoTurn)
  /\ UNCHANGED <<request, failures>>

\* The result is that of the state that was loaded.
RunAfterSubmission(run, h) ==
  [run EXCEPT !.status = "submitted", !.version = request[h].expected + 1,
              !.result = [play |-> loaded[h].play, submitted |-> TRUE]]

\* The run is written before run_finished is resolved.
Submit(h) ==
  /\ phase[h] = "submit"
  /\ writer = NoHandler
  /\ Write(h, [db EXCEPT !.run = RunAfterSubmission(@, h)])
  /\ Proceed(h, "run_finished")
  /\ UNCHANGED <<request, session, reply, failures>>

\* A submission or a start changed the run when it began.
CommitRun(h) ==
  /\ phase[h] = "commit"
  /\ request[h].kind \in {"submit", "start"}
  /\ Commit(h, draft)
  /\ Answer(h, "ok", NoTurn)
  /\ UNCHANGED <<request, failures>>

-----------------------------------------------------------------------------
(***************************************************************************)
(* Failures.                                                               *)
(***************************************************************************)

\* The process dies, or the engine refuses the decision: whatever was not
\* committed is lost.
Fail(h) ==
  /\ phase[h] \notin {"idle", "done"}
  /\ failures < MaxFailures
  /\ failures' = failures + 1
  /\ Rollback(h)
  /\ Answer(h, "failed", NoTurn)
  /\ UNCHANGED request

\* busy_timeout: a handler does not wait for the write lock for ever.
GiveUp(h) ==
  /\ phase[h] \in {"deliver", "play", "respond", "submit"}
  /\ writer \notin {NoHandler, h}
  /\ Answer(h, "failed", NoTurn)
  /\ UNCHANGED <<db, writer, draft, request, failures>>

\* What the server does by itself.
Handle(h) ==
  \/ Lookup(h) \/ Load(h) \/ ReadDeliveries(h) \/ OpenDeliveries(h) \/ Round(h)
  \/ Gate(h) \/ Play(h) \/ CommitTurn(h)
  \/ ReadDelivery(h) \/ Respond(h) \/ CommitResponse(h)
  \/ Submit(h) \/ CommitRun(h) \/ GiveUp(h)

Next ==
  \E h \in Handlers : Start(h) \/ Send(h) \/ Receive(h) \/ Retry(h) \/ Handle(h) \/ Fail(h)

Spec == Init /\ [][Next]_vars

-----------------------------------------------------------------------------
(***************************************************************************)
(* Fairness.  The server finishes what it started.  For the end of a run   *)
(* the student must play: read replies, respond to what blocks and play a  *)
(* week otherwise, under keys not used before.                             *)
(***************************************************************************)
HandlerFairness == \A h \in Handlers : WF_vars(Handle(h))

FairSpec == Spec /\ HandlerFairness

\* The request a student who wants to finish sends next.
UsefulRequest(r) ==
  /\ r.expected = db.run.version
  /\ \/ /\ Blocking(db.deliveries) = {}
        /\ r.kind = "turn"
        /\ \A t \in db.turns : t.request.key # r.key
     \/ /\ r \in ContentCommands
        /\ r.entry \in Blocking(db.deliveries)
        /\ Fits(r.kind, r.entry)
        /\ \A c \in db.responses : c.key # r.key

SendUseful(h) == Send(h) /\ UsefulRequest(request'[h])

StudentFairness ==
  \A h \in Handlers : WF_vars(Start(h)) /\ SF_vars(SendUseful(h)) /\ SF_vars(Receive(h))

PlayedSpec == FairSpec /\ StudentFairness

-----------------------------------------------------------------------------
(***************************************************************************)
(* Properties, whatever interleaves.                                       *)
(***************************************************************************)
TypeOK ==
  /\ db \in Databases
  /\ db.run.week <= Deadline
  /\ writer \in Handlers \cup {NoHandler}
  /\ draft \in Databases
  /\ phase \in [Handlers -> Phases]
  /\ request \in [Handlers -> Requests \cup {NoRequest, StartRequest}]
  /\ loaded \in [Handlers -> RunRows]
  /\ seen \in [Handlers -> Statuses]
  /\ reply \in [Handlers -> Replies]
  /\ failures \in 0 .. MaxFailures

\* The turns are the history of the run: one per week, each playing on from the
\* one before, the last of them leading to the state of the run.  No turn is
\* lost and none is computed from a state that was never reached.
TurnChain ==
  /\ db.run.week = Len(db.run.play)
  /\ \A w \in 1 .. db.run.week :
       \E t \in db.turns : t.week = w /\ t.play = SubSeq(db.run.play, 1, w)
  /\ \A t, u \in db.turns : t.week = u.week => t = u
  /\ \A t \in db.turns : t.week \in 1 .. db.run.week

\* A turn that was acknowledged is stored, under the key and for the very
\* request it was acknowledged for, be it the first reply or a replay.
RepliesAreStored ==
  \A h \in Handlers :
    (phase[h] = "done" /\ request[h].kind = "turn" /\ reply[h].outcome = "ok")
      => reply[h].turn \in db.turns /\ reply[h].turn.request = request[h]

\* An entry that waits for the student is completed by exactly one response.
OneResponse ==
  \A e \in Entries :
    LET responses == {c \in db.responses : c.entry = e}
    IN  /\ \A c, d \in responses : c = d
        /\ ~Automatic(e) => (db.deliveries[e] = "completed" <=> responses # {})
        /\ Automatic(e) => responses = {}

\* Nothing is delivered before what it depends on is completed.
DependenciesFirst ==
  \A e \in Delivered(db.deliveries) : DependsOn[e] \subseteq Completed(db.deliveries)

\* Nothing is delivered before the run reaches its checkpoint: at most the week
\* to come is prepared, and the end only comes with the end.
NothingEarly ==
  \A e \in Delivered(db.deliveries) :
    \/ NotAfter(Trigger[e], BeforeWeek(db.run.week + 1))
    \/ db.run.status # "active"

\* A run that is over never becomes active again, whatever turn was under way.
StaysOver ==
  [][db.run.status \notin {"absent", "active"}
       => db'.run.status \notin {"absent", "active"}]_vars

-----------------------------------------------------------------------------
(***************************************************************************)
(* Properties while requests of the run are handled one at a time.         *)
(***************************************************************************)

\* The run keeps the promise of RunLedger: every successful command is one entry
\* of the ledger, and nothing else changes the run.
Ledger ==
  INSTANCE RunLedger WITH
    play <- db.run.play,
    answered <- {c.entry : c \in db.responses},
    status <- db.run.status,
    version <- db.run.version,
    result <- db.run.result

LedgerSpec == Ledger!Spec

\* A required entry whose checkpoint is reached, and whose dependencies are
\* completed, is completed before the next week is played.
GateHolds ==
  [][db'.turns # db.turns =>
       \A e \in Entries :
         (/\ Required[e]
          /\ NotAfter(Trigger[e], BeforeWeek(db.run.week + 1))
          /\ DependsOn[e] \subseteq Completed(db.deliveries))
           => db.deliveries[e] = "completed"]_vars

\* A student who is told that content blocks the week finds that content.
BlockedShowsBlocker ==
  \A h \in Handlers : reply[h].outcome = "blocked" => Blocking(db.deliveries) # {}

\* Sending a command again after its reply was lost never fails because the
\* command had been carried out.
RetriesSucceed ==
  \A h \in Handlers :
    (phase[h] = "done" /\ request[h] \in {t.request : t \in db.turns} \cup db.responses)
      => reply[h].outcome \in {"ok", "failed"}

\* A student who keeps playing reaches the end: no script can block a run for
\* good.
RunEnds == <>(db.run.status \notin {"absent", "active"})

-----------------------------------------------------------------------------
(***************************************************************************)
(* What the documentation says and the code does not keep.                 *)
(***************************************************************************)

\* "version is a monotonically increasing revision of the mutable run
\* projection."
VersionMonotone == [][db'.run.version >= db.run.version]_vars

\* run_finished is the checkpoint of terminal content: once the run is over and
\* nothing waits for the student, no content is left undelivered.
TerminalContentDelivered ==
  (/\ db.run.status \notin {"absent", "active"}
   /\ \A e \in Entries : db.deliveries[e] # "actionable")
    => Delivered(db.deliveries) = Entries

=============================================================================
