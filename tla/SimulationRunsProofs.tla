------------------------- MODULE SimulationRunsProofs -------------------------
(***************************************************************************)
(* What a run guarantees for any number of requests handled at once, any   *)
(* script, any number of weeks and any failures; and what it guarantees    *)
(* besides while they are handled one at a time: the ledger, gates and     *)
(* retries.                                                                *)
(***************************************************************************)
EXTENDS SimulationRuns, FiniteSetTheorems, SequenceTheorems, TLAPS

-----------------------------------------------------------------------------
(***************************************************************************)
(* The inductive invariant.  Its parts about a handler are stated for what *)
(* the handler holds and a database d, so that they can be carried from    *)
(* one committed database to the next.                                     *)
(***************************************************************************)

\* Who holds the lock, by how far a handler is.
LockInv ==
  \A h \in Handlers :
    /\ phase[h] \in {"run_started", "after_week", "run_finished", "responded", "commit"} => writer = h
    /\ writer = h => phase[h] \in Resolving \cup {"gate", "play", "commit"}

IsTurn(h) == request[h].kind = "turn"
IsContent(h) == request[h].kind \in {"answer", "acknowledge"}

\* What a handler that is so far was asked.
AskedInv ==
  \A h \in Handlers :
    /\ phase[h] = "lookup" => request[h] \in Turns \cup ContentCommands
    /\ phase[h] = "load" => request[h] \in Requests
    /\ phase[h] \in {"before_week", "deliver", "gate", "play", "after_week"} => request[h] \in Turns
    /\ phase[h] \in {"open", "respond", "responded"} => request[h] \in ContentCommands
    /\ phase[h] = "submit" => request[h] \in Submissions
    /\ phase[h] = "run_finished" => request[h] \in Turns \cup Submissions
    /\ phase[h] = "run_started" => request[h] = StartRequest
    /\ phase[h] = "commit" => request[h] \in Requests \cup {StartRequest}

\* Requests are for a run that exists; before that, nothing does.
StartedInv ==
  /\ db.run = NoRun => db = EmptyDatabase
  /\ db.run # NoRun => db.run.status # "absent"
  /\ \A h \in Handlers :
       /\ request[h] \in Requests => db.run # NoRun
       /\ request[h] = StartRequest /\ writer = h => db.run = NoRun

\* A row loaded from d is a place in its history.
LoadedOK(run, d) ==
  /\ run.week = Len(run.play)
  /\ run.week <= d.run.week
  /\ run.play = SubSeq(d.run.play, 1, run.week)

LoadedInv ==
  \A h \in Handlers :
    /\ LoadedOK(loaded[h], db)
    /\ IsTurn(h) /\ phase[h] \in Resolving \cup {"deliver", "gate", "play", "commit"}
         => loaded[h].week < Deadline

\* What was completed when it was read still is.
SeenInv == \A h \in Handlers : Completed(seen[h]) \subseteq Completed(db.deliveries)

\* An entry that is about to be responded to was delivered to the student.
RespondInv ==
  \A h \in Handlers : phase[h] = "respond" =>
    request[h].entry \in Delivered(db.deliveries) /\ ~Automatic(request[h].entry)

RespondedInv ==
  \A h \in Handlers : IsContent(h) /\ writer = h => request[h].entry \in Delivered(db.deliveries)

\* The parts of a database that any transaction leaves right.
ResponsesOK(d) ==
  \A e \in Entries :
    LET responses == {c \in d.responses : c.entry = e}
    IN  /\ \A c, f \in responses : c = f
        /\ ~Automatic(e) => (d.deliveries[e] = "completed" <=> responses # {})
        /\ Automatic(e) => responses = {}

DependenciesOK(d) ==
  \A e \in Delivered(d.deliveries) : DependsOn[e] \subseteq Completed(d.deliveries)

\* What is delivered in a run whose row is run.
TimelyOK(deliveries, run) ==
  \A e \in Delivered(deliveries) :
    NotAfter(Trigger[e], BeforeWeek(run.week + 1)) \/ run.status # "active"

\* The turn of h is in its draft, and the run row that h will commit.
Played(h) == IsTurn(h) /\ phase[h] \in {"after_week", "run_finished", "commit"}

FinalRun(h) ==
  IF Played(h) THEN RunAfterTurn(db.run, h)
  ELSE IF request[h].kind = "submit" THEN RunAfterSubmission(db.run, h)
  ELSE IF request[h].kind = "start" THEN NewRun
  ELSE db.run

\* What a transaction has made of the database it started from.
DraftOK(h) ==
  /\ draft.run = IF Played(h) THEN db.run ELSE FinalRun(h)
  /\ draft.turns = IF Played(h) THEN db.turns \cup {TurnOf(h)} ELSE db.turns
  /\ draft.responses = IF IsContent(h) THEN db.responses \cup {request[h]} ELSE db.responses
  /\ Completed(db.deliveries) \subseteq Completed(draft.deliveries)
  /\ Delivered(db.deliveries) \subseteq Delivered(draft.deliveries)
  /\ ResponsesOK(draft)
  /\ DependenciesOK(draft)
  /\ TimelyOK(draft.deliveries, FinalRun(h))

DraftInv == \A h \in Handlers : writer = h => DraftOK(h)

\* A turn that could be inserted was computed from the current state, and the
\* run goes on only when its outcome says so.
PlayedInv ==
  \A h \in Handlers : writer = h /\ Played(h) =>
    /\ loaded[h].week = db.run.week
    /\ loaded[h].play = db.run.play
    /\ phase[h] = "run_finished" =>
         Outcome(Append(loaded[h].play, request[h].decision)) # "active"

\* A run that goes on is before its deadline.
ActiveInv == db.run.status = "active" => db.run.week < Deadline

Inv ==
  /\ TypeOK /\ LockInv /\ AskedInv /\ StartedInv /\ LoadedInv /\ SeenInv /\ RespondInv /\ RespondedInv
  /\ DraftInv /\ PlayedInv /\ ActiveInv
  /\ TurnChain /\ OneResponse /\ DependenciesFirst /\ NothingEarly /\ RepliesAreStored

-----------------------------------------------------------------------------
(***************************************************************************)
(* Sequences, requests and rows.                                           *)
(***************************************************************************)
\* A beginning of a longer history is one of the history it continues.
LEMMA Beginnings ==
  ASSUME NEW s \in Plays
  PROVE  /\ SubSeq(s, 1, Len(s)) = s
         /\ \A x \in Decisions, k \in 0 .. Len(s) : SubSeq(Append(s, x), 1, k) = SubSeq(s, 1, k)
         /\ \A m \in 0 .. Len(s), k \in Nat : k <= m => SubSeq(SubSeq(s, 1, m), 1, k) = SubSeq(s, 1, k)
<1>1. Len(s) \in Nat
  BY DEF Plays
<1>2. SubSeq(s, 1, Len(s)) = s
  BY <1>1 DEF Plays
<1>3. ASSUME NEW x \in Decisions, NEW k \in 0 .. Len(s)
      PROVE  SubSeq(Append(s, x), 1, k) = SubSeq(s, 1, k)
  BY <1>1 DEF Plays
<1>4. ASSUME NEW m \in 0 .. Len(s), NEW k \in Nat, k <= m
      PROVE  SubSeq(SubSeq(s, 1, m), 1, k) = SubSeq(s, 1, k)
  BY <1>1, <1>4 DEF Plays
<1> QED
  BY <1>2, <1>3, <1>4

\* What a request is by its kind.
LEMMA RequestKinds ==
  /\ \A r \in Turns : /\ r.kind = "turn" /\ r.key \in Keys /\ r.decision \in Decisions
                      /\ r.expected \in Nat
  /\ \A r \in ContentCommands : /\ r.kind \in {"answer", "acknowledge"} /\ r.key \in Keys
                                /\ r.entry \in Entries /\ r.expected \in Nat
  /\ \A r \in Submissions : r.kind = "submit" /\ r.expected \in Nat
  /\ StartRequest.kind = "start" /\ NoRequest.kind = "none"
BY DEF Turns, ContentCommands, Submissions, StartRequest, NoRequest

\* The fields of a database, and what replacing one of them leaves.
LEMMA DatabaseFields ==
  ASSUME NEW d \in Databases
  PROVE  /\ d.run \in RunRows /\ d.turns \subseteq TurnRows
         /\ d.deliveries \in Statuses /\ d.responses \subseteq ResponseRows
         /\ \A r \in RunRows : [d EXCEPT !.run = r] \in Databases
         /\ \A t \in SUBSET TurnRows : [d EXCEPT !.turns = t] \in Databases
         /\ \A s \in Statuses : [d EXCEPT !.deliveries = s] \in Databases
         /\ \A r : /\ [d EXCEPT !.run = r].run = r
                   /\ [d EXCEPT !.run = r].turns = d.turns
                   /\ [d EXCEPT !.run = r].deliveries = d.deliveries
                   /\ [d EXCEPT !.run = r].responses = d.responses
         /\ \A t : /\ [d EXCEPT !.turns = t].run = d.run
                   /\ [d EXCEPT !.turns = t].turns = t
                   /\ [d EXCEPT !.turns = t].deliveries = d.deliveries
                   /\ [d EXCEPT !.turns = t].responses = d.responses
         /\ \A s : /\ [d EXCEPT !.deliveries = s].run = d.run
                   /\ [d EXCEPT !.deliveries = s].turns = d.turns
                   /\ [d EXCEPT !.deliveries = s].deliveries = s
                   /\ [d EXCEPT !.deliveries = s].responses = d.responses
BY DEF Databases

LEMMA RunFields ==
  ASSUME NEW r \in RunRows
  PROVE  /\ r.week \in Nat /\ r.version \in Nat /\ r.play \in Plays
         /\ r.status \in {"absent", "active", "completed", "deadline_reached", "submitted"}
         /\ Len(r.play) \in Nat
BY DEF RunRows, Plays

LEMMA EmptyTypes ==
  /\ NoRun \in RunRows /\ NewRun \in RunRows
  /\ Undelivered \in Statuses
  /\ EmptyDatabase \in Databases
<1>1. <<>> \in Plays
  BY DEF Plays
<1>2. NoRun \in RunRows /\ NewRun \in RunRows
  BY <1>1 DEF NoRun, NewRun, RunRows, NoResult
<1>3. Undelivered \in Statuses
  BY DEF Undelivered, Statuses
<1> QED
  BY <1>2, <1>3 DEF EmptyDatabase, Databases

\* A submission of a row is one.
LEMMA SubmissionTypes ==
  ASSUME TypeOK, NEW h \in Handlers, request[h].expected \in Nat
  PROVE  LET n == RunAfterSubmission(db.run, h)
         IN  n \in RunRows /\ n.week = db.run.week /\ n.play = db.run.play /\ n.status = "submitted"
<1> DEFINE result == [play |-> loaded[h].play, submitted |-> TRUE]
           r == db.run
           n == RunAfterSubmission(r, h)
           version == request[h].expected + 1
<1>0. db.run \in RunRows /\ loaded[h] \in RunRows
  BY DatabaseFields DEF TypeOK
<1>1. result \in [play : Plays, submitted : BOOLEAN]
  BY <1>0, RunFields
<1>2. n = [r EXCEPT !.status = "submitted", !.version = version, !.result = result]
  BY DEF RunAfterSubmission
<1>3. r \in RunRows /\ version \in Nat
  BY <1>0
<1>4. r.week \in Nat /\ r.play \in Plays
  BY <1>0, RunFields
<1> HIDE DEF result, n, r, version
<1>5. n = [status |-> "submitted", week |-> r.week, version |-> version, play |-> r.play, result |-> result]
  BY <1>2, <1>3 DEF RunRows
<1>6. n \in RunRows /\ n.week = r.week /\ n.play = r.play /\ n.status = "submitted"
  BY <1>1, <1>3, <1>4, <1>5 DEF RunRows
<1> QED
  BY <1>6 DEF n, r

-----------------------------------------------------------------------------
(***************************************************************************)
(* Content.                                                                *)
(***************************************************************************)
\* Only entries without a row are fresh, when their checkpoint and their
\* dependencies allow it.
LEMMA FreshFacts ==
  ASSUME NEW status, NEW reached, NEW terminal
  PROVE  \A e \in Fresh(status, reached, terminal) :
           /\ e \in Entries /\ status[e] = "pending"
           /\ NotAfter(Trigger[e], reached)
           /\ DependsOn[e] \subseteq Completed(status)
BY DEF Fresh, Actionable, Candidates, Delivered, IsEligible, DependenciesCompleted

\* A delivery adds rows, and completes those that need no student.
LEMMA DeliverFacts ==
  ASSUME NEW status \in Statuses, NEW fresh \in SUBSET Entries, \A e \in fresh : status[e] = "pending"
  PROVE  /\ Deliver(status, fresh) \in Statuses
         /\ Delivered(Deliver(status, fresh)) = Delivered(status) \cup fresh
         /\ Completed(Deliver(status, fresh)) = Completed(status) \cup {e \in fresh : Automatic(e)}
BY DEF Statuses, Deliver, Delivered, Completed

\* A delivery leaves responses and dependencies right.
LEMMA RoundKeeps ==
  ASSUME NEW d \in Databases, ResponsesOK(d), DependenciesOK(d), NEW fresh \in SUBSET Entries,
         \A e \in fresh : d.deliveries[e] = "pending" /\ DependsOn[e] \subseteq Completed(d.deliveries),
         NEW n, n.responses = d.responses, n.deliveries = Deliver(d.deliveries, fresh)
  PROVE  /\ Delivered(n.deliveries) = Delivered(d.deliveries) \cup fresh
         /\ Completed(d.deliveries) \subseteq Completed(n.deliveries)
         /\ ResponsesOK(n) /\ DependenciesOK(n)
<1> DEFINE s == Deliver(d.deliveries, fresh)
<1>1. d.deliveries \in Statuses
  BY DatabaseFields
<1>2. /\ s \in Statuses
      /\ Delivered(s) = Delivered(d.deliveries) \cup fresh
      /\ Completed(s) = Completed(d.deliveries) \cup {e \in fresh : Automatic(e)}
  BY <1>1, DeliverFacts
<1>4. n.responses = d.responses /\ n.deliveries = s
  OBVIOUS
<1> HIDE DEF s
<1>5. ResponsesOK(n)
  <2>1. \A e \in Entries : ~Automatic(e) => (s[e] = "completed" <=> d.deliveries[e] = "completed")
    BY <1>2 DEF Completed
  <2>2. \A e \in Entries : {c \in n.responses : c.entry = e} = {c \in d.responses : c.entry = e}
    BY <1>4
  <2>3. \A e \in Entries : ~Automatic(e) => (n.deliveries[e] = "completed" <=> d.deliveries[e] = "completed")
    BY <1>4, <2>1
  <2> DEFINE of(x, e) == {c \in x.responses : c.entry = e}
  <2>4. ASSUME NEW e \in Entries
        PROVE  /\ \A c, f \in of(n, e) : c = f
               /\ ~Automatic(e) => (n.deliveries[e] = "completed" <=> of(n, e) # {})
               /\ Automatic(e) => of(n, e) = {}
    <3>1. /\ \A c, f \in of(d, e) : c = f
          /\ ~Automatic(e) => (d.deliveries[e] = "completed" <=> of(d, e) # {})
          /\ Automatic(e) => of(d, e) = {}
      BY DEF ResponsesOK
    <3>2. of(n, e) = of(d, e)
      BY <2>2
    <3> HIDE DEF of
    <3> QED
      BY <3>1, <3>2, <2>3
  <2> QED
    BY <2>4 DEF ResponsesOK
<1>6. DependenciesOK(n)
  BY <1>2, <1>4 DEF DependenciesOK
<1> QED
  BY <1>2, <1>4, <1>5, <1>6

-----------------------------------------------------------------------------
(***************************************************************************)
(* Steps.                                                                  *)
(***************************************************************************)
Step(h) == Start(h) \/ Send(h) \/ Receive(h) \/ Retry(h) \/ Handle(h) \/ Fail(h)

\* What a handler does leaves the other handlers alone, and the database and
\* the lock too when the lock is another's.
LEMMA OthersFrame ==
  ASSUME TypeOK, LockInv, NEW h \in Handlers, Step(h), NEW g \in Handlers, g # h
  PROVE  /\ phase'[g] = phase[g] /\ request'[g] = request[g] /\ reply'[g] = reply[g]
         /\ loaded'[g] = loaded[g] /\ seen'[g] = seen[g]
         /\ writer = g => UNCHANGED <<db, writer, draft>>
         /\ writer' = g => writer = g
<1> USE HandlerAssumption
<1>0. /\ phase \in [Handlers -> Phases] /\ reply \in [Handlers -> Replies]
      /\ loaded \in [Handlers -> RunRows] /\ seen \in [Handlers -> Statuses]
      /\ request \in [Handlers -> Requests \cup {NoRequest, StartRequest}]
  BY DEF TypeOK
<1>a. \A to : Proceed(h, to) => phase'[g] = phase[g]
  BY <1>0 DEF Proceed
<1>b. \A o, t : Answer(h, o, t) =>
        /\ phase'[g] = phase[g] /\ reply'[g] = reply[g] /\ loaded'[g] = loaded[g] /\ seen'[g] = seen[g]
  BY <1>0 DEF Answer
<1>c. \A d : Write(h, d) => /\ writer = g => FALSE
                            /\ writer' = g => FALSE
  BY DEF Write
<1>d. \A d : Commit(h, d) => writer # g /\ writer' # g
  BY DEF Commit
<1>e. Rollback(h) => /\ writer = g => UNCHANGED <<db, writer, draft>>
                     /\ writer' = g => writer = g
  BY DEF Rollback
<1>1. CASE Start(h)
  BY <1>1, <1>0, <1>a, <1>c DEF Start, session
<1>2. CASE Send(h)
  BY <1>2, <1>0, <1>a DEF Send, session
<1>3. CASE Receive(h)
  BY <1>3, <1>0, <1>a DEF Receive, session
<1>4. CASE Retry(h)
  BY <1>4, <1>0, <1>a DEF Retry, session
<1>5. CASE Lookup(h)
  BY <1>5, <1>a, <1>b DEF Lookup, session
<1>6. CASE Load(h)
  BY <1>6, <1>0, <1>a, <1>b DEF Load
<1>7. CASE ReadDeliveries(h)
  BY <1>7, <1>0, <1>a DEF ReadDeliveries
<1>8. CASE OpenDeliveries(h)
  BY <1>8, <1>0, <1>a, <1>b, <1>c DEF OpenDeliveries, session
<1>9. CASE Round(h)
  BY <1>9, <1>0, <1>a, <1>c DEF Round
<1>10. CASE Gate(h)
  BY <1>10, <1>a, <1>b, <1>d DEF Gate, CommitBlocked, session
<1>11. CASE Play(h)
  BY <1>11, <1>a, <1>b, <1>c, <1>e DEF Play, session
<1>12. CASE CommitTurn(h)
  BY <1>12, <1>b, <1>d DEF CommitTurn
<1>13. CASE ReadDelivery(h)
  BY <1>13, <1>a, <1>b DEF ReadDelivery, session
<1>14. CASE Respond(h)
  BY <1>14, <1>a, <1>b, <1>c DEF Respond, session
<1>15. CASE CommitResponse(h)
  BY <1>15, <1>b, <1>d DEF CommitResponse
<1>16. CASE Submit(h)
  BY <1>16, <1>a, <1>c DEF Submit, session
<1>17. CASE CommitRun(h)
  BY <1>17, <1>b, <1>d DEF CommitRun
<1>18. CASE Fail(h)
  BY <1>18, <1>b, <1>e DEF Fail
<1>19. CASE GiveUp(h)
  BY <1>19, <1>b DEF GiveUp
<1> QED
  BY <1>1, <1>2, <1>3, <1>4, <1>5, <1>6, <1>7, <1>8, <1>9, <1>10, <1>11, <1>12, <1>13, <1>14,
     <1>15, <1>16, <1>17, <1>18, <1>19 DEF Step, Handle

\* The lock is held from the first write to the end of the request.
LEMMA LockStep ==
  ASSUME TypeOK, LockInv, NEW h \in Handlers, Step(h)
  PROVE  LockInv'
<1> USE HandlerAssumption
<1>0. phase \in [Handlers -> Phases]
  BY DEF TypeOK
<1>a. \A to : Proceed(h, to) => phase'[h] = to
  BY <1>0 DEF Proceed
<1>b. \A o, t : Answer(h, o, t) => phase'[h] = "done"
  BY <1>0 DEF Answer
<1> DEFINE Held == {"run_started", "after_week", "run_finished", "responded", "commit"}
           Holding == Resolving \cup {"gate", "play", "commit"}
<1>c. (phase[h] \in Held => writer = h) /\ (writer = h => phase[h] \in Holding)
  BY DEF LockInv
<1>d. /\ "done" \notin Held \cup Holding /\ "idle" \notin Held \cup Holding
      /\ {"lookup", "load", "deliver", "open", "respond", "submit"} \cap (Held \cup Holding) = {}
  BY DEF Resolving
<1>e. /\ "run_started" \in Holding /\ "before_week" \in Holding \ Held /\ "after_week" \in Holding
      /\ "run_finished" \in Holding /\ "responded" \in Holding /\ "commit" \in Holding
      /\ "gate" \in Holding \ Held /\ "play" \in Holding \ Held
  BY DEF Resolving
<1> HIDE DEF Held, Holding
<1>f. Rollback(h) => writer' # h
  BY DEF Rollback
<1>20. (phase'[h] \in Held => writer' = h) /\ (writer' = h => phase'[h] \in Holding)
  <2>1. CASE Start(h)
    BY <2>1, <1>a, <1>e DEF Start, Write
  <2>2. CASE Send(h)
    BY <2>2, <1>a, <1>c, <1>d DEF Send
  <2>3. CASE Receive(h)
    BY <2>3, <1>a, <1>c, <1>d DEF Receive
  <2>4. CASE Retry(h)
    BY <2>4, <1>a, <1>c, <1>d DEF Retry
  <2>5. CASE Lookup(h)
    BY <2>5, <1>a, <1>b, <1>c, <1>d DEF Lookup
  <2>6. CASE Load(h)
    BY <2>6, <1>a, <1>b, <1>c, <1>d, <1>e DEF Load
  <2>7. CASE ReadDeliveries(h)
    BY <2>7, <1>a, <1>c, <1>d DEF ReadDeliveries
  <2>8. CASE OpenDeliveries(h)
    BY <2>8, <1>a, <1>b, <1>c, <1>d, <1>e DEF OpenDeliveries, Write
  <2>9. CASE Round(h)
    <3>1. AfterResolving(h) \in {"gate", "run_finished", "commit"}
      BY DEF AfterResolving
    <3> QED
      BY <2>9, <3>1, <1>a, <1>c, <1>e DEF Round, Write
  <2>10. CASE Gate(h)
    BY <2>10, <1>a, <1>b, <1>c, <1>d, <1>e DEF Gate, CommitBlocked, Commit
  <2>11. CASE Play(h)
    BY <2>11, <1>a, <1>b, <1>d, <1>e, <1>f DEF Play, Write
  <2>12. CASE CommitTurn(h)
    BY <2>12, <1>b, <1>d DEF CommitTurn, Commit
  <2>13. CASE ReadDelivery(h)
    BY <2>13, <1>a, <1>b, <1>c, <1>d DEF ReadDelivery
  <2>14. CASE Respond(h)
    BY <2>14, <1>a, <1>b, <1>d, <1>e DEF Respond, Write
  <2>15. CASE CommitResponse(h)
    BY <2>15, <1>b, <1>d DEF CommitResponse, Commit
  <2>16. CASE Submit(h)
    BY <2>16, <1>a, <1>e DEF Submit, Write
  <2>17. CASE CommitRun(h)
    BY <2>17, <1>b, <1>d DEF CommitRun, Commit
  <2>18. CASE Fail(h)
    BY <2>18, <1>b, <1>d, <1>f DEF Fail
  <2>19. CASE GiveUp(h)
    BY <2>19, <1>b, <1>d DEF GiveUp
  <2> QED
    BY <2>1, <2>2, <2>3, <2>4, <2>5, <2>6, <2>7, <2>8, <2>9, <2>10, <2>11, <2>12, <2>13, <2>14,
       <2>15, <2>16, <2>17, <2>18, <2>19 DEF Step, Handle
<1>21. ASSUME NEW g \in Handlers, g # h
       PROVE  (phase'[g] \in Held => writer' = g) /\ (writer' = g => phase'[g] \in Holding)
  BY <1>21, OthersFrame DEF LockInv, Held, Holding
<1> QED
  BY <1>20, <1>21 DEF LockInv, Held, Holding

\* A handler is asked for what it does.
LEMMA AskedStep ==
  ASSUME TypeOK, LockInv, AskedInv, NEW h \in Handlers, Step(h)
  PROVE  AskedInv'
<1>0. /\ phase \in [Handlers -> Phases] /\ phase[h] \in Phases
      /\ request \in [Handlers -> Requests \cup {NoRequest, StartRequest}]
      /\ request[h] \in Requests \cup {NoRequest, StartRequest}
  BY DEF TypeOK
<1>a. \A to : Proceed(h, to) => phase'[h] = to
  BY <1>0 DEF Proceed
<1>b. \A o, t : Answer(h, o, t) => phase'[h] = "done"
  BY <1>0 DEF Answer
<1> DEFINE Asked(p, r) ==
             /\ p = "lookup" => r \in Turns \cup ContentCommands
             /\ p = "load" => r \in Requests
             /\ p \in {"before_week", "deliver", "gate", "play", "after_week"} => r \in Turns
             /\ p \in {"open", "respond", "responded"} => r \in ContentCommands
             /\ p = "submit" => r \in Submissions
             /\ p = "run_finished" => r \in Turns \cup Submissions
             /\ p = "run_started" => r = StartRequest
             /\ p = "commit" => r \in Requests \cup {StartRequest}
<1>c. Asked(phase[h], request[h])
  BY DEF AskedInv
<1>d. \A r : Asked("done", r) /\ Asked("idle", r)
  OBVIOUS
<1>e. \A r \in Requests : /\ r \in Turns <=> r.kind = "turn"
                          /\ r \in ContentCommands <=> r.kind \in {"answer", "acknowledge"}
                          /\ r \in Submissions <=> r.kind = "submit"
  BY RequestKinds DEF Requests
<1>f. request' = request => request'[h] = request[h]
  OBVIOUS
<1>20. Asked(phase'[h], request'[h])
  <2>1. CASE Start(h)
    BY <2>1, <1>0, <1>a DEF Start
  <2>2. CASE Send(h)
    <3> DEFINE r == request'[h]
    <3>1. r \in Requests
      <4>1. 1 .. db.run.version \subseteq Nat
        OBVIOUS
      <4>2. PICK q \in [kind : {"turn"}, key : Keys, decision : Decisions, expected : 1 .. db.run.version]
                 \cup [kind : {"answer", "acknowledge"}, key : Keys, entry : Delivered(db.deliveries),
                       expected : 1 .. db.run.version]
                 \cup [kind : {"submit"}, expected : 1 .. db.run.version] :
              request' = [request EXCEPT ![h] = q]
        BY <2>2 DEF Send
      <4>3. r = q
        BY <4>2, <1>0
      <4>4. q \in Requests
        BY <4>1 DEF Requests, Turns, ContentCommands, Submissions, Delivered
      <4> QED
        BY <4>3, <4>4
    <3>2. phase'[h] = IF r.kind = "submit" THEN "load" ELSE "lookup"
      BY <2>2, <1>a DEF Send
    <3>3. r.kind # "submit" => r \in Turns \cup ContentCommands
      BY <3>1, <1>e, RequestKinds DEF Requests
    <3> HIDE DEF r
    <3>4. Asked(phase'[h], r)
      BY <3>1, <3>2, <3>3
    <3> QED
      BY <3>4 DEF r
  <2>3. CASE Receive(h)
    BY <2>3, <1>a DEF Receive
  <2>4. CASE Retry(h)
    BY <2>4, <1>a, <1>e, RequestKinds DEF Retry, Requests
  <2>5. CASE Lookup(h)
    BY <2>5, <1>a, <1>b, <1>c, RequestKinds DEF Lookup, Requests
  <2>6. CASE Load(h)
    BY <2>6, <1>a, <1>b, <1>c, <1>e, RequestKinds DEF Load, Requests
  <2>7. CASE ReadDeliveries(h)
    BY <2>7, <1>a, <1>c DEF ReadDeliveries
  <2>8. CASE OpenDeliveries(h)
    BY <2>8, <1>a, <1>b, <1>c DEF OpenDeliveries
  <2>9. CASE Round(h)
    BY <2>9, <1>a, <1>c DEF Round, AfterResolving, Resolving, Requests
  <2>10. CASE Gate(h)
    BY <2>10, <1>a, <1>b, <1>c DEF Gate
  <2>11. CASE Play(h)
    BY <2>11, <1>a, <1>b, <1>c DEF Play
  <2>12. CASE CommitTurn(h) \/ CommitResponse(h) \/ CommitRun(h) \/ Fail(h) \/ GiveUp(h)
    BY <2>12, <1>b, <1>d DEF CommitTurn, CommitResponse, CommitRun, Fail, GiveUp
  <2>13. CASE ReadDelivery(h)
    BY <2>13, <1>a, <1>b, <1>c DEF ReadDelivery
  <2>14. CASE Respond(h)
    BY <2>14, <1>a, <1>b, <1>c DEF Respond
  <2>16. CASE Submit(h)
    BY <2>16, <1>a, <1>c DEF Submit
  <2> HIDE DEF Asked
  <2> QED
    BY <2>1, <2>2, <2>3, <2>4, <2>5, <2>6, <2>7, <2>8, <2>9, <2>10, <2>11, <2>12, <2>13, <2>14,
       <2>16 DEF Step, Handle
<1>21. ASSUME NEW g \in Handlers, g # h
       PROVE  Asked(phase'[g], request'[g])
  BY <1>21, OthersFrame DEF AskedInv
<1> QED
  BY <1>20, <1>21 DEF AskedInv

-----------------------------------------------------------------------------
(***************************************************************************)
(* What a commit makes of the run.                                         *)
(***************************************************************************)
\* The row a transaction commits.
CommittedRun(h) == IF IsContent(h) THEN RunAfterResponse(db.run, h) ELSE FinalRun(h)

Commits(h) ==
  /\ writer = h /\ writer' = NoHandler
  /\ phase[h] \in {"gate", "commit"}
  /\ db' = [draft EXCEPT !.run = CommittedRun(h)]

\* The database changes by commits alone, and all that a commit adds to the
\* draft is the row of the run.
LEMMA CommitShape ==
  ASSUME TypeOK, LockInv, AskedInv, DraftInv, NEW h \in Handlers, Step(h)
  PROVE  db' = db \/ Commits(h)
<1> USE HandlerAssumption
<1>0. draft \in Databases /\ [draft EXCEPT !.run = draft.run] = draft
  BY DEF TypeOK, Databases
<1>1. CASE Gate(h)
  <2>1. CASE writer = h /\ Commit(h, draft)
    <3>1. phase[h] = "gate" /\ request[h] \in Turns
      BY <1>1 DEF Gate, AskedInv
    <3>2. request[h].kind = "turn" /\ ~Played(h) /\ ~IsContent(h)
      BY <3>1, RequestKinds DEF Played, IsContent
    <3>3. draft.run = CommittedRun(h)
      BY <2>1, <3>2 DEF DraftInv, DraftOK, CommittedRun
    <3>4. db' = [draft EXCEPT !.run = CommittedRun(h)]
      BY <2>1, <3>3, <1>0 DEF Commit
    <3> QED
      BY <2>1, <3>1, <3>4 DEF Commits, Commit
  <2>2. CASE UNCHANGED <<db, writer, draft>>
    BY <2>2
  <2> QED
    BY <1>1, <2>1, <2>2 DEF Gate, CommitBlocked
<1>2. CASE CommitTurn(h)
  <2>1. writer = h /\ writer' = NoHandler /\ phase[h] = "commit"
    BY <1>2 DEF CommitTurn, Commit
  <2>2. Played(h) /\ ~IsContent(h)
    BY <1>2, <2>1 DEF CommitTurn, Played, IsTurn, IsContent
  <2>3. RunAfterTurn(draft.run, h) = CommittedRun(h)
    BY <2>1, <2>2 DEF DraftInv, DraftOK, CommittedRun, FinalRun
  <2>4. db' = [draft EXCEPT !.run = RunAfterTurn(draft.run, h)]
    BY <1>2, <1>0 DEF CommitTurn, Commit
  <2> QED
    BY <2>1, <2>3, <2>4 DEF Commits
<1>3. CASE CommitResponse(h)
  <2>1. writer = h /\ writer' = NoHandler /\ phase[h] = "commit"
    BY <1>3 DEF CommitResponse, Commit
  <2>2. IsContent(h) /\ ~Played(h) /\ request[h].kind # "submit" /\ request[h].kind # "start"
    BY <1>3, RequestKinds DEF CommitResponse, Played, IsTurn, IsContent
  <2>3. RunAfterResponse(draft.run, h) = CommittedRun(h)
    BY <2>1, <2>2 DEF DraftInv, DraftOK, CommittedRun, FinalRun
  <2>4. db' = [draft EXCEPT !.run = RunAfterResponse(draft.run, h)]
    BY <1>3, <1>0 DEF CommitResponse, Commit
  <2> QED
    BY <2>1, <2>3, <2>4 DEF Commits
<1>4. CASE CommitRun(h)
  <2>1. writer = h /\ writer' = NoHandler /\ phase[h] = "commit"
    BY <1>4 DEF CommitRun, Commit
  <2>2. ~IsContent(h) /\ ~Played(h)
    BY <1>4 DEF CommitRun, Played, IsTurn, IsContent
  <2>3. draft.run = CommittedRun(h)
    BY <2>1, <2>2 DEF DraftInv, DraftOK, CommittedRun
  <2>4. db' = [draft EXCEPT !.run = CommittedRun(h)]
    BY <1>4, <2>3, <1>0 DEF CommitRun, Commit
  <2> QED
    BY <2>1, <2>4 DEF Commits
<1>5. CASE Start(h) \/ Send(h) \/ Receive(h) \/ Retry(h) \/ Lookup(h) \/ Load(h)
  BY <1>5 DEF Start, Send, Receive, Retry, Lookup, Load, Write
<1>6. CASE ReadDeliveries(h) \/ OpenDeliveries(h) \/ Round(h) \/ Play(h)
  BY <1>6 DEF ReadDeliveries, OpenDeliveries, Round, Play, Write, Rollback
<1>7. CASE ReadDelivery(h) \/ Respond(h) \/ Submit(h) \/ Fail(h) \/ GiveUp(h)
  BY <1>7 DEF ReadDelivery, Respond, Submit, Fail, GiveUp, Write, Rollback
<1> QED
  BY <1>1, <1>2, <1>3, <1>4, <1>5, <1>6, <1>7 DEF Step, Handle

\* The row that is to be committed.  A turn adds one week to it; anything else
\* leaves its history alone.
LEMMA FinalRow ==
  ASSUME TypeOK, AskedInv, StartedInv, LoadedInv, PlayedInv, ActiveInv, TurnChain,
         NEW h \in Handlers, writer = h, phase[h] \in Resolving \cup {"gate", "play", "commit"}
  PROVE  LET r == FinalRun(h)
         IN  /\ r \in RunRows
             /\ Played(h) =>
                  /\ r.week = db.run.week + 1 /\ r.week <= Deadline
                  /\ r.play = Append(db.run.play, request[h].decision)
                  /\ request[h].decision \in Decisions
                  /\ TurnOf(h) \in TurnRows
                  /\ TurnOf(h).week = r.week /\ TurnOf(h).play = r.play
                  /\ r.status = "active" => Len(r.play) < Deadline
             /\ ~Played(h) => r.week = db.run.week /\ r.play = db.run.play
             /\ r.status # "absent" \/ r = db.run
             /\ r.status = "active" => db.run.status \in {"absent", "active"}
             /\ r.status = "active" => r.week < Deadline
             /\ db.run.status = "absent" /\ r.status # "absent" => request[h].kind = "start"
<1> DEFINE r == FinalRun(h)
<1> USE DeadlineAssumption, ScriptAssumption DEF ValidScript
<1>0. /\ db \in Databases /\ db.run \in RunRows /\ loaded[h] \in RunRows
      /\ request[h] \in Requests \cup {NoRequest, StartRequest} /\ db.run.week <= Deadline
  BY DatabaseFields DEF TypeOK
<1>1. /\ db.run.week \in Nat /\ db.run.play \in Plays /\ db.run.week = Len(db.run.play)
      /\ loaded[h].week \in Nat /\ loaded[h].play \in Plays
      /\ db.run.version \in Nat
  BY <1>0, RunFields DEF TurnChain
<1>2. request[h] \in Requests \cup {StartRequest}
  BY DEF AskedInv, Resolving, Requests
<1>a. Deadline \in Nat \ {0}
  OBVIOUS
<1>3. CASE Played(h)
  <2>1. request[h] \in Turns
    BY <1>2, <1>3, RequestKinds DEF Played, IsTurn, Requests
  <2>2. /\ request[h].decision \in Decisions /\ request[h].expected \in Nat
        /\ request[h].kind = "turn"
    BY <2>1, RequestKinds
  <2>3. loaded[h].week = db.run.week /\ loaded[h].play = db.run.play
    BY <1>3 DEF PlayedInv
  <2>4. loaded[h].week < Deadline
    BY <1>3 DEF LoadedInv, Played, Resolving
  <2> DEFINE p == Append(db.run.play, request[h].decision)
             t == TurnOf(h)
  <2>5. p \in Plays /\ Len(p) = db.run.week + 1
    BY <1>1, <2>2 DEF Plays
  <2>6. /\ t = [week |-> db.run.week + 1, request |-> request[h],
                version |-> request[h].expected + 1, play |-> p]
        /\ t.week = db.run.week + 1 /\ t.play = p /\ t.version = request[h].expected + 1
    BY <2>3 DEF TurnOf, Week
  <2>7. t \in TurnRows
    BY <2>6, <2>5, <2>1, <2>2, <1>1 DEF TurnRows
  <2>8. r = RunAfterTurn(db.run, h)
    BY <1>3 DEF FinalRun
  <2> HIDE DEF p, t
  <2>9. Outcome(p) \in {"active", "completed", "deadline_reached"} /\ (Outcome(p) = "active" => Len(p) < Deadline)
    BY <2>5, <1>a, <1>1 DEF Outcome
  <2>10. /\ r \in RunRows /\ r.week = db.run.week + 1 /\ r.play = p
         /\ r.status = IF Outcome(p) = "active" THEN db.run.status ELSE Outcome(p)
    <3>1. r = [db.run EXCEPT !.week = t.week, !.version = t.version, !.play = t.play,
                 !.status = IF Outcome(t.play) = "active" THEN @ ELSE Outcome(t.play),
                 !.result = IF Outcome(t.play) = "active" THEN @
                            ELSE [play |-> t.play, submitted |-> FALSE]]
      BY <2>8 DEF RunAfterTurn, t
    <3> HIDE DEF r
    <3>2. t.week \in Nat /\ t.version \in Nat
      BY <2>6, <2>2, <1>1
    <3> DEFINE status == IF Outcome(t.play) = "active" THEN db.run.status ELSE Outcome(t.play)
               result == IF Outcome(t.play) = "active" THEN db.run.result
                         ELSE [play |-> t.play, submitted |-> FALSE]
    <3>3. r = [db.run EXCEPT !.week = t.week, !.version = t.version, !.play = t.play,
                 !.status = status, !.result = result]
      BY <3>1
    <3>4. status = IF Outcome(p) = "active" THEN db.run.status ELSE Outcome(p)
      BY <2>6
    <3>5. /\ status \in {"absent", "active", "completed", "deadline_reached", "submitted"}
          /\ result \in [play : Plays, submitted : BOOLEAN] /\ t.play \in Plays
      BY <2>5, <2>6, <2>9, <1>0 DEF RunRows
    <3> HIDE DEF status, result
    <3> DEFINE s == [db.run EXCEPT !.week = t.week, !.version = t.version, !.play = t.play,
                       !.status = status, !.result = result]
    <3>6. /\ s \in RunRows /\ s.week = t.week /\ s.play = t.play /\ s.status = status
      BY <1>0, <3>2, <3>5 DEF RunRows
    <3> HIDE DEF s
    <3>7. r = s
      BY <3>3 DEF s
    <3> QED
      BY <2>6, <3>4, <3>6, <3>7
  <2> HIDE DEF r
  <2>11. db.run.status # "absent"
    <3>1. db.run # NoRun
      BY <2>1 DEF StartedInv, Requests
    <3> QED
      BY <3>1 DEF StartedInv
  <2>12. r.status = "active" => Outcome(p) = "active" /\ db.run.status = "active"
    BY <2>10, <2>9
  <2>13. /\ r.week <= Deadline /\ r.status # "absent"
         /\ r.status = "active" => Len(p) < Deadline /\ r.week < Deadline /\ db.run.status = "active"
    <3>1. r.week <= Deadline
      BY <1>1, <1>a, <2>3, <2>4, <2>10
    <3>2. r.status # "absent"
      BY <2>9, <2>10, <2>11
    <3> QED
      BY <2>5, <2>9, <2>10, <2>12, <3>1, <3>2
  <2>14. t.week = r.week /\ t.play = r.play
    BY <2>6, <2>10
  <2>15. r.play = Append(db.run.play, request[h].decision) /\ Len(r.play) = Len(p)
    BY <2>10 DEF p
  <2>16. /\ r \in RunRows /\ r.week = db.run.week + 1 /\ r.week <= Deadline
         /\ r.play = Append(db.run.play, request[h].decision) /\ request[h].decision \in Decisions
         /\ t \in TurnRows /\ t.week = r.week /\ t.play = r.play
         /\ r.status = "active" => Len(r.play) < Deadline
         /\ r.status # "absent" /\ db.run.status # "absent"
         /\ r.status = "active" => db.run.status \in {"absent", "active"} /\ r.week < Deadline
    BY <2>2, <2>7, <2>10, <2>11, <2>13, <2>14, <2>15
  <2> QED
    BY <1>3, <2>16 DEF r, t
<1>4. CASE ~Played(h) /\ request[h].kind = "submit"
  <2>1. request[h] \in Submissions /\ request[h].expected \in Nat
    BY <1>2, <1>4, RequestKinds DEF Requests
  <2>2. r = RunAfterSubmission(db.run, h)
    BY <1>4 DEF FinalRun
  <2> HIDE DEF r
  <2>3. /\ r \in RunRows /\ r.week = db.run.week /\ r.play = db.run.play /\ r.status = "submitted"
    BY <2>1, <2>2, SubmissionTypes
  <2>4. db.run.status # "absent"
    BY <2>1 DEF StartedInv, Requests
  <2> QED
    BY <1>4, <2>3, <2>4 DEF r
<1>5. CASE ~Played(h) /\ request[h].kind = "start"
  <2>1. r = NewRun /\ request[h] = StartRequest
    BY <1>2, <1>5, RequestKinds DEF FinalRun, Requests
  <2>2. db.run = NoRun
    BY <2>1 DEF StartedInv
  <2> HIDE DEF r
  <2>3. /\ r.week = 0 /\ r.play = <<>> /\ r.status = "active" /\ r \in RunRows
        /\ db.run.week = 0 /\ db.run.play = <<>> /\ db.run.status = "absent"
    BY <2>1, <2>2, EmptyTypes DEF NewRun, NoRun
  <2> QED
    BY <1>5, <2>3, <1>a DEF r
<1>6. CASE ~Played(h) /\ request[h].kind \notin {"submit", "start"}
  <2>1. r = db.run
    BY <1>6 DEF FinalRun
  <2> HIDE DEF r
  <2>2. r.status = "active" => r.week < Deadline
    BY <2>1 DEF ActiveInv
  <2> QED
    BY <1>6, <2>1, <2>2, <1>0 DEF r
<1> QED
  BY <1>3, <1>4, <1>5, <1>6

\* A response changes nothing but the version of that row.
LEMMA CommittedRow ==
  ASSUME TypeOK, AskedInv, StartedInv, LoadedInv, PlayedInv, ActiveInv, TurnChain,
         NEW h \in Handlers, writer = h, phase[h] \in Resolving \cup {"gate", "play", "commit"}
  PROVE  LET r == CommittedRun(h)
         IN  /\ r \in RunRows
             /\ r.week = FinalRun(h).week /\ r.play = FinalRun(h).play
             /\ r.status = FinalRun(h).status
             /\ r.week <= Deadline
<1> DEFINE r == CommittedRun(h)
<1>0. /\ db \in Databases /\ db.run \in RunRows
      /\ request[h] \in Requests \cup {NoRequest, StartRequest} /\ db.run.week <= Deadline
  BY DatabaseFields DEF TypeOK
<1>1. FinalRun(h) \in RunRows /\ FinalRun(h).week <= Deadline
  BY <1>0, FinalRow
<1>2. CASE IsContent(h)
  <2>1. request[h] \in ContentCommands /\ request[h].expected \in Nat
    BY <1>0, <1>2, RequestKinds DEF IsContent, Requests
  <2>2. FinalRun(h) = db.run
    BY <1>2 DEF FinalRun, IsContent, Played, IsTurn
  <2>3. r = [db.run EXCEPT !.version = request[h].expected + 1]
    BY <1>2 DEF CommittedRun, RunAfterResponse
  <2> HIDE DEF r
  <2>4. r \in RunRows /\ r.week = db.run.week /\ r.play = db.run.play /\ r.status = db.run.status
    BY <2>1, <2>3, <1>0 DEF RunRows
  <2> QED
    BY <2>2, <2>4, <1>0 DEF r
<1>3. CASE ~IsContent(h)
  BY <1>1, <1>3 DEF CommittedRun
<1> QED
  BY <1>2, <1>3

\* The database a transaction would commit now is one.
LEMMA CommitTypes ==
  ASSUME TypeOK, LockInv, AskedInv, StartedInv, LoadedInv, DraftInv, PlayedInv, ActiveInv, TurnChain,
         NEW h \in Handlers, Commits(h)
  PROVE  /\ db' \in Databases /\ db'.run.week <= Deadline
         /\ db'.run = CommittedRun(h) /\ db'.turns = draft.turns
         /\ db'.deliveries = draft.deliveries /\ db'.responses = draft.responses
<1>1. phase[h] \in Resolving \cup {"gate", "play", "commit"} /\ writer = h
  BY DEF Commits
<1>2. CommittedRun(h) \in RunRows /\ CommittedRun(h).week <= Deadline
  BY <1>1, CommittedRow
<1>3. draft \in Databases /\ db' = [draft EXCEPT !.run = CommittedRun(h)]
  BY DEF TypeOK, Commits
<1> QED
  BY <1>2, <1>3, DatabaseFields

-----------------------------------------------------------------------------
(***************************************************************************)
(* Types.                                                                  *)
(***************************************************************************)
\* What a handler sees is a database.
LEMMA ViewTypes ==
  ASSUME TypeOK, NEW h \in Handlers
  PROVE  /\ View(h) \in Databases
         /\ SessionStatuses(h) \in Statuses
<1>1. View(h) \in Databases
  BY DEF View, TypeOK
<1>2. View(h).deliveries \in Statuses /\ seen[h] \in Statuses
  BY <1>1, DatabaseFields DEF TypeOK
<1> QED
  BY <1>1, <1>2 DEF SessionStatuses, Statuses

\* A delivery to a database is one.
LEMMA DeliveryTypes ==
  ASSUME NEW d \in Databases, NEW fresh
  PROVE  [d EXCEPT !.deliveries = Deliver(@, fresh)] \in Databases
<1>1. d.deliveries \in Statuses
  BY DatabaseFields
<1>2. Deliver(d.deliveries, fresh) \in Statuses
  BY <1>1 DEF Deliver, Statuses
<1>3. [d EXCEPT !.deliveries = Deliver(@, fresh)] = [d EXCEPT !.deliveries = Deliver(d.deliveries, fresh)]
  BY DEF Databases
<1> QED
  BY <1>2, <1>3, DatabaseFields

\* The row of a turn that is about to be played.
LEMMA TurnTypes ==
  ASSUME TypeOK, NEW h \in Handlers, request[h] \in Turns
  PROVE  /\ TurnOf(h) \in TurnRows
         /\ TurnOf(h).week = loaded[h].week + 1
         /\ TurnOf(h).play = Append(loaded[h].play, request[h].decision)
         /\ TurnOf(h).request = request[h]
<1>1. loaded[h].week \in Nat /\ loaded[h].play \in Plays
  BY RunFields DEF TypeOK
<1>2. request[h].decision \in Decisions /\ request[h].expected \in Nat
  BY RequestKinds
<1>3. Append(loaded[h].play, request[h].decision) \in Plays
  BY <1>1, <1>2 DEF Plays
<1> QED
  BY <1>1, <1>2, <1>3 DEF TurnOf, Week, TurnRows

\* What the draft becomes.
LEMMA DraftTypes ==
  ASSUME TypeOK, AskedInv, LockInv, NEW h \in Handlers, Step(h)
  PROVE  draft' \in Databases /\ writer' \in Handlers \cup {NoHandler}
<1>0. /\ db \in Databases /\ draft \in Databases /\ writer \in Handlers \cup {NoHandler}
      /\ EmptyDatabase \in Databases
      /\ loaded[h] \in RunRows
  BY EmptyTypes DEF TypeOK
<1>a. \A d \in Databases : Write(h, d) => draft' \in Databases /\ writer' \in Handlers \cup {NoHandler}
  BY DEF Write
<1>b. \A d : Commit(h, d) => draft' \in Databases /\ writer' \in Handlers \cup {NoHandler}
  BY <1>0 DEF Commit
<1>c. Rollback(h) => draft' \in Databases /\ writer' \in Handlers \cup {NoHandler}
  BY <1>0 DEF Rollback
<1>1. CASE Start(h)
  <2>1. [db EXCEPT !.run = NewRun] \in Databases
    BY <1>0, EmptyTypes, DatabaseFields
  <2> QED
    BY <1>1, <2>1, <1>a DEF Start
<1>2. CASE Send(h) \/ Receive(h) \/ Retry(h) \/ Lookup(h) \/ Load(h) \/ ReadDeliveries(h)
           \/ ReadDelivery(h) \/ GiveUp(h)
  BY <1>2, <1>0 DEF Send, Receive, Retry, Lookup, Load, ReadDeliveries, ReadDelivery, GiveUp
<1>3. CASE OpenDeliveries(h)
  <2>1. \A fresh : [db EXCEPT !.deliveries = Deliver(@, fresh)] \in Databases
    BY <1>0, DeliveryTypes
  <2> QED
    BY <1>3, <2>1, <1>0, <1>a DEF OpenDeliveries
<1>4. CASE Round(h)
  <2>1. \A fresh : [draft EXCEPT !.deliveries = Deliver(@, fresh)] \in Databases
    BY <1>0, DeliveryTypes
  <2> QED
    BY <1>4, <2>1, <1>0, <1>a DEF Round
<1>5. CASE Gate(h)
  BY <1>5, <1>0, <1>b DEF Gate, CommitBlocked
<1>6. CASE Play(h)
  <2>1. request[h] \in Turns
    BY <1>6 DEF Play, AskedInv
  <2>2. TurnOf(h) \in TurnRows
    BY <2>1, TurnTypes
  <2>3. View(h) \in Databases /\ View(h).turns \subseteq TurnRows
    BY ViewTypes, DatabaseFields
  <2>4. [View(h) EXCEPT !.turns = @ \cup {TurnOf(h)}] = [View(h) EXCEPT !.turns = View(h).turns \cup {TurnOf(h)}]
    BY <2>3 DEF Databases
  <2>5. [View(h) EXCEPT !.turns = @ \cup {TurnOf(h)}] \in Databases
    BY <2>2, <2>3, <2>4, DatabaseFields
  <2> QED
    BY <1>6, <2>5, <1>a, <1>c DEF Play
<1>7. CASE Respond(h)
  <2>1. request[h] \in ContentCommands /\ request[h].entry \in Entries
    BY <1>7, RequestKinds DEF Respond, AskedInv
  <2>2. [db EXCEPT !.responses = @ \cup {request[h]}, !.deliveries[request[h].entry] = "completed"] \in Databases
    BY <1>0, <2>1 DEF Databases, ResponseRows, Statuses
  <2> QED
    BY <1>7, <2>2, <1>0, <1>a DEF Respond
<1>8. CASE Submit(h)
  <2>1. request[h] \in Submissions /\ request[h].expected \in Nat
    BY <1>8, RequestKinds DEF Submit, AskedInv
  <2>2. db.run \in RunRows /\ loaded[h].play \in Plays
    BY <1>0, DatabaseFields, RunFields
  <2>3. RunAfterSubmission(db.run, h) \in RunRows
    BY <2>1, SubmissionTypes
  <2>4. [db EXCEPT !.run = RunAfterSubmission(@, h)] = [db EXCEPT !.run = RunAfterSubmission(db.run, h)]
    BY <1>0 DEF Databases
  <2>5. [db EXCEPT !.run = RunAfterSubmission(@, h)] \in Databases
    BY <2>3, <2>4, <1>0, DatabaseFields
  <2> QED
    BY <1>8, <2>5, <1>a DEF Submit
<1>9. CASE CommitTurn(h) \/ CommitResponse(h) \/ CommitRun(h)
  BY <1>9, <1>b DEF CommitTurn, CommitResponse, CommitRun
<1>10. CASE Fail(h)
  BY <1>10, <1>c DEF Fail
<1> QED
  BY <1>1, <1>2, <1>3, <1>4, <1>5, <1>6, <1>7, <1>8, <1>9, <1>10 DEF Step, Handle

\* What a handler holds after its step.
LEMMA HeldValues ==
  ASSUME TypeOK, NEW h \in Handlers, Step(h)
  PROVE  /\ loaded' \in [Handlers -> RunRows] /\ seen' \in [Handlers -> Statuses]
         /\ loaded'[h] \in {loaded[h], NoRun, db.run}
         /\ seen'[h] \in {seen[h], Undelivered, db.deliveries}
         /\ phase' \in [Handlers -> Phases]
         /\ failures' \in 0 .. MaxFailures
<1>0. /\ phase \in [Handlers -> Phases]
      /\ loaded \in [Handlers -> RunRows] /\ seen \in [Handlers -> Statuses]
      /\ failures \in 0 .. MaxFailures
      /\ db.run \in RunRows /\ db.deliveries \in Statuses
      /\ NoRun \in RunRows /\ Undelivered \in Statuses
  BY DatabaseFields, EmptyTypes DEF TypeOK
<1>a. \A to \in Phases : Proceed(h, to) => phase' \in [Handlers -> Phases]
  BY <1>0 DEF Proceed
<1> DEFINE Kept == loaded' = loaded /\ seen' = seen
           Dropped == loaded' = [loaded EXCEPT ![h] = NoRun] /\ seen' = [seen EXCEPT ![h] = Undelivered]
           Unread == loaded' = loaded /\ seen' = [seen EXCEPT ![h] = Undelivered]
           LoadedRun == loaded' = [loaded EXCEPT ![h] = db.run] /\ seen' = seen
           ReadRows == loaded' = loaded /\ seen' = [seen EXCEPT ![h] = db.deliveries]
<1>b. \A o, t : Answer(h, o, t) => phase' \in [Handlers -> Phases] /\ Dropped
  BY <1>0 DEF Answer, Phases
<1>c. {"idle", "lookup", "load", "deliver", "gate", "play", "open", "respond", "submit", "commit", "done",
       "before_week", "after_week", "run_finished", "run_started", "responded"} \subseteq Phases
  BY DEF Phases, Resolving
<1>d. session' = session => Kept
  BY DEF session
<1>e. Kept \/ Dropped \/ Unread \/ LoadedRun \/ ReadRows =>
        /\ loaded' \in [Handlers -> RunRows] /\ seen' \in [Handlers -> Statuses]
        /\ loaded'[h] \in {loaded[h], NoRun, db.run}
        /\ seen'[h] \in {seen[h], Undelivered, db.deliveries}
  BY <1>0
<1> HIDE DEF Kept, Dropped
<1>1. CASE Start(h)
  BY <1>1, <1>0, <1>a, <1>c, <1>d, <1>e DEF Start
<1>2. CASE Send(h) \/ Receive(h) \/ Retry(h)
  <2>1. (IF request'[h].kind = "submit" THEN "load" ELSE "lookup") \in Phases
        /\ (IF request[h].kind = "submit" THEN "load" ELSE "lookup") \in Phases /\ "idle" \in Phases
    BY <1>c
  <2> QED
    BY <1>2, <2>1, <1>0, <1>a, <1>d, <1>e DEF Send, Receive, Retry
<1>3. CASE Lookup(h)
  BY <1>3, <1>0, <1>a, <1>b, <1>c, <1>d, <1>e DEF Lookup
<1>4. CASE Load(h)
  <2>1. (CASE request[h].kind = "turn" -> "before_week"
           [] request[h].kind = "submit" -> "submit"
           [] OTHER -> "open") \in Phases
    BY <1>c
  <2>2. CASE \E o : Answer(h, o, NoTurn)
    BY <1>4, <2>2, <1>0, <1>b, <1>e DEF Load
  <2>3. CASE phase' \in [Handlers -> Phases] /\ LoadedRun
    BY <1>4, <2>3, <1>0, <1>e DEF Load
  <2> QED
    BY <1>4, <2>1, <2>2, <2>3, <1>a DEF Load
<1>5. CASE ReadDeliveries(h)
  BY <1>5, <1>0, <1>a, <1>c, <1>e DEF ReadDeliveries
<1>6. CASE OpenDeliveries(h)
  <2>1. CASE Unread /\ Proceed(h, "gate")
    BY <1>6, <2>1, <1>0, <1>a, <1>c, <1>e DEF OpenDeliveries
  <2>2. CASE Kept /\ Proceed(h, "before_week")
    BY <1>6, <2>2, <1>0, <1>a, <1>c, <1>e DEF OpenDeliveries
  <2>3. CASE Answer(h, "integrity_error", NoTurn)
    BY <1>6, <2>3, <1>0, <1>b, <1>e DEF OpenDeliveries
  <2> QED
    BY <1>6, <2>1, <2>2, <2>3, <1>d DEF OpenDeliveries
<1>7. CASE Round(h)
  <2>1. AfterResolving(h) \in Phases
    BY <1>c DEF AfterResolving
  <2>2. CASE Unread /\ Proceed(h, AfterResolving(h))
    BY <1>7, <2>1, <2>2, <1>0, <1>a, <1>e DEF Round
  <2>3. CASE seen' = seen /\ loaded' = loaded /\ phase' = phase
    BY <1>7, <2>3, <1>0, <1>e DEF Round, Kept
  <2> QED
    BY <1>7, <2>2, <2>3 DEF Round
<1>8. CASE Gate(h)
  BY <1>8, <1>0, <1>a, <1>b, <1>c, <1>d, <1>e DEF Gate
<1>9. CASE Play(h)
  BY <1>9, <1>0, <1>a, <1>b, <1>c, <1>d, <1>e DEF Play
<1>10. CASE CommitTurn(h) \/ CommitResponse(h) \/ CommitRun(h) \/ GiveUp(h)
  BY <1>10, <1>0, <1>b, <1>e DEF CommitTurn, CommitResponse, CommitRun, GiveUp
<1>11. CASE ReadDelivery(h)
  BY <1>11, <1>0, <1>a, <1>b, <1>c, <1>d, <1>e DEF ReadDelivery
<1>12. CASE Respond(h)
  BY <1>12, <1>0, <1>a, <1>b, <1>c, <1>d, <1>e DEF Respond
<1>13. CASE Submit(h)
  BY <1>13, <1>0, <1>a, <1>c, <1>d, <1>e DEF Submit
<1>14. CASE Fail(h)
  <2>1. failures' \in 0 .. MaxFailures
    BY <1>14, <1>0, FailureAssumption DEF Fail
  <2> QED
    BY <1>14, <2>1, <1>b, <1>e DEF Fail
<1> QED
  BY <1>1, <1>2, <1>3, <1>4, <1>5, <1>6, <1>7, <1>8, <1>9, <1>10, <1>11, <1>12, <1>13, <1>14
     DEF Step, Handle

\* The reply a handler gives, and the request it has.
LEMMA AnswerTypes ==
  ASSUME TypeOK, AskedInv, NEW h \in Handlers, Step(h)
  PROVE  /\ reply' \in [Handlers -> Replies]
         /\ request' \in [Handlers -> Requests \cup {NoRequest, StartRequest}]
<1>0. /\ reply \in [Handlers -> Replies]
      /\ request \in [Handlers -> Requests \cup {NoRequest, StartRequest}]
      /\ db \in Databases /\ db.turns \subseteq TurnRows
  BY DatabaseFields DEF TypeOK
<1>a. \A o \in Outcomes, t \in TurnRows \cup {NoTurn} : Answer(h, o, t) => reply' \in [Handlers -> Replies]
  BY <1>0 DEF Answer, Replies
<1>b. NoReply \in Replies
  BY DEF NoReply, Replies, Outcomes
<1>c. {"ok", "rejected", "conflict", "blocked", "integrity_error", "failed"} \subseteq Outcomes
  BY DEF Outcomes
<1>d. \A o \in Outcomes : Answer(h, o, NoTurn) => reply' \in [Handlers -> Replies]
  BY <1>a
<1>1. CASE Start(h)
  BY <1>1, <1>0 DEF Start
<1>2. CASE Send(h)
  <2>1. 1 .. db.run.version \subseteq Nat
    OBVIOUS
  <2>2. PICK q \in [kind : {"turn"}, key : Keys, decision : Decisions, expected : 1 .. db.run.version]
               \cup [kind : {"answer", "acknowledge"}, key : Keys, entry : Delivered(db.deliveries),
                     expected : 1 .. db.run.version]
               \cup [kind : {"submit"}, expected : 1 .. db.run.version] :
            request' = [request EXCEPT ![h] = q]
    BY <1>2 DEF Send
  <2>3. q \in Requests
    BY <2>1 DEF Requests, Turns, ContentCommands, Submissions, Delivered
  <2> QED
    BY <1>2, <2>2, <2>3, <1>0 DEF Send
<1>3. CASE Receive(h) \/ Retry(h)
  BY <1>3, <1>0, <1>b DEF Receive, Retry
<1>4. CASE Lookup(h)
  <2>1. ASSUME NEW row \in Stored(h)
        PROVE  (IF request[h].kind = "turn" THEN row ELSE NoTurn) \in TurnRows \cup {NoTurn}
    BY <2>1, <1>0 DEF Stored
  <2> QED
    BY <1>4, <2>1, <1>0, <1>a, <1>c, <1>d DEF Lookup
<1>5. CASE Load(h)
  <2>1. (IF request[h].kind = "submit" THEN "ok" ELSE "rejected") \in Outcomes
    BY <1>c
  <2> QED
    BY <1>5, <2>1, <1>0, <1>c, <1>d DEF Load
<1>6. CASE ReadDeliveries(h) \/ OpenDeliveries(h) \/ Round(h) \/ Gate(h) \/ Play(h)
  BY <1>6, <1>0, <1>c, <1>d DEF ReadDeliveries, OpenDeliveries, Round, Gate, Play
<1>7. CASE CommitTurn(h)
  <2>1. request[h] \in Turns
    BY <1>7, RequestKinds DEF CommitTurn, AskedInv, Requests
  <2>2. TurnOf(h) \in TurnRows
    BY <2>1, TurnTypes
  <2> QED
    BY <1>7, <2>2, <1>0, <1>a, <1>c DEF CommitTurn
<1>8. CASE ReadDelivery(h) \/ Respond(h) \/ CommitResponse(h) \/ Submit(h) \/ CommitRun(h)
  BY <1>8, <1>0, <1>c, <1>d DEF ReadDelivery, Respond, CommitResponse, Submit, CommitRun
<1>9. CASE Fail(h) \/ GiveUp(h)
  BY <1>9, <1>0, <1>c, <1>d DEF Fail, GiveUp
<1> QED
  BY <1>1, <1>2, <1>3, <1>4, <1>5, <1>6, <1>7, <1>8, <1>9 DEF Step, Handle

\* Types are kept, and no week is played after the deadline.
LEMMA TypeStep ==
  ASSUME TypeOK, LockInv, AskedInv, StartedInv, LoadedInv, DraftInv, PlayedInv, ActiveInv, TurnChain,
         NEW h \in Handlers, Step(h)
  PROVE  TypeOK'
<1>1. db' \in Databases /\ db'.run.week <= Deadline
  BY CommitShape, CommitTypes DEF TypeOK
<1> QED
  BY <1>1, DraftTypes, HeldValues, AnswerTypes DEF TypeOK

-----------------------------------------------------------------------------
(***************************************************************************)
(* The history of the run.                                                 *)
(***************************************************************************)
\* What a commit does to turns, week and play.
LEMMA CommitHistory ==
  ASSUME TypeOK, LockInv, AskedInv, StartedInv, LoadedInv, DraftInv, PlayedInv, ActiveInv, TurnChain,
         NEW h \in Handlers, Commits(h)
  PROVE  /\ Played(h) =>
              /\ db'.run.week = db.run.week + 1
              /\ db'.run.play = Append(db.run.play, request[h].decision)
              /\ request[h].decision \in Decisions
              /\ db'.turns = db.turns \cup {TurnOf(h)}
              /\ TurnOf(h).week = db.run.week + 1
              /\ TurnOf(h).play = db'.run.play
         /\ ~Played(h) =>
              /\ db'.run.week = db.run.week /\ db'.run.play = db.run.play /\ db'.turns = db.turns
         /\ db'.run.status = FinalRun(h).status
<1>1. phase[h] \in Resolving \cup {"gate", "play", "commit"} /\ writer = h
  BY DEF Commits
<1>2. db'.run = CommittedRun(h) /\ db'.turns = draft.turns
  BY CommitTypes
<1>3. /\ db'.run.week = FinalRun(h).week /\ db'.run.play = FinalRun(h).play
      /\ db'.run.status = FinalRun(h).status
  BY <1>1, <1>2, CommittedRow
<1>4. db'.turns = IF Played(h) THEN db.turns \cup {TurnOf(h)} ELSE db.turns
  BY <1>1, <1>2 DEF DraftInv, DraftOK
<1>5. /\ Played(h) =>
          /\ FinalRun(h).week = db.run.week + 1
          /\ FinalRun(h).play = Append(db.run.play, request[h].decision)
          /\ request[h].decision \in Decisions
          /\ TurnOf(h).week = FinalRun(h).week /\ TurnOf(h).play = FinalRun(h).play
      /\ ~Played(h) => FinalRun(h).week = db.run.week /\ FinalRun(h).play = db.run.play
  BY <1>1, FinalRow
<1> QED
  BY <1>3, <1>4, <1>5

\* A turn continues the chain.
LEMMA ChainStep ==
  ASSUME TypeOK, LockInv, AskedInv, StartedInv, LoadedInv, DraftInv, PlayedInv, ActiveInv, TurnChain,
         NEW h \in Handlers, Step(h)
  PROVE  TurnChain'
<1> DEFINE w == db.run.week
           p == db.run.play
           q == db'.run.play
<1>0. w \in Nat /\ p \in Plays /\ w = Len(p)
  BY DatabaseFields, RunFields DEF TypeOK, TurnChain
<1>1. CASE db' = db
  BY <1>1 DEF TurnChain
<1>2. CASE Commits(h) /\ ~Played(h)
  BY <1>2, CommitHistory DEF TurnChain
<1>3. CASE Commits(h) /\ Played(h)
  <2> DEFINE t == TurnOf(h)
  <2>1. /\ db'.run.week = w + 1 /\ q = Append(p, request[h].decision) /\ request[h].decision \in Decisions
        /\ db'.turns = db.turns \cup {t} /\ t.week = w + 1 /\ t.play = q
    BY <1>3, CommitHistory
  <2> HIDE DEF t
  <2>2. q \in Plays /\ Len(q) = w + 1
    BY <1>0, <2>1 DEF Plays
  <2>3. SubSeq(q, 1, w + 1) = q /\ \A v \in 0 .. w : SubSeq(q, 1, v) = SubSeq(p, 1, v)
    BY <1>0, <2>1, <2>2, Beginnings
  <2>4. ASSUME NEW v \in 1 .. w + 1
        PROVE  \E u \in db'.turns : u.week = v /\ u.play = SubSeq(q, 1, v)
    <3>1. CASE v = w + 1
      BY <2>1, <2>3, <3>1
    <3>2. CASE v # w + 1
      <4>1. v \in 1 .. w /\ v \in 0 .. w
        BY <1>0, <3>2
      <4>2. PICK u \in db.turns : u.week = v /\ u.play = SubSeq(p, 1, v)
        BY <4>1 DEF TurnChain
      <4> QED
        BY <4>1, <4>2, <2>1, <2>3
    <3> QED
      BY <3>1, <3>2
  <2>5. \A u \in db.turns : u.week \in 1 .. w
    BY DEF TurnChain
  <2>6. \A u, v \in db'.turns : u.week = v.week => u = v
    BY <1>0, <2>1, <2>5 DEF TurnChain
  <2>7. \A u \in db'.turns : u.week \in 1 .. w + 1
    BY <1>0, <2>1, <2>5
  <2> HIDE DEF q
  <2> QED
    BY <2>1, <2>2, <2>4, <2>6, <2>7 DEF TurnChain, q
<1> QED
  BY <1>1, <1>2, <1>3, CommitShape

\* What one committed database leaves to the next: nothing of a run is taken back.
Grows(d, e) ==
  /\ d.run # NoRun => e.run # NoRun
  /\ d.run.week <= e.run.week
  /\ d.run.play = SubSeq(e.run.play, 1, d.run.week)
  /\ d.turns \subseteq e.turns
  /\ Completed(d.deliveries) \subseteq Completed(e.deliveries)
  /\ Delivered(d.deliveries) \subseteq Delivered(e.deliveries)

LEMMA Growth ==
  ASSUME TypeOK, LockInv, AskedInv, StartedInv, LoadedInv, DraftInv, PlayedInv, ActiveInv, TurnChain,
         NEW h \in Handlers, Step(h)
  PROVE  Grows(db, db')
<1>0. /\ db.run.week \in Nat /\ db.run.play \in Plays /\ db.run.week = Len(db.run.play)
  BY DatabaseFields, RunFields DEF TypeOK, TurnChain
<1>1. SubSeq(db.run.play, 1, db.run.week) = db.run.play
  BY <1>0, Beginnings
<1>2. CASE db' = db
  BY <1>0, <1>1, <1>2 DEF Grows
<1>3. CASE Commits(h)
  <2>1. /\ Completed(db.deliveries) \subseteq Completed(db'.deliveries)
        /\ Delivered(db.deliveries) \subseteq Delivered(db'.deliveries)
    BY <1>3, CommitTypes DEF DraftInv, DraftOK, Commits
  <2>2. db.turns \subseteq db'.turns
    BY <1>3, CommitHistory
  <2>3. db.run.week <= db'.run.week
    BY <1>0, <1>3, CommitHistory
  <2>4. db.run.play = SubSeq(db'.run.play, 1, db.run.week)
    <3>1. CASE Played(h)
      <4>1. db'.run.play = Append(db.run.play, request[h].decision) /\ request[h].decision \in Decisions
        BY <1>3, <3>1, CommitHistory
      <4> QED
        BY <4>1, <1>0, <1>1, Beginnings
    <3>2. CASE ~Played(h)
      BY <1>1, <1>3, <3>2, CommitHistory
    <3> QED
      BY <3>1, <3>2
  <2>5. db.run # NoRun => db'.run # NoRun
    <3> SUFFICES ASSUME db.run # NoRun PROVE db'.run # NoRun
      OBVIOUS
    <3>1. db.run.status # "absent"
      BY DEF StartedInv
    <3>2. writer = h /\ phase[h] \in Resolving \cup {"gate", "play", "commit"}
      BY <1>3 DEF Commits
    <3>3. FinalRun(h).status # "absent"
      <4>1. FinalRun(h).status # "absent" \/ FinalRun(h) = db.run
        BY <3>2, FinalRow
      <4> QED
        BY <3>1, <4>1
    <3>4. db'.run.status # "absent"
      BY <1>3, <3>3, CommitHistory
    <3> QED
      BY <3>4 DEF NoRun
  <2> QED
    BY <2>1, <2>2, <2>3, <2>4, <2>5 DEF Grows
<1> QED
  BY <1>2, <1>3, CommitShape

\* What was loaded stays a place in the history.
LEMMA LoadedKeeps ==
  ASSUME NEW d \in Databases, NEW e \in Databases, Grows(d, e), NEW run \in RunRows,
         LoadedOK(run, d), e.run.week = Len(e.run.play)
  PROVE  LoadedOK(run, e)
<1>1. /\ d.run.week \in Nat /\ e.run.week \in Nat /\ e.run.play \in Plays /\ run.week \in Nat
  BY DatabaseFields, RunFields
<1>2. run.play = SubSeq(SubSeq(e.run.play, 1, d.run.week), 1, run.week)
  BY DEF LoadedOK, Grows
<1>3. SubSeq(SubSeq(e.run.play, 1, d.run.week), 1, run.week) = SubSeq(e.run.play, 1, run.week)
  BY <1>1, Beginnings DEF Grows, LoadedOK
<1> QED
  BY <1>1, <1>2, <1>3 DEF LoadedOK, Grows

-----------------------------------------------------------------------------
(***************************************************************************)
(* What handlers hold.                                                     *)
(***************************************************************************)
\* What a handler has loaded stays right, and a turn is for a week before the
\* deadline.
LEMMA LoadedStep ==
  ASSUME TypeOK, LockInv, AskedInv, StartedInv, LoadedInv, DraftInv, PlayedInv, ActiveInv, TurnChain,
         NEW h \in Handlers, Step(h)
  PROVE  LoadedInv'
<1>0. /\ phase \in [Handlers -> Phases] /\ loaded \in [Handlers -> RunRows]
      /\ db \in Databases /\ db.run \in RunRows
      /\ request \in [Handlers -> Requests \cup {NoRequest, StartRequest}]
  BY DatabaseFields DEF TypeOK
<1>1. db' \in Databases /\ db'.run.week = Len(db'.run.play) /\ loaded' \in [Handlers -> RunRows]
  BY TypeStep, ChainStep DEF TypeOK, TurnChain
<1>2. Grows(db, db')
  BY Growth
<1>3. ASSUME NEW g \in Handlers
      PROVE  LoadedOK(loaded'[g], db')
  <2>1. loaded'[g] \in {loaded[g], NoRun, db.run}
    BY HeldValues, OthersFrame
  <2>2. LoadedOK(loaded[g], db)
    BY DEF LoadedInv
  <2>3. LoadedOK(db.run, db)
    <3>1. db.run.week \in Nat /\ db.run.play \in Plays /\ db.run.week = Len(db.run.play)
      BY <1>0, RunFields DEF TurnChain
    <3> QED
      BY <3>1, Beginnings DEF LoadedOK
  <2>4. LoadedOK(NoRun, db)
    <3>1. db.run.week \in Nat /\ db.run.play \in Plays
      BY <1>0, RunFields
    <3>2. SubSeq(db.run.play, 1, 0) = <<>>
      BY <3>1 DEF Plays
    <3> QED
      BY <3>1, <3>2 DEF LoadedOK, NoRun
  <2>5. LoadedOK(loaded'[g], db) /\ loaded'[g] \in RunRows
    BY <1>1, <2>1, <2>2, <2>3, <2>4
  <2> QED
    BY <1>0, <1>1, <1>2, <2>5, LoadedKeeps
<1> DEFINE Playing == Resolving \cup {"deliver", "gate", "play", "commit"}
<1>a. \A to : Proceed(h, to) => phase'[h] = to
  BY <1>0 DEF Proceed
<1>b. \A o, t : Answer(h, o, t) => phase'[h] = "done"
  BY <1>0 DEF Answer
<1>c. /\ Playing \cap {"idle", "lookup", "load", "open", "respond", "submit", "done"} = {}
      /\ {"before_week", "deliver", "gate", "play", "after_week"} \subseteq Playing
      /\ Resolving \subseteq Playing
  BY DEF Resolving
<1> HIDE DEF Playing
<1>d. ASSUME phase[h] \in Playing, loaded'[h] = loaded[h], request'[h] = request[h]
      PROVE  request'[h].kind = "turn" /\ phase'[h] \in Playing => loaded'[h].week < Deadline
  BY <1>d DEF LoadedInv, IsTurn, Playing
<1>4. request'[h].kind = "turn" /\ phase'[h] \in Playing => loaded'[h].week < Deadline
  <2>1. CASE Start(h) \/ Submit(h) \/ Respond(h)
    <3>1. request'[h].kind # "turn"
      BY <2>1, <1>0, RequestKinds DEF Start, Submit, Respond, AskedInv
    <3> QED
      BY <3>1
  <2>2. CASE Send(h) \/ Receive(h) \/ Retry(h)
    BY <2>2, <1>a, <1>c DEF Send, Receive, Retry
  <2>3. CASE Lookup(h) \/ ReadDelivery(h)
    BY <2>3, <1>a, <1>b, <1>c DEF Lookup, ReadDelivery
  <2>4. CASE Load(h)
    <3>1. CASE request[h].kind = "turn" /\ loaded' = [loaded EXCEPT ![h] = db.run] /\ Accepts(h)
      <4>1. db.run.status = "active"
        BY <3>1, RequestKinds DEF Accepts
      <4>2. loaded'[h] = db.run
        BY <3>1, <1>0
      <4> QED
        BY <4>1, <4>2 DEF ActiveInv
    <3> QED
      BY <2>4, <3>1, <1>a, <1>b, <1>c DEF Load
  <2>5. CASE ReadDeliveries(h)
    BY <2>5, <1>c, <1>d DEF ReadDeliveries
  <2>6. CASE OpenDeliveries(h)
    BY <2>6, <1>b, <1>c, <1>d DEF OpenDeliveries, session
  <2>7. CASE Round(h)
    BY <2>7, <1>c, <1>d DEF Round
  <2>8. CASE Gate(h)
    BY <2>8, <1>b, <1>c, <1>d DEF Gate, session
  <2>9. CASE Play(h)
    BY <2>9, <1>b, <1>c, <1>d DEF Play, session
  <2>10. CASE CommitTurn(h) \/ CommitResponse(h) \/ CommitRun(h) \/ Fail(h) \/ GiveUp(h)
    BY <2>10, <1>b, <1>c DEF CommitTurn, CommitResponse, CommitRun, Fail, GiveUp
  <2> QED
    BY <2>1, <2>2, <2>3, <2>4, <2>5, <2>6, <2>7, <2>8, <2>9, <2>10 DEF Step, Handle
<1>5. ASSUME NEW g \in Handlers, g # h
      PROVE  request'[g].kind = "turn" /\ phase'[g] \in Playing => loaded'[g].week < Deadline
  BY <1>5, OthersFrame DEF LoadedInv, IsTurn, Playing
<1> QED
  BY <1>3, <1>4, <1>5 DEF LoadedInv, IsTurn, Playing

\* What was read as completed stays so.
LEMMA SeenStep ==
  ASSUME TypeOK, LockInv, AskedInv, StartedInv, LoadedInv, DraftInv, PlayedInv, ActiveInv, TurnChain,
         SeenInv, NEW h \in Handlers, Step(h)
  PROVE  SeenInv'
<1>1. Completed(db.deliveries) \subseteq Completed(db'.deliveries)
  BY Growth DEF Grows
<1>2. ASSUME NEW g \in Handlers
      PROVE  Completed(seen'[g]) \subseteq Completed(db'.deliveries)
  <2>1. seen'[g] \in {seen[g], Undelivered, db.deliveries}
    BY HeldValues, OthersFrame
  <2>2. Completed(Undelivered) = {}
    BY DEF Completed, Undelivered
  <2>3. Completed(seen[g]) \subseteq Completed(db.deliveries)
    BY DEF SeenInv
  <2> QED
    BY <1>1, <2>1, <2>2, <2>3
<1> QED
  BY <1>2 DEF SeenInv

\* A handler that holds the lock after its step has just taken it, or goes on.
LEMMA HoldingSteps ==
  ASSUME TypeOK, LockInv, AskedInv, NEW h \in Handlers, Step(h), writer' = h
  PROVE  \/ Start(h)
         \/ OpenDeliveries(h) /\ writer # h
         \/ Round(h)
         \/ Gate(h) /\ phase'[h] = "play" /\ UNCHANGED <<db, writer, draft, session>>
         \/ Play(h) /\ phase'[h] = "after_week"
         \/ Respond(h) /\ writer # h
         \/ Submit(h) /\ writer # h
<1> USE HandlerAssumption
<1>0. phase \in [Handlers -> Phases]
  BY DEF TypeOK
<1>a. \A to : Proceed(h, to) => phase'[h] = to
  BY <1>0 DEF Proceed
<1>b. writer = h => phase[h] \in Resolving \cup {"gate", "play", "commit"}
  BY DEF LockInv
<1>c. \A d : ~Commit(h, d)
  BY DEF Commit
<1>d. ~Rollback(h)
  BY DEF Rollback
<1>1. CASE Send(h) \/ Receive(h) \/ Retry(h) \/ Lookup(h) \/ Load(h)
  BY <1>1, <1>b DEF Send, Receive, Retry, Lookup, Load, Resolving
<1>2. CASE ReadDeliveries(h) \/ ReadDelivery(h) \/ GiveUp(h)
  BY <1>2, <1>b DEF ReadDeliveries, ReadDelivery, GiveUp, Resolving
<1>3. CASE OpenDeliveries(h) \/ Respond(h) \/ Submit(h)
  BY <1>3, <1>b DEF OpenDeliveries, Respond, Submit, Resolving
<1>4. CASE Gate(h)
  <2>1. ASSUME CommitBlocked(h), Answer(h, "blocked", NoTurn)
        PROVE  FALSE
    <3>1. UNCHANGED <<db, writer, draft>>
      BY <2>1, <1>c DEF CommitBlocked
    <3>2. writer = h
      BY <3>1
    <3> QED
      BY <2>1, <3>2, <1>c DEF CommitBlocked
  <2> QED
    BY <1>4, <2>1, <1>a DEF Gate
<1>5. CASE Play(h)
  BY <1>5, <1>a, <1>d DEF Play
<1>6. CASE CommitTurn(h) \/ CommitResponse(h) \/ CommitRun(h) \/ Fail(h)
  BY <1>6, <1>c, <1>d DEF CommitTurn, CommitResponse, CommitRun, Fail
<1> QED
  BY <1>1, <1>2, <1>3, <1>4, <1>5, <1>6 DEF Step, Handle

\* Only Send gives a handler a request for the run.
LEMMA RequestStep ==
  ASSUME TypeOK, LockInv, NEW h \in Handlers, Step(h)
  PROVE  /\ request'[h] \in Requests => request'[h] = request[h] \/ db.run # NoRun
         /\ writer' = h /\ ~Start(h) => request'[h] = request[h]
<1>0. request \in [Handlers -> Requests \cup {NoRequest, StartRequest}]
  BY DEF TypeOK
<1>1. CASE Start(h)
  BY <1>1, <1>0, RequestKinds DEF Start, Requests
<1>2. CASE Send(h) \/ Receive(h)
  <2>1. writer' # h
    BY <1>2 DEF Send, Receive, LockInv, Resolving
  <2>2. Receive(h) => request'[h] = NoRequest
    BY <1>0 DEF Receive
  <2>3. NoRequest \notin Requests
    BY RequestKinds DEF Requests
  <2> QED
    BY <1>2, <2>1, <2>2, <2>3 DEF Send
<1>3. CASE request' = request
  BY <1>3
<1>4. CASE Retry(h) \/ Handle(h) \/ Fail(h)
  BY <1>3, <1>4 DEF Retry, Handle, Fail, Lookup, Load, ReadDeliveries, OpenDeliveries, Round, Gate, Play,
    CommitTurn, ReadDelivery, Respond, CommitResponse, Submit, CommitRun, GiveUp
<1> QED
  BY <1>1, <1>2, <1>4 DEF Step

\* A commit leaves a run that exists.
LEMMA CommitStarts ==
  ASSUME TypeOK, LockInv, AskedInv, StartedInv, LoadedInv, DraftInv, PlayedInv, ActiveInv, TurnChain,
         NEW h \in Handlers, Commits(h)
  PROVE  db'.run.status # "absent"
<1>1. writer = h /\ phase[h] \in Resolving \cup {"gate", "play", "commit"}
  BY DEF Commits
<1>2. db'.run.status = FinalRun(h).status
  BY CommitHistory
<1>3. request[h] \in Requests \cup {StartRequest}
  BY <1>1 DEF AskedInv, Resolving, Requests
<1>4. CASE request[h] \in Requests
  <2>1. db.run.status # "absent"
    BY <1>4 DEF StartedInv
  <2>2. FinalRun(h).status # "absent" \/ FinalRun(h) = db.run
    BY <1>1, FinalRow
  <2> QED
    BY <1>2, <2>1, <2>2
<1>5. CASE request[h] = StartRequest
  <2>1. FinalRun(h) = NewRun
    BY <1>5, RequestKinds DEF FinalRun, Played, IsTurn
  <2> QED
    BY <1>2, <2>1 DEF NewRun
<1> QED
  BY <1>3, <1>4, <1>5

\* Nothing is before the run, and the run is before its requests.
LEMMA StartedStep ==
  ASSUME TypeOK, LockInv, AskedInv, StartedInv, LoadedInv, DraftInv, PlayedInv, ActiveInv, TurnChain,
         NEW h \in Handlers, Step(h)
  PROVE  StartedInv'
<1> USE HandlerAssumption
<1>1. /\ db'.run = NoRun => db' = EmptyDatabase
      /\ db'.run # NoRun => db'.run.status # "absent"
  <2>1. CASE db' = db
    BY <2>1 DEF StartedInv
  <2>2. CASE Commits(h)
    BY <2>2, CommitStarts DEF NoRun
  <2> QED
    BY <2>1, <2>2, CommitShape
<1>2. ASSUME NEW g \in Handlers, request'[g] \in Requests
      PROVE  db'.run # NoRun
  <2>1. request[g] \in Requests \/ db.run # NoRun
    BY <1>2, OthersFrame, RequestStep
  <2> QED
    BY <2>1, Growth DEF StartedInv, Grows
<1>3. ASSUME NEW g \in Handlers, request'[g] = StartRequest, writer' = g
      PROVE  db'.run = NoRun
  <2>1. CASE g # h
    BY <1>3, <2>1, OthersFrame DEF StartedInv
  <2>2. CASE g = h
    <3>1. db' = db
      BY <1>3, <2>2, CommitShape DEF Commits
    <3>2. CASE Start(h)
      BY <3>1, <3>2 DEF Start
    <3>3. CASE ~Start(h)
      <4>1. request[h] = StartRequest
        BY <1>3, <2>2, <3>3, RequestStep
      <4>2. request[h].kind = "start" /\ StartRequest \notin Requests
        BY <4>1, RequestKinds DEF Requests
      <4>3. writer = h
        <5>1. ~OpenDeliveries(h) /\ ~Play(h) /\ ~Respond(h) /\ ~Submit(h)
          BY <4>1, <4>2 DEF OpenDeliveries, Play, Respond, Submit, AskedInv, Requests
        <5> QED
          BY <1>3, <2>2, <3>3, <5>1, HoldingSteps DEF Round
      <4> QED
        BY <3>1, <4>1, <4>3 DEF StartedInv
    <3> QED
      BY <3>2, <3>3
  <2> QED
    BY <2>1, <2>2
<1> QED
  BY <1>1, <1>2, <1>3 DEF StartedInv

\* A run that goes on is before its deadline.
LEMMA ActiveStep ==
  ASSUME TypeOK, LockInv, AskedInv, StartedInv, LoadedInv, DraftInv, PlayedInv, ActiveInv, TurnChain,
         NEW h \in Handlers, Step(h)
  PROVE  ActiveInv'
<1>1. CASE db' = db
  BY <1>1 DEF ActiveInv
<1>2. CASE Commits(h)
  <2>1. writer = h /\ phase[h] \in Resolving \cup {"gate", "play", "commit"}
    BY <1>2 DEF Commits
  <2>2. db'.run.status = FinalRun(h).status /\ db'.run.week = FinalRun(h).week
    BY <1>2, <2>1, CommitTypes, CommittedRow
  <2>3. FinalRun(h).status = "active" => FinalRun(h).week < Deadline
    BY <2>1, FinalRow
  <2> QED
    BY <2>2, <2>3 DEF ActiveInv
<1> QED
  BY <1>1, <1>2, CommitShape

\* What is about to be responded to, or was, was delivered to the student.
LEMMA RespondStep ==
  ASSUME TypeOK, LockInv, AskedInv, StartedInv, LoadedInv, DraftInv, PlayedInv, ActiveInv, TurnChain,
         RespondInv, RespondedInv, NEW h \in Handlers, Step(h)
  PROVE  RespondInv' /\ RespondedInv'
<1> USE HandlerAssumption
<1>0. phase \in [Handlers -> Phases]
  BY DEF TypeOK
<1>a. \A to : Proceed(h, to) => phase'[h] = to
  BY <1>0 DEF Proceed
<1>b. \A o, t : Answer(h, o, t) => phase'[h] = "done"
  BY <1>0 DEF Answer
<1>1. Delivered(db.deliveries) \subseteq Delivered(db'.deliveries)
  BY Growth DEF Grows
<1>2. ASSUME phase'[h] = "respond"
      PROVE  request'[h].entry \in Delivered(db'.deliveries) /\ ~Automatic(request'[h].entry)
  <2>1. CASE ReadDelivery(h)
    <3>1. /\ db.deliveries[request[h].entry] = "actionable" /\ Fits(request[h].kind, request[h].entry)
          /\ request' = request
      BY <1>2, <2>1, <1>b DEF ReadDelivery
    <3>2. request[h].entry \in Entries
      BY <2>1, RequestKinds DEF ReadDelivery, AskedInv
    <3>3. request[h].entry \in Delivered(db.deliveries)
      BY <3>1, <3>2 DEF Delivered
    <3>4. ~Automatic(request[h].entry)
      BY <3>1 DEF Fits, Automatic
    <3> QED
      BY <1>1, <3>1, <3>3, <3>4
  <2>2. CASE Start(h) \/ Send(h) \/ Receive(h) \/ Retry(h) \/ Fail(h)
    BY <1>2, <2>2, <1>a, <1>b DEF Start, Send, Receive, Retry, Fail
  <2>3. CASE Lookup(h) \/ Load(h) \/ ReadDeliveries(h) \/ OpenDeliveries(h) \/ Gate(h) \/ Play(h)
    BY <1>2, <2>3, <1>a, <1>b DEF Lookup, Load, ReadDeliveries, OpenDeliveries, Gate, Play
  <2>4. CASE Round(h)
    BY <1>2, <2>4, <1>a DEF Round, AfterResolving, Resolving
  <2>5. CASE CommitTurn(h) \/ Respond(h) \/ CommitResponse(h) \/ Submit(h) \/ CommitRun(h) \/ GiveUp(h)
    BY <1>2, <2>5, <1>a, <1>b DEF CommitTurn, Respond, CommitResponse, Submit, CommitRun, GiveUp
  <2> QED
    BY <2>1, <2>2, <2>3, <2>4, <2>5 DEF Step, Handle
<1>3. ASSUME NEW g \in Handlers, g # h, phase'[g] = "respond"
      PROVE  request'[g].entry \in Delivered(db'.deliveries) /\ ~Automatic(request'[g].entry)
  BY <1>1, <1>3, OthersFrame DEF RespondInv
<1>4. ASSUME request'[h].kind \in {"answer", "acknowledge"}, writer' = h
      PROVE  request'[h].entry \in Delivered(db'.deliveries)
  <2>1. ~Start(h)
    BY <1>4, <1>0, RequestKinds DEF Start, TypeOK
  <2>2. request'[h] = request[h]
    BY <1>4, <2>1, RequestStep
  <2>3. CASE writer = h
    BY <1>1, <1>4, <2>2, <2>3 DEF RespondedInv, IsContent
  <2>4. CASE Respond(h)
    BY <1>1, <1>4, <2>2, <2>4 DEF Respond, RespondInv
  <2>5. ~OpenDeliveries(h) /\ ~Play(h) /\ ~Submit(h)
    BY <1>4, <2>2, RequestKinds DEF OpenDeliveries, Play, Submit, AskedInv
  <2> QED
    BY <1>4, <2>1, <2>3, <2>4, <2>5, HoldingSteps DEF Round
<1>5. ASSUME NEW g \in Handlers, g # h, request'[g].kind \in {"answer", "acknowledge"}, writer' = g
      PROVE  request'[g].entry \in Delivered(db'.deliveries)
  BY <1>1, <1>5, OthersFrame DEF RespondedInv, IsContent
<1> QED
  BY <1>2, <1>3, <1>4, <1>5 DEF RespondInv, RespondedInv, IsContent

-----------------------------------------------------------------------------
(***************************************************************************)
(* Transactions.                                                           *)
(***************************************************************************)
\* A turn that could be inserted plays on from the last one.
LEMMA PlayedStep ==
  ASSUME TypeOK, LockInv, AskedInv, StartedInv, LoadedInv, DraftInv, PlayedInv, ActiveInv, TurnChain,
         NEW h \in Handlers, Step(h)
  PROVE  PlayedInv'
<1> USE HandlerAssumption
<1>0. /\ phase \in [Handlers -> Phases] /\ db \in Databases /\ loaded[h] \in RunRows
      /\ request \in [Handlers -> Requests \cup {NoRequest, StartRequest}]
  BY DEF TypeOK
<1>a. \A to : Proceed(h, to) => phase'[h] = to
  BY <1>0 DEF Proceed
<1>b. \A o, t : Answer(h, o, t) => phase'[h] = "done"
  BY <1>0 DEF Answer
<1>1. ASSUME NEW g \in Handlers, g # h, writer' = g, Played(g)'
      PROVE  /\ loaded'[g].week = db'.run.week /\ loaded'[g].play = db'.run.play
             /\ phase'[g] = "run_finished" =>
                  Outcome(Append(loaded'[g].play, request'[g].decision)) # "active"
  <2>1. /\ writer = g /\ db' = db /\ loaded'[g] = loaded[g] /\ phase'[g] = phase[g]
        /\ request'[g] = request[g]
    BY <1>1, OthersFrame
  <2> QED
    BY <1>1, <2>1 DEF PlayedInv, Played, IsTurn
<1>2. ASSUME writer' = h, Played(h)'
      PROVE  /\ loaded'[h].week = db'.run.week /\ loaded'[h].play = db'.run.play
             /\ phase'[h] = "run_finished" =>
                  Outcome(Append(loaded'[h].play, request'[h].decision)) # "active"
  <2>1. db' = db
    BY <1>2, CommitShape DEF Commits
  <2>2. request'[h].kind = "turn" /\ phase'[h] \in {"after_week", "run_finished", "commit"}
    BY <1>2 DEF Played, IsTurn
  <2>3. ~Start(h) /\ ~OpenDeliveries(h) /\ phase'[h] # "play"
    BY <2>2, <1>a, <1>b DEF Start, OpenDeliveries
  <2>4. request'[h] = request[h]
    BY <1>2, <2>3, RequestStep
  <2>5. ~Respond(h) /\ ~Submit(h)
    BY <2>2, <2>4, RequestKinds DEF Respond, Submit, AskedInv
  <2>6. CASE Round(h)
    <3>1. writer = h /\ phase[h] \in Resolving /\ loaded' = loaded
      BY <2>6 DEF Round
    <3>2. phase[h] \notin {"responded", "run_started"}
      BY <2>2, <2>4, RequestKinds DEF AskedInv
    <3>3. phase[h] # "before_week"
      BY <2>2, <2>6, <1>a DEF Round, AfterResolving
    <3>4. Played(h)
      BY <2>2, <2>4, <3>1, <3>2, <3>3 DEF Played, IsTurn, Resolving
    <3>5. loaded[h].week = db.run.week /\ loaded[h].play = db.run.play
      BY <3>1, <3>4 DEF PlayedInv
    <3>6. phase'[h] = "run_finished" => Outcome(Append(loaded[h].play, request[h].decision)) # "active"
      <4>1. CASE phase' = phase
        BY <3>1, <3>4, <4>1 DEF PlayedInv
      <4>2. CASE phase'[h] = AfterResolving(h)
        BY <4>2, <3>2, <3>3 DEF AfterResolving
      <4> QED
        BY <2>6, <4>1, <4>2, <1>a DEF Round
    <3> QED
      BY <2>1, <2>4, <3>1, <3>5, <3>6
  <2>7. CASE Play(h) /\ phase'[h] = "after_week"
    <3>1. /\ phase[h] = "play" /\ writer \in {NoHandler, h} /\ ~TurnTaken(View(h), TurnOf(h))
          /\ loaded' = loaded
      BY <2>7, <1>b DEF Play, session
    <3>2. View(h).turns = db.turns
      BY <3>1 DEF View, DraftInv, DraftOK, Played
    <3>3. request[h] \in Turns
      BY <3>1 DEF AskedInv
    <3>4. TurnOf(h).week = loaded[h].week + 1
      BY <3>3, TurnTypes
    <3>5. /\ LoadedOK(loaded[h], db) /\ loaded[h].week \in Nat /\ db.run.week \in Nat
          /\ db.run.play \in Plays /\ db.run.week = Len(db.run.play)
      BY <1>0, DatabaseFields, RunFields DEF LoadedInv, TurnChain
    <3>6. ~(loaded[h].week < db.run.week)
      <4> SUFFICES ASSUME loaded[h].week < db.run.week PROVE FALSE
        OBVIOUS
      <4>1. loaded[h].week + 1 \in 1 .. db.run.week
        BY <3>5
      <4>2. \E t \in db.turns : t.week = loaded[h].week + 1
        BY <4>1 DEF TurnChain
      <4> QED
        BY <4>2, <3>1, <3>2, <3>4 DEF TurnTaken
    <3>7. loaded[h].week = db.run.week
      BY <3>5, <3>6 DEF LoadedOK
    <3>8. loaded[h].play = db.run.play
      BY <3>5, <3>7, Beginnings DEF LoadedOK
    <3> QED
      BY <2>1, <2>7, <3>1, <3>7, <3>8
  <2> QED
    BY <1>2, <2>3, <2>5, <2>6, <2>7, HoldingSteps
<1> QED
  BY <1>1, <1>2 DEF PlayedInv

\* Checkpoints are in an order.
LEMMA NotAfterOrder ==
  ASSUME NEW e \in Entries, NEW f \in Entries, NEW w \in Nat, NEW v \in Nat
  PROVE  /\ NotAfter(Trigger[e], Trigger[f]) /\ NotAfter(Trigger[f], BeforeWeek(w))
              => NotAfter(Trigger[e], BeforeWeek(w))
         /\ v <= w /\ NotAfter(Trigger[e], BeforeWeek(v)) => NotAfter(Trigger[e], BeforeWeek(w))
         /\ NotAfter(Trigger[e], AfterWeek(w)) => NotAfter(Trigger[e], BeforeWeek(w + 1))
         /\ NotAfter(Trigger[e], RunStarted) => NotAfter(Trigger[e], BeforeWeek(w))
<1>1. \A c \in Checkpoints : c[1] \in Nat /\ c[2] \in Nat
  BY ScriptAssumption DEF ValidScript, Checkpoints, RunStarted, RunFinished, BeforeWeek, AfterWeek
<1>2. Trigger[e] \in Checkpoints /\ Trigger[f] \in Checkpoints
  BY ScriptAssumption DEF ValidScript
<1> QED
  BY <1>1, <1>2 DEF NotAfter, BeforeWeek, AfterWeek, RunStarted

\* What is timely in a run is timely when the run has gone on.
LEMMA TimelyLater ==
  ASSUME NEW deliveries, NEW r \in RunRows, NEW s \in RunRows, TimelyOK(deliveries, r),
         r.week <= s.week, s.status = "active" => r.status = "active"
  PROVE  TimelyOK(deliveries, s)
<1>1. r.week + 1 \in Nat /\ s.week + 1 \in Nat /\ r.week + 1 <= s.week + 1
  BY RunFields
<1> SUFFICES ASSUME NEW e \in Delivered(deliveries), s.status = "active"
    PROVE  NotAfter(Trigger[e], BeforeWeek(s.week + 1))
  BY DEF TimelyOK
<1>2. NotAfter(Trigger[e], BeforeWeek(r.week + 1)) /\ e \in Entries
  BY DEF TimelyOK, Delivered
<1> QED
  BY <1>1, <1>2, NotAfterOrder

\* A round delivers nothing that is early for the row that will be committed.
LEMMA RoundTimely ==
  ASSUME TypeOK, LockInv, AskedInv, StartedInv, LoadedInv, DraftInv, PlayedInv, ActiveInv, TurnChain,
         RespondedInv, NEW h \in Handlers, writer = h, phase[h] \in Resolving,
         NEW e \in Entries, NotAfter(Trigger[e], Reached(h))
  PROVE  NotAfter(Trigger[e], BeforeWeek(FinalRun(h).week + 1)) \/ FinalRun(h).status # "active"
<1> DEFINE r == FinalRun(h)
<1>0. /\ loaded[h].week \in Nat /\ db.run.week \in Nat /\ r.week \in Nat
      /\ loaded[h].week <= db.run.week
  <2>1. loaded[h] \in RunRows /\ db.run \in RunRows /\ r \in RunRows
    BY FinalRow, DatabaseFields DEF TypeOK
  <2> QED
    BY <2>1, RunFields DEF LoadedInv, LoadedOK
<1>1. /\ Played(h) => r.week = db.run.week + 1 /\ loaded[h].week = db.run.week
      /\ ~Played(h) => r.week = db.run.week
  BY FinalRow DEF PlayedInv
<1>2. CASE phase[h] = "run_started"
  <2> HIDE DEF r
  <2>1. NotAfter(Trigger[e], RunStarted) /\ r.week + 1 \in Nat
    BY <1>0, <1>2 DEF Reached
  <2>2. NotAfter(Trigger[e], BeforeWeek(r.week + 1))
    BY <2>1, NotAfterOrder
  <2> QED
    BY <2>2 DEF r
<1>3. CASE phase[h] = "before_week"
  <2>1. ~Played(h)
    BY <1>3 DEF Played
  <2> HIDE DEF r
  <2>2. NotAfter(Trigger[e], BeforeWeek(loaded[h].week + 1))
    BY <1>3 DEF Reached, Week
  <2>3. /\ loaded[h].week + 1 \in Nat /\ r.week + 1 \in Nat
        /\ loaded[h].week + 1 <= r.week + 1
    BY <1>0, <1>1, <2>1
  <2>4. NotAfter(Trigger[e], BeforeWeek(r.week + 1))
    BY <2>2, <2>3, NotAfterOrder
  <2> QED
    BY <2>4 DEF r
<1>4. CASE phase[h] = "after_week"
  <2>1. Played(h)
    BY <1>4, RequestKinds DEF Played, IsTurn, AskedInv
  <2>2. r.week = Week(h)
    BY <1>1, <2>1 DEF Week
  <2> HIDE DEF r
  <2>3. NotAfter(Trigger[e], AfterWeek(r.week))
    BY <1>4, <2>2 DEF Reached
  <2>4. NotAfter(Trigger[e], BeforeWeek(r.week + 1))
    BY <1>0, <2>3, NotAfterOrder
  <2> QED
    BY <2>4 DEF r
<1>5. CASE phase[h] = "run_finished"
  <2>1. CASE request[h] \in Turns
    <3>1. Played(h)
      BY <1>5, <2>1, RequestKinds DEF Played, IsTurn
    <3>2. Outcome(Append(loaded[h].play, request[h].decision)) # "active"
      BY <1>5, <3>1 DEF PlayedInv
    <3>3. Outcome(TurnOf(h).play) # "active"
      BY <2>1, <3>2, TurnTypes
    <3>4. r = RunAfterTurn(db.run, h) /\ db.run \in RunRows
      BY <3>1, DatabaseFields DEF FinalRun, TypeOK
    <3> HIDE DEF r
    <3>5. r.status = Outcome(TurnOf(h).play)
      BY <3>3, <3>4 DEF RunAfterTurn, RunRows
    <3> QED
      BY <3>3, <3>5 DEF r
  <2>2. CASE request[h] \in Submissions
    <3>1. request[h].kind = "submit" /\ ~Played(h) /\ request[h].expected \in Nat
      BY <2>2, RequestKinds DEF Played, IsTurn
    <3>2. r = RunAfterSubmission(db.run, h)
      BY <3>1 DEF FinalRun
    <3> QED
      BY <3>1, <3>2, SubmissionTypes
  <2> QED
    BY <1>5, <2>1, <2>2 DEF AskedInv
<1>6. CASE phase[h] = "responded"
  <2>1. request[h] \in ContentCommands /\ IsContent(h) /\ request[h].entry \in Entries
    BY <1>6, RequestKinds DEF AskedInv, IsContent
  <2>2. request[h].entry \in Delivered(draft.deliveries)
    BY <2>1 DEF RespondedInv, DraftInv, DraftOK
  <2>3. NotAfter(Trigger[request[h].entry], BeforeWeek(r.week + 1)) \/ r.status # "active"
    BY <2>2 DEF DraftInv, DraftOK, TimelyOK
  <2>4. NotAfter(Trigger[e], Trigger[request[h].entry])
    BY <1>6 DEF Reached
  <2>5. r.week + 1 \in Nat
    BY <1>0
  <2> HIDE DEF r
  <2>6. NotAfter(Trigger[e], BeforeWeek(r.week + 1)) \/ r.status # "active"
    BY <2>1, <2>3, <2>4, <2>5, NotAfterOrder
  <2> QED
    BY <2>6 DEF r
<1> QED
  BY <1>2, <1>3, <1>4, <1>5, <1>6 DEF Resolving

\* What is fresh by the statuses of the session, and not delivered in d.
LEMMA FreshInDatabase ==
  ASSUME NEW d \in Databases, NEW held \in Statuses, NEW status \in Statuses, NEW reached, NEW terminal,
         Completed(held) \subseteq Completed(d.deliveries),
         \A e \in Entries : status[e] # "pending" => held[e] = status[e] \/ d.deliveries[e] = status[e],
         Fresh(status, reached, terminal) \cap Delivered(d.deliveries) = {}
  PROVE  \A e \in Fresh(status, reached, terminal) :
           /\ e \in Entries /\ d.deliveries[e] = "pending"
           /\ NotAfter(Trigger[e], reached)
           /\ DependsOn[e] \subseteq Completed(d.deliveries)
<1> SUFFICES ASSUME NEW e \in Fresh(status, reached, terminal)
    PROVE  /\ e \in Entries /\ d.deliveries[e] = "pending"
           /\ NotAfter(Trigger[e], reached)
           /\ DependsOn[e] \subseteq Completed(d.deliveries)
  OBVIOUS
<1>1. /\ e \in Entries /\ NotAfter(Trigger[e], reached)
      /\ DependsOn[e] \subseteq Completed(status)
  BY FreshFacts
<1>2. d.deliveries[e] = "pending"
  BY <1>1 DEF Delivered
<1>3. Completed(status) \subseteq Completed(d.deliveries)
  BY DEF Completed
<1> QED
  BY <1>1, <1>2, <1>3

\* What a handler sees when it may write: the database, and its own deliveries.
LEMMA ViewFacts ==
  ASSUME TypeOK, LockInv, AskedInv, DraftInv, OneResponse, DependenciesFirst, NothingEarly,
         NEW h \in Handlers, writer \in {NoHandler, h},
         writer = h => phase[h] \in {"gate", "play"}
  PROVE  /\ View(h) \in Databases
         /\ View(h).run = db.run /\ View(h).turns = db.turns /\ View(h).responses = db.responses
         /\ Completed(db.deliveries) \subseteq Completed(View(h).deliveries)
         /\ Delivered(db.deliveries) \subseteq Delivered(View(h).deliveries)
         /\ ResponsesOK(View(h)) /\ DependenciesOK(View(h)) /\ TimelyOK(View(h).deliveries, db.run)
<1> USE HandlerAssumption
<1>1. CASE writer = NoHandler
  <2>1. View(h) = db
    BY <1>1 DEF View
  <2>2. ResponsesOK(db)
    BY DEF OneResponse, ResponsesOK
  <2>3. DependenciesOK(db)
    BY DEF DependenciesFirst, DependenciesOK
  <2>4. TimelyOK(db.deliveries, db.run)
    BY DEF NothingEarly, TimelyOK
  <2> QED
    BY <2>1, <2>2, <2>3, <2>4, ViewTypes
<1>2. CASE writer = h
  <2>1. View(h) = draft /\ DraftOK(h)
    BY <1>2 DEF View, DraftInv
  <2>2. request[h].kind = "turn"
    BY <1>2, RequestKinds DEF AskedInv
  <2>3. ~Played(h) /\ ~IsContent(h) /\ FinalRun(h) = db.run
    BY <1>2, <2>2 DEF Played, IsContent, FinalRun
  <2> QED
    BY <2>1, <2>3, ViewTypes DEF DraftOK
<1> QED
  BY <1>1, <1>2

\* The rows a handler is going to commit stay the same while it goes on.
LEMMA FinalKeeps ==
  ASSUME NEW h \in Handlers, db' = db, request'[h] = request[h], loaded'[h] = loaded[h]
  PROVE  /\ TurnOf(h)' = TurnOf(h)
         /\ (Played(h)' <=> Played(h)) => FinalRun(h)' = FinalRun(h)
         /\ Played(h)' => FinalRun(h)' = RunAfterTurn(db.run, h)
         /\ (IsContent(h)' <=> IsContent(h))
<1>1. TurnOf(h)' = TurnOf(h)
  BY DEF TurnOf, Week
<1>2. RunAfterTurn(db.run, h)' = RunAfterTurn(db.run, h)
  BY <1>1 DEF RunAfterTurn
<1>3. RunAfterSubmission(db.run, h)' = RunAfterSubmission(db.run, h)
  BY DEF RunAfterSubmission
<1> QED
  BY <1>1, <1>2, <1>3 DEF FinalRun, IsContent

\* Deliveries before the gate of a turn.
LEMMA OpenDraft ==
  ASSUME TypeOK, LockInv, AskedInv, StartedInv, LoadedInv, DraftInv, SeenInv,
         OneResponse, DependenciesFirst, NothingEarly,
         NEW h \in Handlers, OpenDeliveries(h), writer # h, writer' = h
  PROVE  DraftOK(h)'
<1> USE HandlerAssumption
<1> DEFINE fresh == Fresh(seen[h], BeforeWeek(Week(h)), FALSE)
<1>0. phase \in [Handlers -> Phases] /\ db \in Databases /\ db.deliveries \in Statuses /\ seen[h] \in Statuses
      /\ db.run \in RunRows /\ loaded[h] \in RunRows
  BY DatabaseFields DEF TypeOK
<1>1. /\ fresh # {} /\ fresh \cap Delivered(db.deliveries) = {}
      /\ Write(h, [db EXCEPT !.deliveries = Deliver(@, fresh)])
      /\ phase'[h] = "before_week" /\ request' = request /\ loaded' = loaded
  BY <1>0 DEF OpenDeliveries, Proceed, session
<1>2. /\ db' = db /\ draft' = [db EXCEPT !.deliveries = Deliver(@, fresh)] /\ writer = NoHandler
  BY <1>1 DEF Write
<1>3. View(h) = db
  BY DEF View
<1>4. /\ ResponsesOK(db) /\ DependenciesOK(db) /\ TimelyOK(db.deliveries, db.run)
  BY <1>2, <1>3, ViewFacts
<1>5. \A e \in fresh :
        /\ e \in Entries /\ db.deliveries[e] = "pending"
        /\ NotAfter(Trigger[e], BeforeWeek(Week(h)))
        /\ DependsOn[e] \subseteq Completed(db.deliveries)
  <2>1. Completed(seen[h]) \subseteq Completed(db.deliveries)
    BY DEF SeenInv
  <2> QED
    BY <1>0, <1>1, <2>1, FreshInDatabase
<1> HIDE DEF fresh
<1>6. /\ draft'.run = db.run /\ draft'.turns = db.turns /\ draft'.responses = db.responses
      /\ Delivered(draft'.deliveries) = Delivered(db.deliveries) \cup fresh
      /\ Completed(db.deliveries) \subseteq Completed(draft'.deliveries)
      /\ ResponsesOK(draft') /\ DependenciesOK(draft')
  <2>1. fresh \in SUBSET Entries
    BY <1>5
  <2>2. /\ draft'.run = db.run /\ draft'.turns = db.turns /\ draft'.responses = db.responses
        /\ draft'.deliveries = Deliver(db.deliveries, fresh)
    BY <1>0, <1>2 DEF Databases
  <2> QED
    BY <1>0, <1>4, <1>5, <2>1, <2>2, RoundKeeps
<1>7. request[h].kind = "turn"
  BY RequestKinds DEF OpenDeliveries, AskedInv
<1>8. ~Played(h)' /\ ~IsContent(h)' /\ FinalRun(h)' = db.run
  BY <1>1, <1>2, <1>7 DEF Played, IsContent, FinalRun
<1>9. TimelyOK(draft'.deliveries, db.run)
  <2> SUFFICES ASSUME NEW e \in fresh
      PROVE  NotAfter(Trigger[e], BeforeWeek(db.run.week + 1))
    BY <1>4, <1>6 DEF TimelyOK
  <2>1. /\ Week(h) \in Nat /\ db.run.week + 1 \in Nat /\ Week(h) <= db.run.week + 1
    BY <1>0, RunFields DEF Week, LoadedInv, LoadedOK
  <2> QED
    BY <1>5, <2>1, NotAfterOrder
<1>10. (DraftOK(h)') =
         (/\ draft'.run = IF Played(h)' THEN db'.run ELSE FinalRun(h)'
          /\ draft'.turns = IF Played(h)' THEN db'.turns \cup {TurnOf(h)'} ELSE db'.turns
          /\ draft'.responses = IF IsContent(h)' THEN db'.responses \cup {request'[h]} ELSE db'.responses
          /\ Completed(db'.deliveries) \subseteq Completed(draft'.deliveries)
          /\ Delivered(db'.deliveries) \subseteq Delivered(draft'.deliveries)
          /\ ResponsesOK(draft') /\ DependenciesOK(draft')
          /\ TimelyOK(draft'.deliveries, FinalRun(h)'))
  BY DEF DraftOK
<1> QED
  BY <1>2, <1>6, <1>8, <1>9, <1>10

\* What must be shown of the draft after a step that commits nothing.
LEMMA NextDraft ==
  ASSUME NEW h \in Handlers, db' = db,
         draft'.run = IF Played(h)' THEN db.run ELSE FinalRun(h)',
         draft'.turns = IF Played(h)' THEN db.turns \cup {TurnOf(h)'} ELSE db.turns,
         draft'.responses = IF IsContent(h)' THEN db.responses \cup {request'[h]} ELSE db.responses,
         Completed(db.deliveries) \subseteq Completed(draft'.deliveries),
         Delivered(db.deliveries) \subseteq Delivered(draft'.deliveries),
         ResponsesOK(draft'), DependenciesOK(draft'), TimelyOK(draft'.deliveries, FinalRun(h)')
  PROVE  DraftOK(h)'
<1>1. (DraftOK(h)') =
        (/\ draft'.run = IF Played(h)' THEN db'.run ELSE FinalRun(h)'
         /\ draft'.turns = IF Played(h)' THEN db'.turns \cup {TurnOf(h)'} ELSE db'.turns
         /\ draft'.responses = IF IsContent(h)' THEN db'.responses \cup {request'[h]} ELSE db'.responses
         /\ Completed(db'.deliveries) \subseteq Completed(draft'.deliveries)
         /\ Delivered(db'.deliveries) \subseteq Delivered(draft'.deliveries)
         /\ ResponsesOK(draft') /\ DependenciesOK(draft')
         /\ TimelyOK(draft'.deliveries, FinalRun(h)'))
  BY DEF DraftOK
<1> QED
  BY <1>1

\* A draft that stays as it is.
LEMMA SameDraft ==
  ASSUME NEW h \in Handlers, db' = db, draft' = draft, request'[h] = request[h],
         loaded'[h] = loaded[h], Played(h)' <=> Played(h), DraftOK(h)
  PROVE  DraftOK(h)'
<1>1. /\ TurnOf(h)' = TurnOf(h) /\ FinalRun(h)' = FinalRun(h) /\ (IsContent(h)' <=> IsContent(h))
  BY FinalKeeps
<1>2. draft'.run = IF Played(h)' THEN db.run ELSE FinalRun(h)'
  BY <1>1 DEF DraftOK
<1>3. draft'.turns = IF Played(h)' THEN db.turns \cup {TurnOf(h)'} ELSE db.turns
  BY <1>1 DEF DraftOK
<1>4. draft'.responses = IF IsContent(h)' THEN db.responses \cup {request'[h]} ELSE db.responses
  BY <1>1 DEF DraftOK
<1>5. /\ Completed(db.deliveries) \subseteq Completed(draft'.deliveries)
      /\ Delivered(db.deliveries) \subseteq Delivered(draft'.deliveries)
      /\ ResponsesOK(draft') /\ DependenciesOK(draft') /\ TimelyOK(draft'.deliveries, FinalRun(h)')
  BY <1>1 DEF DraftOK
<1> QED
  BY <1>2, <1>3, <1>4, <1>5, NextDraft

\* The draft of a new run.
LEMMA StartDraft ==
  ASSUME TypeOK, StartedInv, NEW h \in Handlers, Start(h)
  PROVE  DraftOK(h)'
<1>0. request \in [Handlers -> Requests \cup {NoRequest, StartRequest}]
  BY DEF TypeOK
<1>1. /\ db = EmptyDatabase /\ db' = db /\ draft' = [db EXCEPT !.run = NewRun]
      /\ request'[h].kind = "start"
  BY <1>0, RequestKinds DEF Start, Write, StartedInv
<1>2. ~Played(h)' /\ ~IsContent(h)' /\ FinalRun(h)' = NewRun
  BY <1>1 DEF Played, IsTurn, IsContent, FinalRun
<1>3. /\ draft'.run = NewRun /\ draft'.turns = db.turns /\ draft'.responses = {} /\ db.responses = {}
      /\ draft'.deliveries = Undelivered /\ db.deliveries = Undelivered
  BY <1>1 DEF EmptyDatabase
<1>4. Delivered(Undelivered) = {} /\ \A e \in Entries : Undelivered[e] # "completed"
  BY DEF Delivered, Undelivered
<1>5. ResponsesOK(draft')
  BY <1>3, <1>4 DEF ResponsesOK
<1>6. DependenciesOK(draft') /\ TimelyOK(draft'.deliveries, FinalRun(h)')
  BY <1>3, <1>4 DEF DependenciesOK, TimelyOK
<1> QED
  BY <1>1, <1>2, <1>3, <1>5, <1>6, NextDraft

\* Content delivered within the transaction.
LEMMA RoundDraft ==
  ASSUME TypeOK, LockInv, AskedInv, StartedInv, LoadedInv, DraftInv, PlayedInv, ActiveInv, TurnChain,
         SeenInv, RespondedInv, NEW h \in Handlers, Round(h)
  PROVE  DraftOK(h)'
<1> DEFINE fresh == FreshFor(h)
           status == SessionStatuses(h)
<1>0. /\ phase \in [Handlers -> Phases] /\ db \in Databases /\ draft \in Databases
      /\ draft.deliveries \in Statuses /\ seen[h] \in Statuses /\ status \in Statuses
  BY DatabaseFields, ViewTypes DEF TypeOK
<1>a. \A to : Proceed(h, to) => phase'[h] = to
  BY <1>0 DEF Proceed
<1>1. /\ phase[h] \in Resolving /\ writer = h /\ request' = request /\ loaded' = loaded /\ db' = db
      /\ DraftOK(h) /\ View(h) = draft
  BY DEF Round, Write, DraftInv, View
<1>2. CASE fresh # {} /\ Write(h, [draft EXCEPT !.deliveries = Deliver(@, fresh)]) /\ UNCHANGED <<phase, seen>>
  <2>1. /\ Completed(seen[h]) \subseteq Completed(draft.deliveries)
        /\ \A e \in Entries : status[e] # "pending" => seen[h][e] = status[e] \/ draft.deliveries[e] = status[e]
        /\ \A e \in Entries : status[e] = "pending" => draft.deliveries[e] = "pending"
    BY <1>1 DEF SeenInv, DraftOK, SessionStatuses
  <2>2. fresh \cap Delivered(draft.deliveries) = {}
    BY <2>1, FreshFacts DEF FreshFor, Delivered
  <2>3. \A e \in fresh :
          /\ e \in Entries /\ draft.deliveries[e] = "pending"
          /\ NotAfter(Trigger[e], Reached(h))
          /\ DependsOn[e] \subseteq Completed(draft.deliveries)
    <3> HIDE DEF status
    <3>1. fresh = Fresh(status, Reached(h), phase[h] = "run_finished")
      BY DEF FreshFor, status
    <3> HIDE DEF fresh
    <3> QED
      BY <1>0, <2>1, <2>2, <3>1, FreshInDatabase
  <2>4. Played(h)' <=> Played(h)
    BY <1>1, <1>2 DEF Played, IsTurn
  <2>5. /\ TurnOf(h)' = TurnOf(h) /\ FinalRun(h)' = FinalRun(h) /\ (IsContent(h)' <=> IsContent(h))
    BY <1>1, <2>4, FinalKeeps
  <2>6. \A e \in fresh :
          NotAfter(Trigger[e], BeforeWeek(FinalRun(h).week + 1)) \/ FinalRun(h).status # "active"
    BY <1>1, <2>3, RoundTimely
  <2> HIDE DEF fresh
  <2>7. fresh \in SUBSET Entries
    BY <2>3
  <2>8. /\ draft'.run = draft.run /\ draft'.turns = draft.turns /\ draft'.responses = draft.responses
        /\ draft'.deliveries = Deliver(draft.deliveries, fresh)
    BY <1>0, <1>2 DEF Write, Databases
  <2>9. /\ Delivered(draft'.deliveries) = Delivered(draft.deliveries) \cup fresh
        /\ Completed(draft.deliveries) \subseteq Completed(draft'.deliveries)
        /\ ResponsesOK(draft') /\ DependenciesOK(draft')
    BY <1>0, <1>1, <2>3, <2>7, <2>8, RoundKeeps DEF DraftOK
  <2>10. TimelyOK(draft'.deliveries, FinalRun(h)')
    BY <1>1, <2>5, <2>6, <2>9 DEF DraftOK, TimelyOK
  <2>11. /\ Completed(db.deliveries) \subseteq Completed(draft'.deliveries)
         /\ Delivered(db.deliveries) \subseteq Delivered(draft'.deliveries)
    BY <1>1, <2>9 DEF DraftOK
  <2>12. /\ draft'.run = IF Played(h)' THEN db.run ELSE FinalRun(h)'
         /\ draft'.turns = IF Played(h)' THEN db.turns \cup {TurnOf(h)'} ELSE db.turns
         /\ draft'.responses = IF IsContent(h)' THEN db.responses \cup {request'[h]} ELSE db.responses
    BY <1>1, <2>4, <2>5, <2>8 DEF DraftOK
  <2> QED
    BY <1>1, <2>9, <2>10, <2>11, <2>12, NextDraft
<1>3. CASE Proceed(h, AfterResolving(h)) /\ UNCHANGED <<db, writer, draft>>
  <2>1. phase'[h] = AfterResolving(h)
    BY <1>3, <1>a
  <2>2. IsTurn(h)' <=> IsTurn(h)
    BY <1>1 DEF IsTurn
  <2>3. CASE phase[h] = "before_week"
    BY <2>1, <2>3, <1>1, <1>3, SameDraft DEF AfterResolving, Played
  <2>4. CASE phase[h] \in {"run_started", "responded"}
    <3>1. ~IsTurn(h)
      BY <2>4, RequestKinds DEF AskedInv, IsTurn
    <3> QED
      BY <2>2, <3>1, <1>1, <1>3, SameDraft DEF Played
  <2>5. CASE phase[h] \in {"after_week", "run_finished"}
    <3>1. phase'[h] \in {"run_finished", "commit"}
      BY <2>1, <2>5 DEF AfterResolving
    <3> QED
      BY <2>2, <2>5, <3>1, <1>1, <1>3, SameDraft DEF Played
  <2> QED
    BY <1>1, <2>3, <2>4, <2>5 DEF Resolving
<1> QED
  BY <1>2, <1>3 DEF Round

\* A turn is inserted.
LEMMA PlayDraft ==
  ASSUME TypeOK, LockInv, AskedInv, StartedInv, LoadedInv, DraftInv, PlayedInv, ActiveInv, TurnChain,
         OneResponse, DependenciesFirst, NothingEarly,
         NEW h \in Handlers, Play(h), writer' = h, phase'[h] = "after_week"
  PROVE  DraftOK(h)'
<1> USE HandlerAssumption
<1> DEFINE view == View(h)
           turn == TurnOf(h)
           final == RunAfterTurn(db.run, h)
<1>0. phase \in [Handlers -> Phases] /\ db \in Databases /\ db.run \in RunRows /\ db.run.week \in Nat
  BY DatabaseFields, RunFields DEF TypeOK
<1>1. /\ phase[h] = "play" /\ writer \in {NoHandler, h}
      /\ Write(h, [view EXCEPT !.turns = @ \cup {turn}])
      /\ request' = request /\ loaded' = loaded
  BY <1>0 DEF Play, Answer, session
<1>2. /\ view \in Databases
      /\ view.run = db.run /\ view.turns = db.turns /\ view.responses = db.responses
      /\ Completed(db.deliveries) \subseteq Completed(view.deliveries)
      /\ Delivered(db.deliveries) \subseteq Delivered(view.deliveries)
      /\ ResponsesOK(view) /\ DependenciesOK(view) /\ TimelyOK(view.deliveries, db.run)
  BY <1>1, ViewFacts
<1>3. request[h] \in Turns /\ request[h].kind = "turn"
  BY <1>1, RequestKinds DEF AskedInv
<1>4. Played(h)' /\ ~IsContent(h)'
  BY <1>1, <1>3 DEF Played, IsTurn, IsContent
<1>5. db' = db /\ draft' = [view EXCEPT !.turns = @ \cup {turn}]
  BY <1>1 DEF Write
<1>6. FinalRun(h)' = final /\ TurnOf(h)' = turn
  BY <1>1, <1>4, <1>5, FinalKeeps
<1>7. loaded[h].week = db.run.week
  <2>1. PlayedInv'
    BY PlayedStep DEF Step, Handle
  <2>2. loaded'[h].week = db'.run.week
    BY <2>1, <1>4 DEF PlayedInv
  <2> QED
    BY <2>2, <1>1, <1>5
<1>8. final.week = db.run.week + 1 /\ (final.status = "active" => db.run.status = "active")
  <2>1. turn.week = db.run.week + 1
    BY <1>3, <1>7, TurnTypes
  <2> HIDE DEF turn
  <2>2. final.week = turn.week
    BY <1>0 DEF RunAfterTurn, RunRows, turn
  <2>3. final.status = IF Outcome(turn.play) = "active" THEN db.run.status ELSE Outcome(turn.play)
    BY <1>0 DEF RunAfterTurn, RunRows, turn
  <2> QED
    BY <2>1, <2>2, <2>3
<1> HIDE DEF view, turn, final
<1>9. /\ draft'.run = db.run /\ draft'.turns = db.turns \cup {turn}
      /\ draft'.deliveries = view.deliveries /\ draft'.responses = view.responses
  BY <1>2, <1>5 DEF Databases
<1>10. TimelyOK(view.deliveries, final)
  <2> SUFFICES ASSUME NEW e \in Delivered(view.deliveries), final.status = "active"
      PROVE  NotAfter(Trigger[e], BeforeWeek(final.week + 1))
    BY DEF TimelyOK
  <2>1. NotAfter(Trigger[e], BeforeWeek(db.run.week + 1)) /\ e \in Entries
    BY <1>2, <1>8 DEF TimelyOK, Delivered
  <2>2. db.run.week + 1 \in Nat /\ final.week + 1 \in Nat /\ db.run.week + 1 <= final.week + 1
    BY <1>0, <1>8
  <2> QED
    BY <2>1, <2>2, NotAfterOrder
<1>11. ResponsesOK(draft') /\ DependenciesOK(draft')
  BY <1>2, <1>9 DEF ResponsesOK, DependenciesOK
<1> QED
  BY <1>2, <1>4, <1>5, <1>6, <1>9, <1>10, <1>11, NextDraft

\* An entry that waited for the student is completed by its response.
LEMMA RespondDraft ==
  ASSUME TypeOK, LockInv, AskedInv, StartedInv, DraftInv, RespondInv,
         OneResponse, DependenciesFirst, NothingEarly,
         NEW h \in Handlers, Respond(h), writer' = h
  PROVE  DraftOK(h)'
<1> USE HandlerAssumption
<1> DEFINE c == request[h]
           n == c.entry
<1>0. /\ phase \in [Handlers -> Phases] /\ db \in Databases /\ db.deliveries \in Statuses
      /\ db.responses \subseteq ResponseRows
  BY DatabaseFields DEF TypeOK
<1>1. /\ phase[h] = "respond" /\ writer = NoHandler /\ ~ResponseTaken(db, c)
      /\ db' = db /\ draft' = [db EXCEPT !.responses = @ \cup {c}, !.deliveries[n] = "completed"]
      /\ phase'[h] = "responded" /\ request' = request /\ loaded' = loaded
  BY <1>0 DEF Respond, Write, Proceed, session
<1>2. c \in ContentCommands /\ n \in Entries /\ c.kind \in {"answer", "acknowledge"}
  BY <1>1, RequestKinds DEF AskedInv
<1>3. n \in Delivered(db.deliveries) /\ ~Automatic(n)
  BY <1>1 DEF RespondInv
<1>4. ~Played(h)' /\ IsContent(h)' /\ FinalRun(h)' = db.run
  BY <1>1, <1>2 DEF Played, IsTurn, IsContent, FinalRun
<1>5. ResponsesOK(db) /\ DependenciesOK(db) /\ TimelyOK(db.deliveries, db.run)
  BY DEF OneResponse, ResponsesOK, DependenciesFirst, DependenciesOK, NothingEarly, TimelyOK
<1>6. \A r \in db.responses : r.entry # n
  BY <1>1 DEF ResponseTaken
<1> HIDE DEF c, n
<1>7. /\ draft'.run = db.run /\ draft'.turns = db.turns /\ draft'.responses = db.responses \cup {c}
      /\ draft'.deliveries = [db.deliveries EXCEPT ![n] = "completed"]
  BY <1>0, <1>1 DEF Databases
<1>8. /\ Delivered(draft'.deliveries) = Delivered(db.deliveries)
      /\ Completed(draft'.deliveries) = Completed(db.deliveries) \cup {n}
  BY <1>0, <1>2, <1>3, <1>7 DEF Delivered, Completed, Statuses
<1>9. DependenciesOK(draft') /\ TimelyOK(draft'.deliveries, db.run)
  BY <1>5, <1>8 DEF DependenciesOK, TimelyOK
<1>10. ResponsesOK(draft')
  <2> DEFINE of(x, e) == {r \in x.responses : r.entry = e}
  <2>1. ASSUME NEW e \in Entries
        PROVE  /\ \A r, f \in of(draft', e) : r = f
               /\ ~Automatic(e) => (draft'.deliveries[e] = "completed" <=> of(draft', e) # {})
               /\ Automatic(e) => of(draft', e) = {}
    <3>1. /\ \A r, f \in of(db, e) : r = f
          /\ ~Automatic(e) => (db.deliveries[e] = "completed" <=> of(db, e) # {})
          /\ Automatic(e) => of(db, e) = {}
      BY <1>5 DEF ResponsesOK
    <3>2. CASE e = n
      <4>1. of(draft', e) = {c}
        BY <1>6, <1>7, <3>2 DEF n
      <4>2. draft'.deliveries[e] = "completed"
        BY <1>0, <1>7, <3>2 DEF Statuses
      <4> HIDE DEF of
      <4> QED
        BY <1>3, <3>2, <4>1, <4>2
    <3>3. CASE e # n
      <4>1. of(draft', e) = of(db, e)
        BY <1>7, <3>3 DEF n
      <4>2. draft'.deliveries[e] = db.deliveries[e]
        BY <1>0, <1>7, <3>3 DEF Statuses
      <4> HIDE DEF of
      <4> QED
        BY <3>1, <4>1, <4>2
    <3> QED
      BY <3>2, <3>3
  <2> QED
    BY <2>1 DEF ResponsesOK
<1>11. draft'.responses = IF IsContent(h)' THEN db.responses \cup {request'[h]} ELSE db.responses
  BY <1>1, <1>4, <1>7 DEF c
<1> QED
  BY <1>1, <1>4, <1>7, <1>8, <1>9, <1>10, <1>11, NextDraft

\* A submission ends the run before anything else.
LEMMA SubmitDraft ==
  ASSUME TypeOK, LockInv, AskedInv, OneResponse, DependenciesFirst, NothingEarly,
         NEW h \in Handlers, Submit(h)
  PROVE  DraftOK(h)'
<1> DEFINE final == RunAfterSubmission(db.run, h)
<1>1. /\ phase[h] = "submit" /\ db' = db /\ draft' = [db EXCEPT !.run = RunAfterSubmission(@, h)]
      /\ request' = request /\ loaded' = loaded
  BY DEF Submit, Write, session
<1>2. request[h].kind = "submit" /\ request[h].expected \in Nat
  BY <1>1, RequestKinds DEF AskedInv
<1>3. ~Played(h)' /\ ~IsContent(h)'
  BY <1>1, <1>2 DEF Played, IsTurn, IsContent
<1>4. (RunAfterSubmission(db.run, h))' = final
  BY <1>1 DEF RunAfterSubmission
<1>5. FinalRun(h)' = final
  BY <1>1, <1>2, <1>3, <1>4 DEF FinalRun
<1>6. final.status = "submitted"
  BY <1>2, SubmissionTypes
<1> HIDE DEF final
<1>7. /\ draft'.run = final /\ draft'.turns = db.turns
      /\ draft'.deliveries = db.deliveries /\ draft'.responses = db.responses
  BY <1>1 DEF TypeOK, Databases, final
<1>8. ResponsesOK(draft') /\ DependenciesOK(draft')
  BY <1>7 DEF OneResponse, ResponsesOK, DependenciesFirst, DependenciesOK
<1>9. TimelyOK(draft'.deliveries, final)
  BY <1>6 DEF TimelyOK
<1> QED
  BY <1>1, <1>3, <1>5, <1>7, <1>8, <1>9, NextDraft

\* Every step leaves the open transaction right.
LEMMA DraftStep ==
  ASSUME TypeOK, LockInv, AskedInv, StartedInv, LoadedInv, DraftInv, PlayedInv, ActiveInv, TurnChain,
         SeenInv, RespondInv, RespondedInv, OneResponse, DependenciesFirst, NothingEarly,
         NEW h \in Handlers, Step(h)
  PROVE  DraftInv'
<1> USE HandlerAssumption
<1>1. ASSUME NEW g \in Handlers, g # h, writer' = g
      PROVE  DraftOK(g)'
  <2>1. /\ writer = g /\ db' = db /\ draft' = draft /\ loaded'[g] = loaded[g] /\ phase'[g] = phase[g]
        /\ request'[g] = request[g]
    BY <1>1, OthersFrame
  <2>2. DraftOK(g) /\ (Played(g)' <=> Played(g))
    BY <2>1 DEF DraftInv, Played, IsTurn
  <2> QED
    BY <2>1, <2>2, SameDraft
<1>2. ASSUME writer' = h
      PROVE  DraftOK(h)'
  <2>1. CASE Gate(h) /\ phase'[h] = "play" /\ UNCHANGED <<db, writer, draft, session>>
    <3>1. /\ phase[h] = "gate" /\ request' = request /\ db' = db /\ draft' = draft /\ loaded' = loaded
          /\ writer = h
      BY <1>2, <2>1 DEF Gate, session
    <3>2. ~Played(h) /\ ~Played(h)' /\ DraftOK(h)
      BY <2>1, <3>1 DEF Played, DraftInv
    <3> QED
      BY <3>1, <3>2, SameDraft
  <2> QED
    BY <1>2, <2>1, HoldingSteps, StartDraft, OpenDraft, RoundDraft, PlayDraft, RespondDraft, SubmitDraft
<1> QED
  BY <1>1, <1>2 DEF DraftInv

-----------------------------------------------------------------------------
(***************************************************************************)
(* What is committed.                                                      *)
(***************************************************************************)
\* A commit is of a draft that is right.
LEMMA ContentStep ==
  ASSUME TypeOK, LockInv, AskedInv, StartedInv, LoadedInv, DraftInv, PlayedInv, ActiveInv, TurnChain,
         OneResponse, DependenciesFirst, NothingEarly, NEW h \in Handlers, Step(h)
  PROVE  OneResponse' /\ DependenciesFirst' /\ NothingEarly'
<1>1. CASE db' = db
  BY <1>1 DEF OneResponse, DependenciesFirst, NothingEarly
<1>2. CASE Commits(h)
  <2>1. writer = h /\ phase[h] \in Resolving \cup {"gate", "play", "commit"} /\ DraftOK(h)
    BY <1>2 DEF Commits, DraftInv
  <2>2. /\ db'.run = CommittedRun(h)
        /\ db'.deliveries = draft.deliveries /\ db'.responses = draft.responses
    BY <1>2, CommitTypes
  <2>3. OneResponse'
    <3>1. ResponsesOK(draft)
      BY <2>1 DEF DraftOK
    <3> QED
      BY <2>2, <3>1 DEF ResponsesOK, OneResponse
  <2>4. DependenciesFirst'
    <3>1. DependenciesOK(draft)
      BY <2>1 DEF DraftOK
    <3> QED
      BY <2>2, <3>1 DEF DependenciesOK, DependenciesFirst
  <2>5. NothingEarly'
    <3>1. TimelyOK(draft.deliveries, FinalRun(h))
      BY <2>1 DEF DraftOK
    <3>2. db'.run.week = FinalRun(h).week /\ db'.run.status = FinalRun(h).status
      BY <2>1, <2>2, CommittedRow
    <3> QED
      BY <2>2, <3>1, <3>2 DEF TimelyOK, NothingEarly
  <2> QED
    BY <2>3, <2>4, <2>5
<1> QED
  BY <1>1, <1>2, CommitShape

\* A turn is acknowledged when its row was found, or is being committed.
LEMMA RepliesStep ==
  ASSUME TypeOK, LockInv, AskedInv, StartedInv, LoadedInv, DraftInv, PlayedInv, ActiveInv, TurnChain,
         RepliesAreStored, NEW h \in Handlers, Step(h)
  PROVE  RepliesAreStored'
<1> USE HandlerAssumption
<1>0. /\ phase \in [Handlers -> Phases] /\ reply \in [Handlers -> Replies]
      /\ request \in [Handlers -> Requests \cup {NoRequest, StartRequest}]
  BY DEF TypeOK
<1>a. \A to : Proceed(h, to) => phase'[h] = to
  BY <1>0 DEF Proceed
<1>b. \A o, t : Answer(h, o, t) => reply'[h].outcome = o /\ reply'[h].turn = t
  BY <1>0 DEF Answer
<1>1. db.turns \subseteq db'.turns
  BY Growth DEF Grows
<1>2. ASSUME NEW g \in Handlers, g # h, phase'[g] = "done" /\ request'[g].kind = "turn" /\ reply'[g].outcome = "ok"
      PROVE  reply'[g].turn \in db'.turns /\ reply'[g].turn.request = request'[g]
  BY <1>1, <1>2, OthersFrame DEF RepliesAreStored
<1>3. ASSUME phase'[h] = "done" /\ request'[h].kind = "turn" /\ reply'[h].outcome = "ok"
      PROVE  reply'[h].turn \in db'.turns /\ reply'[h].turn.request = request'[h]
  <2>1. CASE Start(h) \/ Send(h) \/ Receive(h) \/ Retry(h) \/ ReadDeliveries(h)
    BY <1>3, <2>1, <1>a DEF Start, Send, Receive, Retry, ReadDeliveries
  <2>2. CASE Lookup(h)
    <3>1. PICK row \in Stored(h) : row.request = request[h] /\ Answer(h, "ok", row) /\ request' = request
      BY <1>3, <2>2, <1>a, <1>b DEF Lookup
    <3>2. row \in db.turns
      BY <1>3, <3>1 DEF Stored
    <3> QED
      BY <1>1, <1>b, <3>1, <3>2
  <2>3. CASE Load(h)
    <3>1. request' = request
      BY <2>3 DEF Load
    <3> QED
      BY <1>3, <2>3, <3>1, <1>a, <1>b DEF Load
  <2>4. CASE OpenDeliveries(h) \/ Gate(h) \/ Play(h)
    <3>1. CASE OpenDeliveries(h)
      <4>1. phase'[h] \in {"gate", "before_week"} \/ reply'[h].outcome = "integrity_error"
        BY <3>1, <1>a, <1>b DEF OpenDeliveries
      <4> QED
        BY <1>3, <4>1
    <3>2. CASE Gate(h)
      BY <1>3, <3>2, <1>a, <1>b DEF Gate
    <3>3. CASE Play(h)
      BY <1>3, <3>3, <1>a, <1>b DEF Play
    <3> QED
      BY <2>4, <3>1, <3>2, <3>3
  <2>9. CASE Round(h)
    <3>1. phase[h] # "done" /\ AfterResolving(h) # "done"
      BY <2>9 DEF Round, Resolving, AfterResolving
    <3>2. phase' = phase \/ phase'[h] = AfterResolving(h)
      BY <2>9, <1>a DEF Round
    <3> QED
      BY <1>3, <3>1, <3>2
  <2>5. CASE CommitTurn(h)
    <3>1. /\ phase[h] = "commit" /\ request[h].kind = "turn" /\ request' = request
          /\ Answer(h, "ok", TurnOf(h)) /\ Commit(h, [draft EXCEPT !.run = RunAfterTurn(@, h)])
      BY <2>5 DEF CommitTurn
    <3>2. Played(h) /\ writer = h /\ writer' = NoHandler
      BY <3>1 DEF Played, IsTurn, Commit
    <3>3. Commits(h)
      <4>1. ~IsContent(h)
        BY <3>1 DEF IsContent
      <4>2. RunAfterTurn(draft.run, h) = CommittedRun(h)
        BY <3>2, <4>1 DEF DraftInv, DraftOK, CommittedRun, FinalRun
      <4>3. db' = [draft EXCEPT !.run = RunAfterTurn(draft.run, h)]
        BY <3>1 DEF Commit, TypeOK, Databases
      <4> QED
        BY <3>1, <3>2, <4>2, <4>3 DEF Commits
    <3>4. TurnOf(h) \in db'.turns
      BY <3>2, <3>3, CommitHistory
    <3>5. TurnOf(h).request = request[h]
      BY DEF TurnOf
    <3> QED
      BY <1>b, <3>1, <3>4, <3>5
  <2>6. CASE ReadDelivery(h) \/ Respond(h) \/ CommitResponse(h)
    <3>1. request' = request /\ (CommitResponse(h) => request[h] \in ContentCommands)
      BY <2>6 DEF ReadDelivery, Respond, CommitResponse
    <3> QED
      BY <1>3, <2>6, <3>1, <1>a, <1>b, RequestKinds DEF ReadDelivery, Respond
  <2>7. CASE Submit(h) \/ CommitRun(h)
    BY <1>3, <2>7, <1>a DEF Submit, CommitRun
  <2>8. CASE GiveUp(h) \/ Fail(h)
    BY <1>3, <2>8, <1>b DEF GiveUp, Fail
  <2> QED
    BY <2>1, <2>2, <2>3, <2>4, <2>5, <2>6, <2>7, <2>8, <2>9 DEF Step, Handle
<1> QED
  BY <1>2, <1>3 DEF RepliesAreStored

-----------------------------------------------------------------------------
(***************************************************************************)
(* The theorems.                                                           *)
(***************************************************************************)
\* The invariant holds before the run is started.
LEMMA InitInv == Init => Inv
<1> SUFFICES ASSUME Init PROVE Inv
  OBVIOUS
<1> USE HandlerAssumption, DeadlineAssumption, FailureAssumption, ScriptAssumption DEF ValidScript
<1>1. /\ db = EmptyDatabase /\ draft = EmptyDatabase /\ writer = NoHandler /\ failures = 0
      /\ \A h \in Handlers : /\ phase[h] = "idle" /\ request[h] = NoRequest /\ loaded[h] = NoRun
                             /\ seen[h] = Undelivered /\ reply[h] = NoReply
  BY DEF Init
<1>2. /\ db.run = NoRun /\ db.turns = {} /\ db.deliveries = Undelivered /\ db.responses = {}
      /\ db.run.week = 0 /\ db.run.play = <<>> /\ db.run.status = "absent"
  BY <1>1 DEF EmptyDatabase, NoRun
<1>3. Delivered(Undelivered) = {} /\ Completed(Undelivered) = {} /\ \A e \in Entries : Undelivered[e] # "completed"
  BY DEF Delivered, Completed, Undelivered
<1>4. TypeOK
  <2>1. NoReply \in Replies
    BY DEF NoReply, Replies, Outcomes
  <2>2. "idle" \in Phases /\ 0 <= Deadline /\ 0 \in 0 .. MaxFailures
    BY DEF Phases
  <2> QED
    BY <1>1, <1>2, <2>1, <2>2, EmptyTypes DEF TypeOK, Init
<1>5. LockInv /\ AskedInv /\ RespondInv /\ RespondedInv /\ DraftInv /\ PlayedInv
  BY <1>1 DEF LockInv, AskedInv, RespondInv, RespondedInv, DraftInv, PlayedInv, Resolving
<1>6. StartedInv
  BY <1>1, <1>2, RequestKinds DEF StartedInv, Requests
<1>7. LoadedInv
  <2>1. SubSeq(<<>>, 1, 0) = <<>> /\ Len(<<>>) = 0
    OBVIOUS
  <2> QED
    <3>1. \A h \in Handlers : loaded[h].week = 0 /\ loaded[h].play = <<>> /\ ~IsTurn(h)
      BY <1>1, RequestKinds DEF NoRun, IsTurn
    <3>2. \A h \in Handlers : LoadedOK(loaded[h], db)
      <4> SUFFICES ASSUME NEW h \in Handlers PROVE LoadedOK(loaded[h], db)
        OBVIOUS
      <4>1. loaded[h].play = SubSeq(db.run.play, 1, loaded[h].week)
        BY <1>2, <2>1, <3>1, Zenon
      <4> QED
        BY <1>2, <2>1, <3>1, <4>1 DEF LoadedOK
    <3> QED
      BY <3>1, <3>2 DEF LoadedInv
<1>8. SeenInv
  BY <1>1, <1>2 DEF SeenInv
<1>9. ActiveInv /\ TurnChain
  BY <1>2 DEF ActiveInv, TurnChain
<1>10. OneResponse /\ DependenciesFirst /\ NothingEarly
  BY <1>2, <1>3 DEF OneResponse, DependenciesFirst, NothingEarly
<1>11. RepliesAreStored
  BY <1>1 DEF RepliesAreStored
<1> QED
  BY <1>4, <1>5, <1>6, <1>7, <1>8, <1>9, <1>10, <1>11 DEF Inv

\* Every step of a handler keeps it.
LEMMA InvStep ==
  ASSUME Inv, NEW h \in Handlers, Step(h)
  PROVE  Inv'
<1> USE DEF Inv
<1>1. TypeOK' /\ LockInv' /\ AskedInv'
  BY TypeStep, LockStep, AskedStep
<1>2. StartedInv' /\ LoadedInv' /\ SeenInv'
  BY StartedStep, LoadedStep, SeenStep
<1>3. RespondInv' /\ RespondedInv' /\ PlayedInv' /\ ActiveInv'
  BY RespondStep, PlayedStep, ActiveStep
<1>4. DraftInv'
  BY DraftStep
<1>5. TurnChain' /\ OneResponse' /\ DependenciesFirst' /\ NothingEarly'
  BY ChainStep, ContentStep
<1>6. RepliesAreStored'
  BY RepliesStep
<1> QED
  BY <1>1, <1>2, <1>3, <1>4, <1>5, <1>6

\* A step that changes nothing keeps it.
LEMMA InvStutter ==
  ASSUME Inv, UNCHANGED vars
  PROVE  Inv'
<1> USE DEF Inv, vars, session
<1>1. TypeOK' /\ LockInv' /\ AskedInv' /\ StartedInv'
  BY DEF TypeOK, LockInv, AskedInv, StartedInv
<1>2. LoadedInv' /\ SeenInv' /\ RespondInv' /\ RespondedInv' /\ ActiveInv'
  BY DEF LoadedInv, IsTurn, SeenInv, RespondInv, RespondedInv, IsContent, ActiveInv
<1>3. PlayedInv'
  BY DEF PlayedInv, Played, IsTurn
<1>4. DraftInv'
  <2> SUFFICES ASSUME NEW g \in Handlers, writer' = g
      PROVE  DraftOK(g)'
    BY DEF DraftInv
  <2>1. DraftOK(g) /\ (Played(g)' <=> Played(g))
    BY DEF DraftInv, Played, IsTurn
  <2> QED
    BY <2>1, SameDraft
<1>5. TurnChain' /\ OneResponse' /\ DependenciesFirst' /\ NothingEarly' /\ RepliesAreStored'
  BY DEF TurnChain, OneResponse, DependenciesFirst, NothingEarly, RepliesAreStored
<1> QED
  BY <1>1, <1>2, <1>3, <1>4, <1>5

\* What every state of a run satisfies, whatever requests interleave and
\* whatever work is lost.
THEOREM RunsInvariant == Spec => []Inv
<1>1. Init => Inv
  BY InitInv
<1>2. Inv /\ [Next]_vars => Inv'
  <2> SUFFICES ASSUME Inv, [Next]_vars PROVE Inv'
    OBVIOUS
  <2>1. CASE Next
    <3>1. PICK h \in Handlers : Step(h)
      BY <2>1 DEF Next, Step
    <3> QED
      BY <3>1, InvStep
  <2>2. CASE UNCHANGED vars
    BY <2>2, InvStutter
  <2> QED
    BY <2>1, <2>2
<1> QED
  BY <1>1, <1>2, PTL DEF Spec

\* The tables, sessions and replies have their types, and no turn is played
\* beyond the deadline.
THEOREM RunsTyped == Spec => []TypeOK
<1>1. Inv => TypeOK
  BY DEF Inv
<1> QED
  BY <1>1, RunsInvariant, PTL

\* The turns in the table are the history of the run: complete_simulation_turn
\* loses no turn and computes none from a state that was never reached.
THEOREM HistoryIsComplete == Spec => []TurnChain
<1>1. Inv => TurnChain
  BY DEF Inv
<1> QED
  BY <1>1, RunsInvariant, PTL

\* A response completes its entry, and no entry has two: the unique constraints
\* decide between requests that both found the entry waiting.
THEOREM ResponsesAreUnique == Spec => []OneResponse
<1>1. Inv => OneResponse
  BY DEF Inv
<1> QED
  BY <1>1, RunsInvariant, PTL

\* _resolve_content delivers nothing before what it depends on is completed,
\* although it decides by statuses that were read before the lock was held.
THEOREM DependenciesHold == Spec => []DependenciesFirst
<1>1. Inv => DependenciesFirst
  BY DEF Inv
<1> QED
  BY <1>1, RunsInvariant, PTL

\* No checkpoint delivers before the run is there, not even one resolved for a
\* week that another request plays meanwhile.
THEOREM DeliveriesAreTimely == Spec => []NothingEarly
<1>1. Inv => NothingEarly
  BY DEF Inv
<1> QED
  BY <1>1, RunsInvariant, PTL

\* What a turn's reply says has been committed, for the request it answers.
THEOREM AcknowledgedIsStored == Spec => []RepliesAreStored
<1>1. Inv => RepliesAreStored
  BY DEF Inv
<1> QED
  BY <1>1, RunsInvariant, PTL

\* No handler that loaded the run while it was active makes it active again
\* once it is over: the UPDATE writes no status that has not changed.
THEOREM OverIsOver == Spec => StaysOver
<1>1. ASSUME Inv, [Next]_vars, db.run.status \notin {"absent", "active"}
      PROVE  db'.run.status \notin {"absent", "active"}
  <2>1. CASE UNCHANGED vars
    BY <1>1, <2>1 DEF vars
  <2>2. CASE Next
    <3>1. PICK h \in Handlers : Step(h)
      BY <2>2 DEF Next, Step
    <3>2. CASE db' = db
      BY <1>1, <3>2
    <3>3. CASE Commits(h)
      <4>1. writer = h /\ phase[h] \in Resolving \cup {"gate", "play", "commit"}
        BY <3>3 DEF Commits
      <4>2. db'.run.status = FinalRun(h).status
        BY <1>1, <3>3, CommitHistory DEF Inv
      <4>3. FinalRun(h).status = "active" => db.run.status \in {"absent", "active"}
        BY <1>1, <4>1, FinalRow DEF Inv
      <4>4. db'.run.status # "absent"
        BY <1>1, <3>3, CommitStarts DEF Inv
      <4> QED
        BY <1>1, <4>2, <4>3, <4>4
    <3> QED
      BY <1>1, <3>1, <3>2, <3>3, CommitShape DEF Inv
  <2> QED
    BY <1>1, <2>1, <2>2
<1>2. Inv /\ [Next]_vars
        => (db.run.status \notin {"absent", "active"} => db'.run.status \notin {"absent", "active"})
  BY <1>1
<1> QED
  BY <1>2, RunsInvariant, PTL DEF Spec, StaysOver

\* However the requests of a run overlap, crash and are sent again, a commit
\* takes nothing back: the history of the run is continued, never rewritten, no
\* recorded turn disappears, and what was delivered or completed stays so.
THEOREM NothingIsTakenBack == Spec => [][Grows(db, db')]_vars
<1>1. ASSUME Inv, [Next]_vars PROVE Grows(db, db')
  <2>1. CASE UNCHANGED vars
    <3>1. db.run.week \in Nat /\ db.run.play \in Plays /\ db.run.week = Len(db.run.play)
      BY <1>1, DatabaseFields, RunFields DEF Inv, TypeOK, TurnChain
    <3>2. SubSeq(db.run.play, 1, db.run.week) = db.run.play
      BY <3>1, Beginnings
    <3> QED
      BY <2>1, <3>1, <3>2 DEF Grows, vars
  <2>2. CASE Next
    <3>1. PICK h \in Handlers : Step(h)
      BY <2>2 DEF Next, Step
    <3> QED
      BY <1>1, <3>1, Growth DEF Inv
  <2> QED
    BY <1>1, <2>1, <2>2
<1>2. Inv /\ [Next]_vars => Grows(db, db')
  BY <1>1
<1> QED
  BY <1>2, RunsInvariant, PTL DEF Spec


-----------------------------------------------------------------------------
(***************************************************************************)
(* The inductive invariant.                                                *)
(***************************************************************************)
\* At most one request is handled at a time.
Serial == \A g, h \in Handlers : g = h

\* A handler that is so far has loaded the run.
Working ==
  Resolving \cup {"deliver", "gate", "play", "open", "respond", "submit", "commit"}

\* What it loaded is what is stored, and it is for this version.
CurrentInv ==
  \A h \in Handlers : request[h] \in Requests /\ phase[h] \in Working =>
    /\ request[h].expected = db.run.version
    /\ ~IsContent(h) => loaded[h] = db.run /\ db.run.status = "active"

\* Keys are unique in their tables.
KeysInv ==
  /\ \A t, u \in db.turns : t.request.key = u.request.key => t = u
  /\ \A c, d \in db.responses : c.key = d.key => c = d

IsStored(r) == r \in {t.request : t \in db.turns} \cup db.responses

\* What is being carried out has not been carried out.
UnstoredInv == \A h \in Handlers : phase[h] \in Working \cup {"load"} => ~IsStored(request[h])

\* A turn or a response in the draft took a key, and a response an entry, that
\* was free.
TakenInv ==
  \A h \in Handlers : writer = h =>
    /\ Played(h) => \A t \in db.turns : t.request.key # request[h].key
    /\ IsContent(h) => \A c \in db.responses : c.key # request[h].key /\ c.entry # request[h].entry

\* The week h plays has no gate left.
Passed(h) ==
  \A e \in Entries :
    (/\ Required[e]
     /\ NotAfter(Trigger[e], BeforeWeek(Week(h)))
     /\ DependsOn[e] \subseteq Completed(db.deliveries))
      => db.deliveries[e] = "completed"

\* What a turn has seen of the deliveries on its way to the gate and beyond it.
GateInv ==
  \A h \in Handlers :
    /\ phase[h] = "deliver" => seen[h] = db.deliveries
    /\ phase[h] = "before_week" /\ writer = h =>
         \A e \in Entries : seen[h][e] \in {"pending", draft.deliveries[e]}
    /\ phase[h] = "gate" => Fresh(View(h).deliveries, BeforeWeek(Week(h)), FALSE) = {}
    /\ phase[h] = "play" \/ Played(h) => Passed(h)

SerialInv ==
  /\ CurrentInv /\ KeysInv /\ UnstoredInv /\ TakenInv /\ GateInv
  /\ BlockedShowsBlocker /\ RetriesSucceed

-----------------------------------------------------------------------------
(***************************************************************************)
(* Steps.                                                                  *)
(***************************************************************************)
\* Whoever commits answers.
LEMMA CommitEnds ==
  ASSUME Inv, NEW h \in Handlers, Step(h), db' # db
  PROVE  Commits(h) /\ phase'[h] = "done" /\ request' = request
<1>0. phase \in [Handlers -> Phases]
  BY DEF Inv, TypeOK
<1>b. \A o, t : Answer(h, o, t) => phase'[h] = "done"
  BY <1>0 DEF Answer
<1>1. Commits(h)
  BY CommitShape DEF Inv
<1>2. CASE Gate(h)
  <2>1. Answer(h, "blocked", NoTurn)
    BY <1>2 DEF Gate
  <2> QED
    BY <1>b, <1>1, <1>2, <2>1 DEF Gate
<1>3. CASE CommitTurn(h)
  BY <1>b, <1>1, <1>3 DEF CommitTurn
<1>4. CASE CommitResponse(h)
  BY <1>b, <1>1, <1>4 DEF CommitResponse
<1>5. CASE CommitRun(h)
  BY <1>b, <1>1, <1>5 DEF CommitRun
<1>6. CASE Start(h) \/ Send(h) \/ Receive(h) \/ Retry(h) \/ Lookup(h) \/ Load(h)
  BY <1>6 DEF Start, Send, Receive, Retry, Lookup, Load, Write
<1>7. CASE ReadDeliveries(h) \/ OpenDeliveries(h) \/ Round(h) \/ Play(h)
  BY <1>7 DEF ReadDeliveries, OpenDeliveries, Round, Play, Write, Rollback
<1>8. CASE ReadDelivery(h) \/ Respond(h) \/ Submit(h) \/ Fail(h) \/ GiveUp(h)
  BY <1>8 DEF ReadDelivery, Respond, Submit, Fail, GiveUp, Write, Rollback
<1> QED
  BY <1>2, <1>3, <1>4, <1>5, <1>6, <1>7, <1>8 DEF Step, Handle

\* A handler goes on with the request and the run it has loaded, or has just
\* loaded it.
LEMMA WorkingSteps ==
  ASSUME Inv, NEW h \in Handlers, Step(h), phase'[h] \in Working
  PROVE  /\ db' = db
         /\ \/ Start(h)
            \/ /\ phase[h] \in {"load"} \cup Working /\ request' = request
               /\ \/ Load(h) /\ Accepts(h) /\ db.run.version = request[h].expected /\ loaded'[h] = db.run
                  \/ phase[h] \in Working /\ loaded'[h] = loaded[h]
<1>0. phase \in [Handlers -> Phases] /\ loaded \in [Handlers -> RunRows]
  BY DEF Inv, TypeOK
<1>a. \A to : Proceed(h, to) => phase'[h] = to
  BY <1>0 DEF Proceed
<1>b. \A o, t : Answer(h, o, t) => phase'[h] \notin Working
  BY <1>0 DEF Answer, Working, Resolving
<1>1. db' = db
  BY CommitEnds DEF Working, Resolving
<1>2. CASE Start(h)
  BY <1>1, <1>2
<1>3. CASE Send(h) \/ Receive(h) \/ Retry(h)
  BY <1>3, <1>a DEF Send, Receive, Retry, Working, Resolving
<1>4. CASE Lookup(h)
  BY <1>4, <1>a, <1>b DEF Lookup, Working, Resolving
<1>5. CASE Load(h)
  BY <1>0, <1>1, <1>5, <1>b DEF Load
<1>6. CASE ReadDeliveries(h)
  BY <1>1, <1>6 DEF ReadDeliveries, Working, Resolving
<1>7. CASE OpenDeliveries(h)
  <2>1. phase[h] \in Working /\ request' = request
    BY <1>7 DEF OpenDeliveries, Working
  <2>2. loaded' = loaded \/ \E o, t : Answer(h, o, t)
    BY <1>7 DEF OpenDeliveries, session
  <2> QED
    BY <1>1, <1>b, <2>1, <2>2
<1>8. CASE Round(h)
  BY <1>1, <1>8 DEF Round, Working
<1>9. CASE Gate(h) \/ Play(h)
  <2>1. phase[h] \in Working /\ request' = request
    BY <1>9 DEF Gate, Play, Working
  <2>2. loaded' = loaded \/ \E o, t : Answer(h, o, t)
    BY <1>9 DEF Gate, Play, session
  <2> QED
    BY <1>1, <1>b, <2>1, <2>2
<1>10. CASE ReadDelivery(h) \/ Respond(h) \/ Submit(h)
  <2>1. phase[h] \in Working /\ request' = request
    BY <1>10 DEF ReadDelivery, Respond, Submit, Working
  <2>2. loaded' = loaded \/ \E o, t : Answer(h, o, t)
    BY <1>10 DEF ReadDelivery, Respond, Submit, session
  <2> QED
    BY <1>1, <1>b, <2>1, <2>2
<1>11. CASE CommitTurn(h) \/ CommitResponse(h) \/ CommitRun(h) \/ GiveUp(h) \/ Fail(h)
  BY <1>11, <1>b DEF CommitTurn, CommitResponse, CommitRun, GiveUp, Fail
<1> QED
  BY <1>2, <1>3, <1>4, <1>5, <1>6, <1>7, <1>8, <1>9, <1>10, <1>11 DEF Step, Handle

\* What the only handler has loaded is the run.
LEMMA CurrentStep ==
  ASSUME Serial, Inv, CurrentInv, NEW h \in Handlers, Step(h)
  PROVE  CurrentInv'
<1> SUFFICES ASSUME request'[h] \in Requests, phase'[h] \in Working
    PROVE  /\ request'[h].expected = db'.run.version
           /\ ~(request'[h].kind \in {"answer", "acknowledge"}) =>
                loaded'[h] = db'.run /\ db'.run.status = "active"
  BY DEF CurrentInv, IsContent, Serial
<1>1. db' = db
  BY WorkingSteps
<1>2. ~Start(h)
  <2>1. Start(h) => request'[h] = StartRequest
    BY DEF Start, Inv, TypeOK
  <2> QED
    BY <2>1, RequestKinds DEF Requests
<1>3. request'[h] = request[h]
  BY <1>2, WorkingSteps
<1>4. CASE Accepts(h) /\ db.run.version = request[h].expected /\ loaded'[h] = db.run
  BY <1>1, <1>3, <1>4, RequestKinds DEF Accepts
<1>5. CASE phase[h] \in Working /\ loaded'[h] = loaded[h]
  BY <1>1, <1>3, <1>5 DEF CurrentInv, IsContent
<1> QED
  BY <1>2, <1>4, <1>5, WorkingSteps

-----------------------------------------------------------------------------
(***************************************************************************)
(* Keys and retries.                                                       *)
(***************************************************************************)
\* What a commit adds to the tables.
LEMMA CommitTables ==
  ASSUME Inv, NEW h \in Handlers, Commits(h)
  PROVE  /\ db'.turns = IF Played(h) THEN db.turns \cup {TurnOf(h)} ELSE db.turns
         /\ db'.responses = IF IsContent(h) THEN db.responses \cup {request[h]} ELSE db.responses
         /\ TurnOf(h).request = request[h]
<1>1. DraftOK(h)
  BY DEF Inv, DraftInv, Commits
<1>2. db'.turns = draft.turns /\ db'.responses = draft.responses
  BY CommitTypes DEF Inv
<1>3. TurnOf(h).request = request[h]
  BY DEF TurnOf
<1> QED
  BY <1>1, <1>2, <1>3 DEF DraftOK

\* No key is used twice.
LEMMA KeysStep ==
  ASSUME Inv, KeysInv, TakenInv, NEW h \in Handlers, Step(h)
  PROVE  KeysInv'
<1>1. CASE db' = db
  BY <1>1 DEF KeysInv
<1>2. CASE Commits(h)
  <2>1. /\ \A t, u \in db.turns : t.request.key = u.request.key => t = u
        /\ \A c, d \in db.responses : c.key = d.key => c = d
    BY DEF KeysInv
  <2>2. /\ Played(h) => \A t \in db.turns : t.request.key # request[h].key
        /\ IsContent(h) => \A c \in db.responses : c.key # request[h].key
    BY <1>2 DEF TakenInv, Commits
  <2> DEFINE turn == TurnOf(h)
  <2>3. /\ db'.turns = IF Played(h) THEN db.turns \cup {turn} ELSE db.turns
        /\ turn.request = request[h]
    BY <1>2, CommitTables
  <2>4. db'.responses = IF IsContent(h) THEN db.responses \cup {request[h]} ELSE db.responses
    BY <1>2, CommitTables
  <2> HIDE DEF turn
  <2>5. \A t, u \in db'.turns : t.request.key = u.request.key => t = u
    BY <2>1, <2>2, <2>3
  <2>6. \A c, d \in db'.responses : c.key = d.key => c = d
    BY <2>1, <2>2, <2>4
  <2> QED
    BY <2>5, <2>6 DEF KeysInv
<1> QED
  BY <1>1, <1>2, CommitEnds

\* A key that is taken was free.
LEMMA TakenStep ==
  ASSUME Inv, Serial, TakenInv, NEW h \in Handlers, Step(h)
  PROVE  TakenInv'
<1> USE HandlerAssumption
<1> SUFFICES ASSUME writer' = h
    PROVE  /\ Played(h)' => \A t \in db'.turns : t.request.key # request'[h].key
           /\ IsContent(h)' => \A c \in db'.responses : c.key # request'[h].key /\ c.entry # request'[h].entry
  BY DEF TakenInv, Serial
<1>0. /\ phase \in [Handlers -> Phases] /\ TypeOK /\ LockInv /\ AskedInv
      /\ request \in [Handlers -> Requests \cup {NoRequest, StartRequest}]
  BY DEF Inv, TypeOK
<1>a. \A to : Proceed(h, to) => phase'[h] = to
  BY <1>0 DEF Proceed
<1>b. \A o, t : Answer(h, o, t) => phase'[h] = "done"
  BY <1>0 DEF Answer
<1>1. db' = db
  <2>1. Commits(h) => FALSE
    BY DEF Commits
  <2> QED
    BY <2>1, CommitEnds
<1>2. CASE Start(h)
  <2>1. request'[h] = StartRequest
    BY <1>0, <1>2 DEF Start
  <2> QED
    BY <2>1, RequestKinds DEF Played, IsTurn, IsContent
<1>3. CASE OpenDeliveries(h)
  <2>1. request'[h].kind = "turn" /\ phase'[h] \in {"gate", "before_week", "done"}
    BY <1>0, <1>3, <1>a, <1>b, RequestKinds DEF OpenDeliveries, AskedInv
  <2> QED
    BY <2>1 DEF Played, IsContent
<1>4. CASE Round(h)
  <2>1. phase[h] \in Resolving /\ writer = h /\ request' = request
    BY <1>4 DEF Round
  <2>2. Played(h)' => Played(h)
    <3> SUFFICES ASSUME request[h].kind = "turn", phase'[h] \in {"after_week", "run_finished", "commit"}
        PROVE  phase[h] \in {"after_week", "run_finished", "commit"}
      BY <2>1 DEF Played, IsTurn
    <3>1. phase[h] \notin {"responded", "run_started"}
      BY <1>0, RequestKinds DEF AskedInv
    <3>2. phase[h] # "before_week"
      BY <1>4, <1>a DEF Round, AfterResolving
    <3> QED
      BY <2>1, <3>1, <3>2 DEF Resolving
  <2> QED
    BY <1>1, <2>1, <2>2 DEF TakenInv, IsContent
<1>5. CASE Gate(h)
  <2>1. request'[h].kind = "turn" /\ phase'[h] \in {"play", "done"}
    BY <1>0, <1>5, <1>a, <1>b, RequestKinds DEF Gate, AskedInv
  <2> QED
    BY <2>1 DEF Played, IsContent
<1>6. CASE Play(h) /\ phase'[h] = "after_week"
  <2>1. /\ phase[h] = "play" /\ writer \in {NoHandler, h} /\ ~TurnTaken(View(h), TurnOf(h))
        /\ request' = request
    BY <1>6, <1>b DEF Play
  <2>2. request[h].kind = "turn"
    BY <1>0, <2>1, RequestKinds DEF AskedInv
  <2>3. View(h).turns = db.turns
    BY <1>0, <2>1, ViewFacts DEF Inv
  <2>4. TurnOf(h).request = request[h]
    BY DEF TurnOf
  <2> QED
    BY <1>1, <2>1, <2>2, <2>3, <2>4 DEF TurnTaken, IsContent
<1>7. CASE Respond(h) /\ writer # h
  <2>1. ~ResponseTaken(db, request[h]) /\ request' = request /\ phase'[h] = "responded"
    BY <1>7, <1>a DEF Respond
  <2> QED
    BY <1>1, <2>1 DEF ResponseTaken, Played
<1>8. CASE Submit(h)
  <2>1. request'[h].kind = "submit"
    BY <1>0, <1>8, RequestKinds DEF Submit, AskedInv
  <2> QED
    BY <2>1 DEF Played, IsTurn, IsContent
<1> QED
  BY <1>0, <1>2, <1>3, <1>4, <1>5, <1>6, <1>7, <1>8, HoldingSteps

\* Requests of a kind are stored in the table of the kind.
LEMMA StoredKinds ==
  ASSUME TypeOK, NEW h \in Handlers
  PROVE  /\ request[h].kind \notin {"turn", "answer", "acknowledge"} => ~IsStored(request[h])
         /\ request[h] \in Turns => (IsStored(request[h]) <=> \E t \in db.turns : t.request = request[h])
         /\ request[h] \in ContentCommands => (IsStored(request[h]) <=> request[h] \in db.responses)
<1>1. db.turns \subseteq TurnRows /\ db.responses \subseteq ContentCommands
  BY DatabaseFields DEF TypeOK, ResponseRows
<1>2. \A t \in db.turns : t.request \in Turns /\ t.request.kind = "turn"
  BY <1>1, RequestKinds DEF TurnRows
<1>3. \A c \in db.responses : c.kind \in {"answer", "acknowledge"}
  BY <1>1, RequestKinds
<1> QED
  BY <1>2, <1>3, RequestKinds DEF IsStored

\* Lookup finds what is stored.
LEMMA LookupFinds ==
  ASSUME Inv, KeysInv, NEW h \in Handlers, Lookup(h), IsStored(request[h])
  PROVE  reply'[h].outcome = "ok" /\ phase'[h] = "done"
<1>0. phase \in [Handlers -> Phases] /\ reply \in [Handlers -> Replies] /\ TypeOK
  BY DEF Inv, TypeOK
<1>b. \A o, t : Answer(h, o, t) => phase'[h] = "done" /\ reply'[h].outcome = o
  BY <1>0 DEF Answer
<1>1. request[h] \in Turns \cup ContentCommands
  BY DEF Inv, AskedInv, Lookup
<1>2. CASE request[h] \in Turns
  <2>1. PICK t \in db.turns : t.request = request[h]
    BY <1>0, <1>2, StoredKinds
  <2>2. Stored(h) = {u \in db.turns : u.request.key = request[h].key}
    BY <1>2, RequestKinds DEF Stored
  <2>3. t \in Stored(h) /\ \A row \in Stored(h) : row = t
    BY <2>1, <2>2 DEF KeysInv
  <2> QED
    BY <1>b, <2>1, <2>3 DEF Lookup
<1>3. CASE request[h] \in ContentCommands
  <2>1. request[h] \in db.responses
    BY <1>0, <1>3, StoredKinds
  <2>2. Stored(h) = {[request |-> c] : c \in {c \in db.responses : c.key = request[h].key}}
    BY <1>3, RequestKinds DEF Stored
  <2>3. \A c \in db.responses : c.key = request[h].key => c = request[h]
    BY <2>1 DEF KeysInv
  <2>4. [request |-> request[h]] \in Stored(h)
    BY <2>1, <2>2
  <2>5. \A row \in Stored(h) : row.request = request[h]
    BY <2>2, <2>3
  <2> QED
    BY <1>b, <2>4, <2>5 DEF Lookup
<1> QED
  BY <1>1, <1>2, <1>3

\* What is being carried out was not stored when it was looked up, nor since.
LEMMA UnstoredStep ==
  ASSUME Serial, Inv, KeysInv, UnstoredInv, NEW h \in Handlers, Step(h)
  PROVE  UnstoredInv'
<1> SUFFICES ASSUME phase'[h] \in Working \cup {"load"}
    PROVE  ~IsStored(request[h])'
  BY DEF UnstoredInv, Serial
<1>0. /\ phase \in [Handlers -> Phases] /\ TypeOK /\ AskedInv
      /\ request \in [Handlers -> Requests \cup {NoRequest, StartRequest}]
  BY DEF Inv, TypeOK
<1>a. \A to : Proceed(h, to) => phase'[h] = to
  BY <1>0 DEF Proceed
<1>1. db' = db
  BY CommitEnds DEF Working, Resolving
<1>2. (IsStored(request[h])') = (request'[h] \in {t.request : t \in db.turns} \cup db.responses)
  BY <1>1 DEF IsStored
<1>3. db.turns \subseteq TurnRows /\ db.responses \subseteq ContentCommands
  BY <1>0, DatabaseFields DEF TypeOK, ResponseRows
<1>4. \A r \in {t.request : t \in db.turns} \cup db.responses : r.kind \in {"turn", "answer", "acknowledge"}
  BY <1>3, RequestKinds DEF TurnRows
<1>5. CASE phase'[h] \in Working
  <2>1. CASE Start(h)
    <3>1. request'[h] = StartRequest
      BY <1>0, <2>1 DEF Start
    <3> QED
      BY <1>2, <1>4, <3>1, RequestKinds
  <2>2. CASE phase[h] \in {"load"} \cup Working /\ request' = request
    BY <1>2, <2>2 DEF UnstoredInv, IsStored
  <2> QED
    BY <1>5, <2>1, <2>2, WorkingSteps
<1>6. CASE phase'[h] = "load"
  <2>1. CASE Send(h) \/ Retry(h)
    <3>1. request'[h].kind = "submit"
      BY <1>0, <1>6, <2>1, <1>a DEF Send, Retry
    <3> QED
      BY <1>2, <1>4, <3>1
  <2>2. CASE Lookup(h)
    <3>1. request' = request
      BY <2>2 DEF Lookup
    <3>2. ~IsStored(request[h])
      BY <1>6, <2>2, LookupFinds
    <3> QED
      BY <1>2, <3>1, <3>2 DEF IsStored
  <2>3. CASE phase[h] \in Working \cup {"load"} /\ request' = request
    BY <1>2, <2>3 DEF UnstoredInv, IsStored
  <2>4. CASE Start(h) \/ Receive(h)
    BY <1>6, <2>4, <1>a DEF Start, Receive
  <2>5. CASE (Handle(h) /\ ~Lookup(h)) \/ Fail(h)
    <3>1. phase[h] \notin {"idle", "done", "lookup"} \/ Fail(h)
      BY <2>5 DEF Handle, Load, ReadDeliveries, OpenDeliveries, Round, Gate, Play, CommitTurn, ReadDelivery,
        Respond, CommitResponse, Submit, CommitRun, GiveUp, Resolving
    <3>2. request' = request
      BY <2>5 DEF Handle, Load, ReadDeliveries, OpenDeliveries, Round, Gate, Play, CommitTurn, ReadDelivery,
        Respond, CommitResponse, Submit, CommitRun, GiveUp, Fail
    <3>3. ~Fail(h)
      <4>1. Fail(h) => phase'[h] = "done"
        BY <1>0 DEF Fail, Answer
      <4> QED
        BY <1>6, <4>1
    <3>4. phase[h] \in Working \cup {"load"}
      BY <1>0, <3>1, <3>3 DEF Phases, Working
    <3> QED
      BY <2>3, <3>2, <3>4
  <2> QED
    BY <2>1, <2>2, <2>4, <2>5 DEF Step
<1> QED
  BY <1>5, <1>6

\* A request that is answered by anything but success or a failure has not been
\* carried out.
LEMMA RetriesStep ==
  ASSUME Serial, Inv, KeysInv, UnstoredInv, NEW h \in Handlers, Step(h)
  PROVE  RetriesSucceed'
<1> SUFFICES ASSUME phase'[h] = "done", IsStored(request[h])'
    PROVE  reply'[h].outcome \in {"ok", "failed"}
  BY DEF RetriesSucceed, Serial, IsStored
<1>0. /\ phase \in [Handlers -> Phases] /\ reply \in [Handlers -> Replies] /\ TypeOK /\ AskedInv
      /\ request \in [Handlers -> Requests \cup {NoRequest, StartRequest}]
  BY DEF Inv, TypeOK
<1>a. \A to : Proceed(h, to) => phase'[h] = to
  BY <1>0 DEF Proceed
<1>b. \A o, t : Answer(h, o, t) => reply'[h].outcome = o
  BY <1>0 DEF Answer
<1>1. ASSUME phase[h] \in Working \cup {"load"}, request' = request, db' = db
      PROVE  FALSE
  BY <1>1 DEF UnstoredInv, IsStored
<1>2. CASE Start(h) \/ Send(h) \/ Receive(h) \/ Retry(h)
  BY <1>2, <1>a DEF Start, Send, Receive, Retry
<1>3. CASE Lookup(h)
  <2>1. request' = request /\ db' = db
    BY <1>3 DEF Lookup
  <2>2. IsStored(request[h])
    BY <2>1 DEF IsStored
  <2> QED
    BY <1>3, <2>2, LookupFinds
<1>4. CASE Load(h) \/ ReadDeliveries(h) \/ OpenDeliveries(h) \/ Round(h) \/ Play(h)
           \/ ReadDelivery(h) \/ Respond(h) \/ Submit(h)
  <2>1. phase[h] \in Working \cup {"load"} /\ request' = request
    BY <1>4 DEF Load, ReadDeliveries, OpenDeliveries, Round, Play, ReadDelivery, Respond, Submit, Working, Resolving
  <2>2. db' = db
    BY <1>4 DEF Load, ReadDeliveries, OpenDeliveries, Round, Play, ReadDelivery, Respond, Submit, Write, Rollback
  <2> QED
    BY <1>1, <2>1, <2>2
<1>5. CASE Gate(h)
  <2>1. phase[h] = "gate" /\ request' = request /\ request[h].kind = "turn"
    BY <1>0, <1>5, RequestKinds DEF Gate, AskedInv
  <2>2. ~IsStored(request[h])
    BY <2>1 DEF UnstoredInv, Working
  <2>3. ~Played(h) /\ ~IsContent(h)
    BY <2>1 DEF Played, IsContent
  <2>4. CASE Commits(h)
    <3>1. db'.turns = db.turns /\ db'.responses = db.responses
      BY <2>3, <2>4, CommitTables
    <3> QED
      BY <2>1, <2>2, <3>1 DEF IsStored
  <2>5. CASE db' = db
    BY <2>1, <2>2, <2>5 DEF IsStored
  <2> QED
    BY <2>4, <2>5, CommitEnds
<1>6. CASE CommitTurn(h) \/ CommitResponse(h) \/ CommitRun(h)
  BY <1>6, <1>b DEF CommitTurn, CommitResponse, CommitRun
<1>7. CASE GiveUp(h) \/ Fail(h)
  BY <1>7, <1>b DEF GiveUp, Fail
<1> QED
  BY <1>2, <1>3, <1>4, <1>5, <1>6, <1>7 DEF Step, Handle

\* What blocks a week is committed with the reply that says so.
LEMMA BlockedStep ==
  ASSUME Serial, Inv, BlockedShowsBlocker, NEW h \in Handlers, Step(h)
  PROVE  BlockedShowsBlocker'
<1> USE HandlerAssumption
<1> SUFFICES ASSUME reply'[h].outcome = "blocked"
    PROVE  Blocking(db'.deliveries) # {}
  BY DEF BlockedShowsBlocker, Serial
<1>0. reply \in [Handlers -> Replies] /\ TypeOK /\ LockInv
  BY DEF Inv, TypeOK
<1>b. \A o, t : Answer(h, o, t) => reply'[h].outcome = o
  BY <1>0 DEF Answer
<1>1. CASE Gate(h)
  <2>1. (Blocking(View(h).deliveries) # {} /\ CommitBlocked(h)) \/ (reply' = reply /\ db' = db)
    BY <1>1 DEF Gate, BlockingFor, session
  <2>2. CASE reply' = reply /\ db' = db
    BY <2>2 DEF BlockedShowsBlocker
  <2>3. CASE Blocking(View(h).deliveries) # {} /\ CommitBlocked(h)
    <3>1. View(h) = db'
      BY <2>3 DEF CommitBlocked, Commit, View
    <3> QED
      BY <2>3, <3>1
  <2> QED
    BY <2>1, <2>2, <2>3
<1>2. CASE CommitTurn(h) \/ CommitResponse(h) \/ CommitRun(h) \/ GiveUp(h) \/ Fail(h)
  BY <1>2, <1>b DEF CommitTurn, CommitResponse, CommitRun, GiveUp, Fail
<1>3. CASE reply' = reply /\ db' = db
  BY <1>3 DEF BlockedShowsBlocker
<1>4. CASE Start(h) \/ Send(h) \/ ReadDeliveries(h) \/ Round(h) \/ Submit(h)
  BY <1>3, <1>4 DEF Start, Send, ReadDeliveries, Round, Submit, Write
<1>5. CASE Receive(h) \/ Retry(h)
  <2>1. reply'[h] = NoReply
    BY <1>0, <1>5 DEF Receive, Retry
  <2> QED
    BY <2>1 DEF NoReply
<1>6. CASE Lookup(h) \/ Load(h)
  <2>1. db' = db /\ (reply' = reply \/ \E o \in Outcomes \ {"blocked"} : \E t : Answer(h, o, t))
    BY <1>6 DEF Lookup, Load, Outcomes
  <2> QED
    BY <1>3, <1>b, <2>1
<1>7. CASE OpenDeliveries(h) \/ Play(h)
  <2>1. db' = db /\ (reply' = reply \/ \E o \in Outcomes \ {"blocked"} : \E t : Answer(h, o, t))
    BY <1>7 DEF OpenDeliveries, Play, Write, Rollback, Outcomes
  <2> QED
    BY <1>3, <1>b, <2>1
<1>8. CASE ReadDelivery(h) \/ Respond(h)
  <2>1. db' = db /\ (reply' = reply \/ \E o \in Outcomes \ {"blocked"} : \E t : Answer(h, o, t))
    BY <1>8 DEF ReadDelivery, Respond, Write, Outcomes
  <2> QED
    BY <1>3, <1>b, <2>1
<1> QED
  BY <1>1, <1>2, <1>4, <1>5, <1>6, <1>7, <1>8 DEF Step, Handle

-----------------------------------------------------------------------------
(***************************************************************************)
(* Gates.                                                                  *)
(***************************************************************************)
\* A script is finite, so any of its entries have a first one: a smallest set of
\* entries without one could not lose any of them.
LEMMA FirstInOrder ==
  ASSUME NEW S \in (SUBSET Entries) \ {{}}
  PROVE  \E e \in S : \A f \in S : ~Precedes(f, e)
<1> DEFINE HasFirst(U) == \E e \in U : \A f \in U : ~Precedes(f, e)
           Without == {U \in SUBSET Entries : U # {} /\ ~HasFirst(U)}
<1>1. IsWellFoundedOn(StrictSubsetOrdering(Entries), SUBSET Entries)
  <2>1. IsFiniteSet(Entries)
    BY ScriptAssumption DEF ValidScript
  <2>2. FiniteSubsetsOf(Entries) = SUBSET Entries
    BY <2>1, FS_FiniteSubsetsOfFinite
  <2>3. IsWellFoundedOn(StrictSubsetOrdering(Entries), FiniteSubsetsOf(Entries))
    BY FS_StrictSubsetOrderingWellFounded
  <2> QED  BY <2>2, <2>3
<1>2. \A e \in Entries : Priority[e] \in Int /\ Ordinal[e] \in Int
  BY ScriptAssumption DEF ValidScript
<1>3. ASSUME NEW e \in Entries, NEW f \in Entries, NEW g \in Entries, Precedes(e, f), Precedes(f, g)
      PROVE  Precedes(e, g) /\ ~Precedes(f, f) /\ ~Precedes(f, e)
  BY <1>2, <1>3 DEF Precedes
<1>4. ASSUME NEW e \in Entries PROVE ~Precedes(e, e)
  BY <1>2 DEF Precedes
<1>5. SUFFICES ASSUME S \in Without PROVE FALSE
  OBVIOUS
<1>6. PICK U \in Without : \A V \in Without : <<V, U>> \notin StrictSubsetOrdering(Entries)
  <2>1. Without \subseteq SUBSET Entries /\ Without # {}
    BY <1>5
  <2> HIDE DEF Without
  <2> QED  BY <1>1, <2>1, WFMin
<1>7. PICK e \in U : TRUE
  OBVIOUS
<1> DEFINE V == U \ {e}
<1>8. V \in SUBSET Entries /\ V \notin Without
  <2>1. V \in SUBSET Entries /\ V \subseteq U /\ V # U
    OBVIOUS
  <2>2. <<V, U>> \in StrictSubsetOrdering(Entries)
    BY <2>1 DEF StrictSubsetOrdering
  <2> QED  BY <1>6, <2>1, <2>2
<1>9. CASE V = {}
  <2>1. U = {e}
    BY <1>9
  <2> QED  BY <1>4, <2>1
<1>10. CASE V # {}
  <2>1. PICK m \in V : \A f \in V : ~Precedes(f, m)
    BY <1>8, <1>10
  <2>2. CASE Precedes(e, m)
    <3>1. \A f \in U : ~Precedes(f, e)
      BY <1>3, <1>4, <2>1, <2>2
    <3> QED  BY <3>1
  <2>3. CASE ~Precedes(e, m)
    <3>1. m \in U /\ \A f \in U : ~Precedes(f, m)
      BY <2>1, <2>3
    <3> QED  BY <3>1
  <2> QED  BY <2>2, <2>3
<1> QED  BY <1>9, <1>10

\* When nothing is fresh and nothing blocks, every required entry that is due
\* is completed: the first of those that are not would be delivered, and block.
LEMMA NoGateLeft ==
  ASSUME NEW status \in Statuses, NEW w \in 1 .. Horizon,
         Fresh(status, BeforeWeek(w), FALSE) = {}, Blocking(status) = {},
         NEW e \in Entries, Required[e], NotAfter(Trigger[e], BeforeWeek(w)),
         DependsOn[e] \subseteq Completed(status)
  PROVE  status[e] = "completed"
<1> SUFFICES ASSUME status[e] # "completed" PROVE FALSE
  OBVIOUS
<1> DEFINE reached == BeforeWeek(w)
           waiting == {f \in Candidates(status, reached, FALSE) : Required[f]}
<1>1. e \in waiting
  <2>1. Trigger[e] # RunFinished
    <3>1. Horizon \in Nat
      BY ScriptAssumption DEF ValidScript
    <3> SUFFICES ASSUME Trigger[e] = RunFinished PROVE FALSE
      OBVIOUS
    <3>2. Trigger[e][1] = Horizon + 1 /\ BeforeWeek(w)[1] = w
      BY DEF RunFinished, BeforeWeek
    <3> QED
      BY <3>1, <3>2 DEF NotAfter
  <2> QED
    BY <2>1 DEF Candidates, IsEligible, DependenciesCompleted, Completed
<1>2. waiting \in (SUBSET Entries) \ {{}}
  BY <1>1 DEF Candidates
<1>3. PICK f \in waiting : \A g \in waiting : ~Precedes(g, f)
  BY <1>2, FirstInOrder
<1>4. f \in Actionable(status, reached, FALSE) /\ Required[f] /\ f \in Entries /\ status[f] # "completed"
  BY <1>3 DEF Actionable, Candidates, Completed
<1>5. f \in Delivered(status)
  BY <1>4 DEF Fresh
<1>6. status[f] = "actionable"
  BY <1>4, <1>5 DEF Delivered, Statuses
<1> QED
  BY <1>4, <1>6 DEF Blocking

\* A handler whose gate is passed keeps it passed.
LEMMA PassedKeeps ==
  ASSUME NEW h \in Handlers, db' = db, loaded'[h] = loaded[h]
  PROVE  Passed(h)' <=> Passed(h)
BY DEF Passed, Week

\* Whoever gets beyond the gate saw that nothing was left there.
LEMMA GateStep ==
  ASSUME Serial, Inv, GateInv, NEW h \in Handlers, Step(h)
  PROVE  GateInv'
<1> USE HandlerAssumption
<1> DEFINE Goal ==
      /\ phase'[h] = "deliver" => seen'[h] = db'.deliveries
      /\ phase'[h] = "before_week" /\ writer' = h =>
           \A e \in Entries : seen'[h][e] \in {"pending", draft'.deliveries[e]}
      /\ phase'[h] = "gate" => Fresh(View(h)'.deliveries, BeforeWeek(Week(h)'), FALSE) = {}
      /\ phase'[h] = "play" \/ Played(h)' => Passed(h)'
<1> SUFFICES Goal
  BY DEF GateInv, Serial
<1>0. /\ phase \in [Handlers -> Phases] /\ seen \in [Handlers -> Statuses] /\ TypeOK /\ LockInv /\ AskedInv
      /\ request \in [Handlers -> Requests \cup {NoRequest, StartRequest}]
      /\ db \in Databases /\ draft \in Databases
      /\ db.deliveries \in Statuses /\ draft.deliveries \in Statuses
  BY DatabaseFields DEF Inv, TypeOK
<1>a. \A to : Proceed(h, to) => phase'[h] = to
  BY <1>0 DEF Proceed
<1>b. \A o, t : Answer(h, o, t) => phase'[h] = "done"
  BY <1>0 DEF Answer
<1>1. ASSUME phase'[h] \in {"done", "idle", "lookup", "load", "submit", "open", "respond"}
      PROVE  Goal
  BY <1>1 DEF Played
<1>2. ASSUME phase'[h] \in {"run_started", "responded", "run_finished"}, request'[h].kind # "turn"
      PROVE  Goal
  BY <1>2 DEF Played, IsTurn
<1>3. CASE Start(h)
  <2>1. request'[h] = StartRequest /\ phase'[h] = "run_started"
    BY <1>0, <1>3, <1>a DEF Start
  <2> QED
    BY <1>2, <2>1, RequestKinds
<1>4. CASE Send(h) \/ Receive(h) \/ Retry(h) \/ Lookup(h)
  BY <1>1, <1>4, <1>a, <1>b DEF Send, Receive, Retry, Lookup
<1>5. CASE Load(h)
  <2>1. writer' # h
    BY <1>0, <1>5 DEF Load, LockInv, Resolving
  <2>2. phase'[h] \in {"done", "before_week", "submit", "open"}
    BY <1>5, <1>a, <1>b DEF Load
  <2> QED
    BY <1>1, <2>1, <2>2 DEF Played
<1>6. CASE ReadDeliveries(h)
  <2>1. phase'[h] = "deliver" /\ seen'[h] = db.deliveries /\ db' = db
    BY <1>0, <1>6, <1>a DEF ReadDeliveries
  <2> QED
    BY <2>1 DEF Played
<1>7. CASE OpenDeliveries(h)
  <2> DEFINE fresh == Fresh(seen[h], BeforeWeek(Week(h)), FALSE)
  <2>1. /\ phase[h] = "deliver" /\ writer # h /\ seen[h] = db.deliveries
    BY <1>0, <1>7 DEF OpenDeliveries, LockInv, Resolving, GateInv
  <2>2. CASE fresh = {} /\ Proceed(h, "gate") /\ UNCHANGED <<db, writer, draft, loaded>>
    <3>1. phase'[h] = "gate"
      BY <1>a, <2>2
    <3>2. View(h)' = db /\ Week(h)' = Week(h)
      BY <2>1, <2>2 DEF View, Week
    <3> QED
      BY <2>1, <2>2, <3>1, <3>2 DEF Played
  <2>3. CASE /\ fresh \cap Delivered(db.deliveries) = {} /\ Proceed(h, "before_week") /\ seen' = seen
             /\ Write(h, [db EXCEPT !.deliveries = Deliver(@, fresh)])
    <3>1. phase'[h] = "before_week" /\ seen'[h] = db.deliveries
      BY <1>a, <2>1, <2>3
    <3> HIDE DEF fresh
    <3>2. draft'.deliveries = Deliver(db.deliveries, fresh)
      BY <1>0, <2>3 DEF Write, Databases
    <3>3. \A e \in Entries : db.deliveries[e] \in {"pending", draft'.deliveries[e]}
      BY <2>3, <3>2 DEF Deliver, Delivered
    <3> QED
      BY <3>1, <3>3 DEF Played
  <2>4. CASE \E o, t : Answer(h, o, t)
    BY <1>1, <1>b, <2>4
  <2> QED
    BY <1>7, <2>2, <2>3, <2>4 DEF OpenDeliveries, session
<1>8. CASE Round(h)
  <2>1. phase[h] \in Resolving /\ writer = h /\ request' = request /\ db' = db /\ writer' = h /\ loaded' = loaded
    BY <1>8 DEF Round, Write
  <2>2. View(h) = draft /\ Week(h)' = Week(h)
    BY <2>1 DEF View, Week
  <2>3. Played(h)' => Passed(h)'
    <3>1. Played(h)' => Played(h)
      <4> SUFFICES ASSUME request[h].kind = "turn", phase'[h] \in {"after_week", "run_finished", "commit"}
          PROVE  phase[h] \in {"after_week", "run_finished", "commit"}
        BY <2>1 DEF Played, IsTurn
      <4>1. phase[h] \notin {"responded", "run_started"}
        BY <1>0, RequestKinds DEF AskedInv
      <4>2. phase[h] # "before_week"
        BY <1>8, <1>a DEF Round, AfterResolving
      <4> QED
        BY <2>1, <4>1, <4>2 DEF Resolving
    <3>2. Played(h) => Passed(h)
      BY DEF GateInv
    <3> QED
      BY <2>1, <3>1, <3>2, PassedKeeps
  <2>4. phase[h] = "before_week" => SessionStatuses(h) = draft.deliveries
    <3> SUFFICES ASSUME phase[h] = "before_week" PROVE SessionStatuses(h) = draft.deliveries
      OBVIOUS
    <3>1. \A e \in Entries : seen[h][e] \in {"pending", draft.deliveries[e]}
      BY <2>1 DEF GateInv
    <3>2. \A e \in Entries : SessionStatuses(h)[e] = draft.deliveries[e]
      BY <2>2, <3>1 DEF SessionStatuses
    <3>3. SessionStatuses(h) \in Statuses
      BY <1>0, ViewTypes
    <3> QED
      BY <1>0, <3>2, <3>3 DEF Statuses
  <2>5. CASE /\ FreshFor(h) # {} /\ UNCHANGED <<phase, seen>>
             /\ Write(h, [draft EXCEPT !.deliveries = Deliver(@, FreshFor(h))])
    <3> DEFINE fresh == FreshFor(h)
    <3>1. ASSUME phase[h] = "before_week", NEW e \in Entries
          PROVE  seen'[h][e] \in {"pending", draft'.deliveries[e]}
      <4>1. seen[h][e] \in {"pending", draft.deliveries[e]}
        BY <2>1, <3>1 DEF GateInv
      <4>2. e \in fresh => SessionStatuses(h)[e] = "pending"
        BY FreshFacts DEF FreshFor
      <4>3. e \in fresh => draft.deliveries[e] = "pending"
        BY <2>4, <3>1, <4>2
      <4> HIDE DEF fresh
      <4>4. draft'.deliveries = Deliver(draft.deliveries, fresh)
        BY <1>0, <2>5 DEF Write, Databases, fresh
      <4>5. e \notin fresh => draft'.deliveries[e] = draft.deliveries[e]
        BY <4>4 DEF Deliver
      <4> QED
        BY <2>5, <4>1, <4>3, <4>5
    <3>2. phase'[h] \notin {"deliver", "gate", "play"}
      BY <2>1, <2>5 DEF Resolving
    <3> QED
      BY <2>3, <2>5, <3>1, <3>2
  <2>6. CASE FreshFor(h) = {} /\ Proceed(h, AfterResolving(h)) /\ UNCHANGED <<db, writer, draft>>
    <3>1. phase'[h] = AfterResolving(h) /\ phase'[h] \in {"gate", "run_finished", "commit"}
      BY <1>a, <2>6 DEF AfterResolving
    <3>2. ASSUME phase'[h] = "gate"
          PROVE  Fresh(View(h)'.deliveries, BeforeWeek(Week(h)'), FALSE) = {}
      <4>1. phase[h] = "before_week"
        BY <3>1, <3>2 DEF AfterResolving
      <4>2. Fresh(draft.deliveries, BeforeWeek(Week(h)), FALSE) = {}
        BY <2>4, <2>6, <4>1 DEF FreshFor, Reached
      <4>3. View(h)' = draft
        BY <2>1, <2>6 DEF View
      <4> QED
        BY <2>2, <4>2, <4>3
    <3> QED
      BY <2>3, <3>1, <3>2
  <2> QED
    BY <1>8, <2>5, <2>6 DEF Round
<1>9. CASE Gate(h)
  <2>1. CASE /\ BlockingFor(h) = {} /\ Proceed(h, "play") /\ UNCHANGED <<db, writer, draft, session>>
    <3>1. phase'[h] = "play" /\ db' = db /\ loaded' = loaded /\ phase[h] = "gate"
      BY <1>9, <1>a, <2>1 DEF session, Gate
    <3>2. Passed(h)
      <4> SUFFICES ASSUME NEW e \in Entries, Required[e], NotAfter(Trigger[e], BeforeWeek(Week(h))),
                          DependsOn[e] \subseteq Completed(db.deliveries)
          PROVE  db.deliveries[e] = "completed"
        BY DEF Passed
      <4> DEFINE status == View(h).deliveries
      <4>1. /\ request[h] \in Turns /\ request[h].kind = "turn"
        BY <1>0, <3>1, RequestKinds DEF AskedInv
      <4>2. Week(h) \in 1 .. Horizon
        <5>1. loaded[h].week < Deadline /\ loaded[h].week \in Nat
          BY <3>1, <4>1, RunFields DEF Inv, LoadedInv, IsTurn, TypeOK
        <5>2. Deadline \in 1 .. Horizon /\ Horizon \in Nat
          BY DeadlineAssumption, ScriptAssumption DEF ValidScript
        <5> QED
          BY <5>1, <5>2 DEF Week
      <4>3. CASE writer \in {NoHandler, h}
        <5>1. /\ View(h) \in Databases /\ View(h).responses = db.responses /\ ResponsesOK(View(h))
              /\ Completed(db.deliveries) \subseteq Completed(status)
          BY <3>1, <4>3, ViewFacts DEF Inv
        <5>2. status \in Statuses
          BY <5>1, DatabaseFields
        <5>3. Fresh(status, BeforeWeek(Week(h)), FALSE) = {} /\ Blocking(status) = {}
          BY <2>1, <3>1 DEF GateInv, BlockingFor
        <5>4. DependsOn[e] \subseteq Completed(status)
          BY <5>1
        <5> HIDE DEF status
        <5>5. status[e] = "completed"
          BY <4>2, <5>2, <5>3, <5>4, NoGateLeft
        <5>6. ~Automatic(e)
          BY ScriptAssumption DEF ValidScript, Automatic
        <5>7. {c \in View(h).responses : c.entry = e} # {}
          BY <5>1, <5>5, <5>6 DEF ResponsesOK, status
        <5>8. {c \in db.responses : c.entry = e} # {}
          BY <5>1, <5>7
        <5> QED
          BY <5>6, <5>8 DEF Inv, OneResponse
      <4>4. CASE writer \notin {NoHandler, h}
        <5>1. FALSE
          BY <1>0, <4>4 DEF TypeOK, Serial
        <5> QED
          BY <5>1
      <4> QED
        BY <4>3, <4>4
    <3> QED
      BY <3>1, <3>2, PassedKeeps DEF Played
  <2>2. CASE \E o, t : Answer(h, o, t)
    BY <1>1, <1>b, <2>2
  <2> QED
    BY <1>9, <2>1, <2>2 DEF Gate
<1>10. CASE Play(h)
  <2>1. CASE Write(h, [View(h) EXCEPT !.turns = @ \cup {TurnOf(h)}]) /\ Proceed(h, "after_week") /\ loaded' = loaded
    <3>1. phase'[h] = "after_week" /\ db' = db /\ phase[h] = "play"
      BY <1>10, <1>a, <2>1 DEF Write, Play
    <3>2. Passed(h)
      BY <3>1 DEF GateInv
    <3> QED
      BY <2>1, <3>1, <3>2, PassedKeeps
  <2>2. CASE \E o, t : Answer(h, o, t)
    BY <1>1, <1>b, <2>2
  <2> QED
    BY <1>10, <2>1, <2>2 DEF Play, session
<1>11. CASE ReadDelivery(h)
  BY <1>1, <1>11, <1>a, <1>b DEF ReadDelivery
<1>12. CASE Respond(h)
  <2>1. request'[h].kind # "turn" /\ phase'[h] \in {"done", "responded"}
    BY <1>0, <1>12, <1>a, <1>b, RequestKinds DEF Respond, AskedInv
  <2> QED
    BY <1>1, <1>2, <2>1
<1>13. CASE Submit(h)
  <2>1. request'[h].kind # "turn" /\ phase'[h] = "run_finished"
    BY <1>0, <1>13, <1>a, RequestKinds DEF Submit, AskedInv
  <2> QED
    BY <1>2, <2>1
<1>14. CASE CommitTurn(h) \/ CommitResponse(h) \/ CommitRun(h) \/ GiveUp(h) \/ Fail(h)
  BY <1>1, <1>14, <1>b DEF CommitTurn, CommitResponse, CommitRun, GiveUp, Fail
<1> QED
  BY <1>3, <1>4, <1>5, <1>6, <1>7, <1>8, <1>9, <1>10, <1>11, <1>12, <1>13, <1>14 DEF Step, Handle

-----------------------------------------------------------------------------
(***************************************************************************)
(* The ledger.                                                             *)
(***************************************************************************)
\* What the ledger says of a run depends on the rows of the run and of the
\* responses alone.
LEMMA LedgerStutters ==
  ASSUME db'.run = db.run, db'.responses = db.responses
  PROVE  UNCHANGED Ledger!ledger
BY DEF Ledger!ledger

\* A commit is an entry of the ledger, or none.
LEMMA LedgerCommit ==
  ASSUME Serial, Inv, SerialInv, NEW h \in Handlers, Commits(h)
  PROVE  Ledger!Next \/ UNCHANGED Ledger!ledger
<1>0. /\ db \in Databases /\ db.run \in RunRows /\ TypeOK /\ AskedInv
      /\ request[h] \in Requests \cup {NoRequest, StartRequest}
  BY DatabaseFields DEF Inv, TypeOK
<1>1. /\ writer = h /\ phase[h] \in {"gate", "commit"} /\ phase[h] \in Working
      /\ db'.run = CommittedRun(h)
      /\ db'.responses = IF IsContent(h) THEN db.responses \cup {request[h]} ELSE db.responses
  BY CommitTypes, CommitTables DEF Commits, Inv, Working
<1>2. request[h] \in Requests \cup {StartRequest}
  BY <1>0, <1>1, RequestKinds DEF AskedInv, Requests
<1>3. request[h] \in Requests =>
        /\ request[h].expected = db.run.version
        /\ ~IsContent(h) => loaded[h] = db.run /\ db.run.status = "active"
  BY <1>1 DEF SerialInv, CurrentInv
<1>4. CASE request[h] \in Turns /\ phase[h] = "gate"
  <2>1. ~Played(h) /\ ~IsContent(h) /\ request[h].kind = "turn"
    BY <1>4, RequestKinds DEF Played, IsContent
  <2>2. CommittedRun(h) = db.run
    BY <2>1 DEF CommittedRun, FinalRun
  <2> QED
    BY <1>1, <2>1, <2>2, LedgerStutters
<1>5. CASE request[h] \in Turns /\ phase[h] = "commit"
  <2>1. /\ request[h] \in Requests /\ Played(h) /\ ~IsContent(h)
        /\ request[h].decision \in Decisions
    BY <1>5, RequestKinds DEF Played, IsTurn, IsContent, Requests
  <2> DEFINE play == Append(db.run.play, request[h].decision)
  <2>2. /\ TurnOf(h).week = loaded[h].week + 1 /\ TurnOf(h).version = db.run.version + 1
        /\ TurnOf(h).play = play
    BY <1>3, <2>1 DEF TurnOf, Week
  <2>3. db'.run = RunAfterTurn(db.run, h)
    BY <1>1, <2>1 DEF CommittedRun, FinalRun
  <2> HIDE DEF play
  <2>4. /\ db'.run.play = play /\ db'.run.version = db.run.version + 1
        /\ db'.run.status = IF Outcome(play) = "active" THEN db.run.status ELSE Outcome(play)
        /\ db'.run.result = IF Outcome(play) = "active" THEN db.run.result
                            ELSE [play |-> play, submitted |-> FALSE]
    BY <1>0, <2>2, <2>3 DEF RunAfterTurn, RunRows
  <2>5. db.run.status = "active" /\ db'.responses = db.responses
    BY <1>1, <1>3, <2>1
  <2>6. Ledger!PlayWeek
    BY <2>1, <2>4, <2>5 DEF Ledger!PlayWeek, play
  <2> QED
    BY <2>6 DEF Ledger!Next
<1>6. CASE request[h] \in ContentCommands
  <2>1. /\ request[h] \in Requests /\ IsContent(h) /\ request[h].entry \in Entries
        /\ request[h].expected = db.run.version
    BY <1>3, <1>6, RequestKinds DEF IsContent, Requests
  <2>2. db'.run = RunAfterResponse(db.run, h) /\ db'.responses = db.responses \cup {request[h]}
    BY <1>1, <2>1 DEF CommittedRun
  <2>3. /\ db'.run.version = db.run.version + 1 /\ db'.run.play = db.run.play
        /\ db'.run.status = db.run.status /\ db'.run.result = db.run.result
    BY <1>0, <2>1, <2>2 DEF RunAfterResponse, RunRows
  <2>4. \A c \in db.responses : c.entry # request[h].entry
    BY <1>1, <2>1 DEF SerialInv, TakenInv
  <2>5. db.run.status # "absent"
    BY <2>1 DEF Inv, StartedInv
  <2>6. {c.entry : c \in db'.responses} = {c.entry : c \in db.responses} \cup {request[h].entry}
    BY <2>2
  <2>7. request[h].entry \in Entries \ {c.entry : c \in db.responses}
    BY <2>1, <2>4
  <2>8. Ledger!Respond
    BY <2>3, <2>5, <2>6, <2>7 DEF Ledger!Respond
  <2> QED
    BY <2>8 DEF Ledger!Next
<1>7. CASE request[h] \in Submissions
  <2>1. /\ request[h] \in Requests /\ request[h].kind = "submit" /\ ~IsContent(h) /\ ~Played(h)
    BY <1>7, RequestKinds DEF IsContent, Played, IsTurn, Requests
  <2>2. db'.run = RunAfterSubmission(db.run, h) /\ db'.responses = db.responses
    BY <1>1, <2>1 DEF CommittedRun, FinalRun
  <2>3. request[h].expected = db.run.version /\ loaded[h] = db.run /\ db.run.status = "active"
    BY <1>3, <2>1
  <2>4. /\ db'.run.version = db.run.version + 1 /\ db'.run.play = db.run.play
        /\ db'.run.status = "submitted" /\ db'.run.result = [play |-> db.run.play, submitted |-> TRUE]
    BY <1>0, <2>2, <2>3 DEF RunAfterSubmission, RunRows
  <2>5. Ledger!Submit
    BY <2>2, <2>3, <2>4 DEF Ledger!Submit
  <2> QED
    BY <2>5 DEF Ledger!Next
<1>8. CASE request[h] = StartRequest
  <2>1. ~IsContent(h) /\ ~Played(h) /\ request[h].kind = "start"
    BY <1>8, RequestKinds DEF IsContent, Played, IsTurn
  <2>2. db'.run = NewRun /\ db'.responses = db.responses
    BY <1>1, <2>1 DEF CommittedRun, FinalRun
  <2>3. db.run = NoRun
    BY <1>1, <1>8 DEF Inv, StartedInv
  <2>4. Ledger!Start
    BY <2>2, <2>3 DEF Ledger!Start, NewRun, NoRun
  <2> QED
    BY <2>4 DEF Ledger!Next
<1> QED
  BY <1>1, <1>2, <1>4, <1>5, <1>6, <1>7, <1>8 DEF Requests

-----------------------------------------------------------------------------
(***************************************************************************)
(* The theorems.                                                           *)
(***************************************************************************)
\* All of this holds before the run is started.
LEMMA InitSerial == Init => SerialInv
<1> SUFFICES ASSUME Init PROVE SerialInv
  OBVIOUS
<1> USE HandlerAssumption
<1>1. /\ db = EmptyDatabase /\ writer = NoHandler
      /\ \A h \in Handlers : phase[h] = "idle" /\ reply[h] = NoReply
  BY DEF Init
<1>2. db.turns = {} /\ db.responses = {}
  BY <1>1 DEF EmptyDatabase
<1>3. CurrentInv /\ UnstoredInv /\ GateInv
  BY <1>1 DEF CurrentInv, UnstoredInv, GateInv, Working, Resolving, Played
<1>4. KeysInv /\ TakenInv
  BY <1>1, <1>2 DEF KeysInv, TakenInv
<1>5. BlockedShowsBlocker /\ RetriesSucceed
  BY <1>1 DEF BlockedShowsBlocker, RetriesSucceed, NoReply
<1> QED
  BY <1>3, <1>4, <1>5 DEF SerialInv

\* A step that changes nothing keeps it.
LEMMA StutterSerial ==
  ASSUME SerialInv, UNCHANGED vars
  PROVE  SerialInv'
<1> USE DEF SerialInv, vars, session
<1>1. CurrentInv' /\ KeysInv'
  BY DEF CurrentInv, IsContent, KeysInv
<1>2. UnstoredInv' /\ TakenInv'
  BY DEF UnstoredInv, IsStored, TakenInv, Played, IsTurn, IsContent
<1>3. GateInv'
  <2>1. \A h \in Handlers : View(h)' = View(h) /\ Week(h)' = Week(h)
    BY DEF View, Week
  <2>2. \A h \in Handlers : (Played(h)' <=> Played(h)) /\ (Passed(h)' <=> Passed(h))
    BY PassedKeeps DEF Played, IsTurn
  <2> QED
    BY <2>1, <2>2 DEF GateInv
<1>4. BlockedShowsBlocker' /\ RetriesSucceed'
  BY DEF BlockedShowsBlocker, RetriesSucceed
<1> QED
  BY <1>1, <1>2, <1>3, <1>4

\* What every state of a run satisfies while its requests come one at a time.
THEOREM SerialInvariant == ASSUME Serial PROVE Spec => [](Inv /\ SerialInv)
<1>1. Inv /\ SerialInv /\ [Next]_vars => SerialInv'
  <2> SUFFICES ASSUME Inv, SerialInv, [Next]_vars PROVE SerialInv'
    OBVIOUS
  <2>1. CASE Next
    <3>1. PICK h \in Handlers : Step(h)
      BY <2>1 DEF Next, Step
    <3>2. CurrentInv' /\ KeysInv' /\ UnstoredInv' /\ TakenInv' /\ GateInv'
      BY <3>1, CurrentStep, KeysStep, UnstoredStep, TakenStep, GateStep DEF SerialInv
    <3>3. BlockedShowsBlocker' /\ RetriesSucceed'
      BY <3>1, BlockedStep, RetriesStep DEF SerialInv
    <3> QED
      BY <3>2, <3>3 DEF SerialInv
  <2>2. CASE UNCHANGED vars
    BY <2>2, StutterSerial
  <2> QED
    BY <2>1, <2>2
<1> QED
  BY <1>1, InitSerial, RunsInvariant, PTL DEF Spec

\* A run implements RunLedger: every command that succeeds is one entry, and
\* nothing else changes the run, whatever fails or is sent again.
THEOREM RunsKeepLedger == ASSUME Serial PROVE Spec => LedgerSpec
<1>1. Init => Ledger!Init
  <2> SUFFICES ASSUME Init PROVE Ledger!Init
    OBVIOUS
  <2>1. /\ db.run.play = <<>> /\ db.run.status = "absent" /\ db.run.version = 0
        /\ db.run.result = [play |-> <<>>, submitted |-> FALSE] /\ db.responses = {}
    BY DEF Init, EmptyDatabase, NoRun, NoResult
  <2>2. {c.entry : c \in db.responses} = {}
    BY <2>1
  <2>3. Ledger!NoResult = [play |-> <<>>, submitted |-> FALSE]
    BY DEF Ledger!NoResult
  <2> QED
    BY <2>1, <2>2, <2>3 DEF Ledger!Init
<1>2. Inv /\ SerialInv /\ [Next]_vars => [Ledger!Next]_(Ledger!ledger)
  <2> SUFFICES ASSUME Inv, SerialInv, [Next]_vars
      PROVE  Ledger!Next \/ UNCHANGED Ledger!ledger
    OBVIOUS
  <2>1. CASE db' = db
    BY <2>1, LedgerStutters
  <2>2. CASE Next /\ db' # db
    <3>1. PICK h \in Handlers : Step(h)
      BY <2>2 DEF Next, Step
    <3> QED
      BY <2>2, <3>1, CommitEnds, LedgerCommit
  <2> QED
    BY <2>1, <2>2 DEF vars
<1> QED
  BY <1>1, <1>2, SerialInvariant, PTL DEF Spec, LedgerSpec, Ledger!Spec

\* No week is played past required content that was due and could be responded
\* to: the gate of complete_simulation_turn holds.
THEOREM GatesHold == ASSUME Serial PROVE Spec => GateHolds
<1>1. ASSUME Inv, SerialInv, [Next]_vars, db'.turns # db.turns, NEW e \in Entries, Required[e],
             NotAfter(Trigger[e], BeforeWeek(db.run.week + 1)),
             DependsOn[e] \subseteq Completed(db.deliveries)
      PROVE  db.deliveries[e] = "completed"
  <2>1. db' # db
    BY <1>1
  <2>2. PICK h \in Handlers : Step(h)
    BY <1>1, <2>1 DEF Next, Step, vars
  <2>3. Commits(h)
    BY <1>1, <2>1, <2>2, CommitEnds
  <2>4. Played(h)
    BY <1>1, <2>3, CommitTables
  <2>5. loaded[h].week = db.run.week /\ Passed(h)
    BY <1>1, <2>3, <2>4 DEF Inv, PlayedInv, Commits, SerialInv, GateInv
  <2> QED
    BY <1>1, <2>5 DEF Passed, Week
<1>2. Inv /\ SerialInv /\ [Next]_vars =>
        (db'.turns # db.turns =>
           \A e \in Entries :
             (/\ Required[e]
              /\ NotAfter(Trigger[e], BeforeWeek(db.run.week + 1))
              /\ DependsOn[e] \subseteq Completed(db.deliveries))
               => db.deliveries[e] = "completed")
  BY <1>1
<1> QED
  BY <1>2, SerialInvariant, PTL DEF Spec, GateHolds

\* The reply "blocked" finds committed what the student must respond to.
THEOREM BlockersAreShown == ASSUME Serial PROVE Spec => []BlockedShowsBlocker
<1>1. Inv /\ SerialInv => BlockedShowsBlocker
  BY DEF SerialInv
<1> QED
  BY <1>1, SerialInvariant, PTL

\* A command that had been carried out is never refused when it is sent again.
THEOREM RetriesAreSafe == ASSUME Serial PROVE Spec => []RetriesSucceed
<1>1. Inv /\ SerialInv => RetriesSucceed
  BY DEF SerialInv
<1> QED
  BY <1>1, SerialInvariant, PTL

=============================================================================
