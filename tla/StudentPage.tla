----------------------------- MODULE StudentPage -----------------------------
(***************************************************************************)
(* The page on which a student plays a run:                                *)
(* frontend/src/pages/SimulationV2.jsx with its ContentPanel.jsx.          *)
(*                                                                         *)
(* The page shows the run as some reply left it and sends commands that    *)
(* name the version it shows.  Its handlers are asynchronous: each awaits  *)
(* a call and goes on with the reply, while others go on with theirs.      *)
(* Calls fail, late or lost; the server may still carry out what the page  *)
(* has given up; and other tabs play the same run.                         *)
(*                                                                         *)
(* The server handles one command at a time (SimulationRuns has what       *)
(* overlapping ones do), over a script of entries that are due at the      *)
(* start or before a week and are answered in any order.                   *)
(***************************************************************************)
EXTENDS Integers, FiniteSets

CONSTANTS
  Entries,        \* the authored content a student responds to
  Due,            \* [Entries -> Nat]: 0 at the start, n before week n
  Required,       \* the entries that block
  Weeks,          \* the last week of the run
  MaxFailures,    \* bound: calls that fail and pages that are reloaded at will
  MaxElsewhere,   \* bound: commands of other tabs
  MaxUnawaited,   \* bound: commands on their way that no page waits for
  MaxCalls        \* bound: calls the page waits for at a time

ASSUME ScriptAssumption == Due \in [Entries -> Nat] /\ Required \subseteq Entries
ASSUME BoundsAssumption ==
  /\ Weeks \in Nat \ {0}
  /\ MaxFailures \in Nat /\ MaxElsewhere \in Nat /\ MaxUnawaited \in Nat
  /\ MaxCalls \in Nat \ {0}

VARIABLES
  run,        \* the run as the server has it
  turns,      \* the turns it has played
  page,       \* what the student sees
  calls,      \* the calls on their way, there or back
  troubles    \* how many failures and commands elsewhere there were

vars == <<run, turns, page, calls, troubles>>
store == <<run, turns>>

-----------------------------------------------------------------------------
(***************************************************************************)
(* Runs, requests and replies.  A key stands for the decision made with    *)
(* it.  `shown' is history: the week the page named when its button was    *)
(* pressed.                                                                *)
(***************************************************************************)
Runs ==
  {r \in [status : {"active", "completed", "submitted"}, week : Nat, version : Nat,
          actionable : SUBSET Entries, answered : SUBSET Entries] :
     r.actionable \cap r.answered = {}}
NoRun == [status |-> "none"]

Turns == [kind : {"turn"}, key : Nat, expected : Nat, shown : Nat]
\* The key of a response is never sent twice (see PressEntry), so it has none.
Responses == [kind : {"respond"}, expected : Nat, entry : Entries]
Submissions == [kind : {"submit"}, expected : Nat]
Reads == [kind : {"get", "history"}]
Commands == Turns \cup Responses \cup Submissions

Awaited == [code : {"none"}, run : {NoRun}]
Replies == [code : {"ok", "conflict", "invalid", "failed"}, run : Runs \cup {NoRun}]
NoReply == [code |-> "none", run |-> NoRun]

\* Who waits for a reply: the first load, a button of the week, or an entry's.
Waiting == {"open", "week", "nobody"} \cup Entries

\* The handler of an entry may outlive the panel it belongs to (`mounted').
Calls ==
  [by : Waiting, mounted : BOOLEAN, request : Commands \cup Reads, reply : Awaited \cup Replies]

Call(by, request) == [by |-> by, mounted |-> TRUE, request |-> request, reply |-> NoReply]

NoSubmission == 0
EmptyPanel == [entry |-> "none", says |-> "nothing"]

Pages ==
  [run : Runs \cup {NoRun}, loading : BOOLEAN,
   pending : Nat,   \* the key of the week's submission that is kept
   panel : [entry : Entries \cup {"none"}, says : {"nothing", "retry"}]]

OpenedPage ==
  [run |-> NoRun, loading |-> TRUE, pending |-> NoSubmission, panel |-> EmptyPanel]

\* A key nobody uses, as random ones are.
UsedKeys ==
  {t.key : t \in turns} \cup {page.pending, NoSubmission}
    \cup {c.request.key : c \in {c \in calls : c.request.kind = "turn"}}
FreshKey == CHOOSE k \in 1 .. Cardinality(UsedKeys) : k \notin UsedKeys

Init ==
  /\ run = [status |-> "active", week |-> 0, version |-> 1,
            actionable |-> {e \in Entries : Due[e] = 0}, answered |-> {}]
  /\ turns = {}
  /\ page = OpenedPage
  /\ calls = {Call("open", [kind |-> "get"])}
  /\ troubles = [failures |-> 0, elsewhere |-> 0]

-----------------------------------------------------------------------------
(***************************************************************************)
(* The server.                                                             *)
(***************************************************************************)
Answer(c, code, r) ==
  calls' = (calls \ {c}) \cup
             (IF c.by = "nobody" THEN {} ELSE {[c EXCEPT !.reply = [code |-> code, run |-> r]]})

Refuse(c, code) == Answer(c, code, NoRun) /\ UNCHANGED store

\* Mutant: what was answered before is delivered again.
Redelivered == [run EXCEPT !.actionable = {e \in Entries : Due[e] <= run.week + 1}]

\* The run once the content before the next week is delivered.
Reached ==
  [run EXCEPT !.actionable = {e \in Entries : Due[e] <= run.week + 1} \ run.answered]

\* The end of a run reaches what is due, all of it, whatever its week.
Over(status, r) ==
  [r EXCEPT !.status = status, !.actionable = Entries \ r.answered]

\* The run after a week is played.
AfterWeek ==
  LET next == [Reached EXCEPT !.week = @ + 1, !.version = @ + 1]
  IN  IF next.week = Weeks THEN Over("completed", next) ELSE next

\* Mutant: the version of a replayed turn is that of the run today.
LiveVersion(turn) == [run EXCEPT !.week = turn.week]

\* What a replayed turn shows of the run: its own week and version.
Projection(turn) == [run EXCEPT !.version = turn.expected + 1, !.week = turn.week]

\* Mutant: keys of turns are not looked up.
NoPriors(request) == {}

PriorTurns(request) == {t \in turns : t.key = request.key}

ServeTurn(c) ==
  LET request == c.request
      priors == PriorTurns(request)
      acceptable == priors = {} /\ run.status = "active" /\ run.version = request.expected
  IN  /\ request.kind = "turn"
      /\ \/ \E t \in priors :
              /\ t.expected = request.expected
              /\ Answer(c, "ok", Projection(t))
              /\ UNCHANGED store
         \/ /\ \E t \in priors : t.expected # request.expected
            /\ Refuse(c, "conflict")
         \/ /\ priors = {} /\ run.status # "active"
            /\ Refuse(c, "invalid")
         \/ /\ priors = {} /\ run.status = "active" /\ run.version # request.expected
            /\ Refuse(c, "conflict")
         \/ /\ acceptable /\ Reached.actionable \cap Required # {}
            /\ run' = Reached
            /\ Answer(c, "conflict", NoRun)
            /\ UNCHANGED turns
         \/ /\ acceptable /\ Reached.actionable \cap Required = {}
            /\ run' = AfterWeek
            /\ turns' = turns \cup
                 {[key |-> request.key, expected |-> request.expected, week |-> run.week + 1,
                   shown |-> request.shown]}
            /\ Answer(c, "ok", run')

ServeResponse(c) ==
  LET request == c.request
  IN  /\ request.kind = "respond"
      /\ \/ /\ run.version # request.expected
            /\ Refuse(c, "conflict")
         \/ /\ run.version = request.expected
            /\ request.entry \notin run.actionable
            /\ Refuse(c, "invalid")
         \/ /\ run.version = request.expected
            /\ request.entry \in run.actionable
            /\ run' = [run EXCEPT !.version = @ + 1, !.actionable = @ \ {request.entry},
                                  !.answered = @ \cup {request.entry}]
            /\ Answer(c, "ok", run')
            /\ UNCHANGED turns

ServeSubmission(c) ==
  /\ c.request.kind = "submit"
  /\ \/ /\ run.status # "active"
        /\ Answer(c, "ok", run)
        /\ UNCHANGED store
     \/ /\ run.status = "active" /\ run.version # c.request.expected
        /\ Refuse(c, "conflict")
     \/ /\ run.status = "active" /\ run.version = c.request.expected
        /\ run' = Over("submitted", [run EXCEPT !.version = @ + 1])
        /\ Answer(c, "ok", run')
        /\ UNCHANGED turns

ServeRead(c) ==
  /\ c.request.kind \in {"get", "history"}
  /\ Answer(c, "ok", run)
  /\ UNCHANGED store

Serve(c) ==
  /\ c.reply = NoReply
  /\ ServeTurn(c) \/ ServeResponse(c) \/ ServeSubmission(c) \/ ServeRead(c)
  /\ UNCHANGED <<page, troubles>>

-----------------------------------------------------------------------------
(***************************************************************************)
(* Failures, and other tabs.                                               *)
(***************************************************************************)

\* What the server may still get of calls nobody waits for any more.
Abandoned(cs) ==
  {[by |-> "nobody", mounted |-> FALSE, request |-> c.request, reply |-> NoReply] :
     c \in {c \in cs : c.reply = NoReply /\ c.request \in Commands}}

Unawaited == {c \in calls : c.by = "nobody"}

\* A call fails for the page: its request is lost, or is carried out sometime.
Fail(c) ==
  /\ c.reply = NoReply /\ c.by # "nobody"
  /\ troubles.failures < MaxFailures
  /\ \E late \in SUBSET Abandoned({c}) :
       /\ Cardinality(Unawaited \cup late) <= MaxUnawaited
       /\ calls' = (calls \ {c}) \cup late
                     \cup {[c EXCEPT !.reply = [code |-> "failed", run |-> NoRun]]}
  /\ troubles' = [troubles EXCEPT !.failures = @ + 1]
  /\ UNCHANGED <<store, page>>

\* Another tab, which shows the run as it is, sends a command.
Elsewhere ==
  /\ troubles.elsewhere < MaxElsewhere
  /\ Cardinality(Unawaited) < MaxUnawaited
  /\ \E request \in
          {[kind |-> "turn", key |-> FreshKey, expected |-> run.version,
            shown |-> run.week + 1]}
            \cup [kind : {"respond"}, expected : {run.version}, entry : run.actionable] :
       calls' = calls \cup {[Call("nobody", request) EXCEPT !.mounted = FALSE]}
  /\ troubles' = [troubles EXCEPT !.elsewhere = @ + 1]
  /\ UNCHANGED <<store, page>>

-----------------------------------------------------------------------------
(***************************************************************************)
(* The page: what it does with replies.                                    *)
(***************************************************************************)

\* Nothing of the panel outlives the time in which the page shows a spinner.
Detach(cs) == {IF c.by \in Entries THEN [c EXCEPT !.mounted = FALSE] ELSE c : c \in cs}

\* Mutant: a conflict is shown and the run is not read again.
KeepShowing(c, p) == page' = p /\ calls' = calls \ {c}

\* load(), awaited by the handler whose call c is over, on the page p.
Reload(c, p) ==
  /\ page' = [p EXCEPT !.loading = TRUE, !.panel = EmptyPanel]
  /\ calls' = Detach((calls \ {c}) \cup {Call(c.by, [kind |-> "get"])})

\* Of completeWeek: the submission is given up only on an answer about it.
ReceiveTurn(c) ==
  /\ c.request.kind = "turn"
  /\ \/ /\ c.reply.code = "ok"
        /\ page' = [page EXCEPT !.run = c.reply.run, !.pending = NoSubmission]
        /\ calls' = (calls \ {c}) \cup {Call("week", [kind |-> "history"])}
     \/ /\ c.reply.code = "conflict"
        /\ Reload(c, [page EXCEPT !.pending = NoSubmission])
     \/ /\ c.reply.code \in {"invalid", "failed"}
        /\ page' = page
        /\ calls' = calls \ {c}

\* The end of completeWeek, and of load() whoever called it.
ReceiveRead(c) ==
  /\ c.request.kind \in {"get", "history"}
  /\ page' = IF c.request.kind = "history" THEN page
             ELSE [page EXCEPT !.loading = FALSE,
                               !.run = IF c.reply.code = "ok" THEN c.reply.run ELSE @]
  /\ calls' = calls \ {c}

\* Of submit: a conflict is shown, the run not read again.
ReceiveSubmission(c) ==
  /\ c.request.kind = "submit"
  /\ page' = IF c.reply.code = "ok" THEN [page EXCEPT !.run = c.reply.run] ELSE page
  /\ calls' = calls \ {c}

\* Of the panel: what it sets of its own is lost once it is gone, and the run
\* it hands to the page is not.
ReceiveResponse(c) ==
  /\ c.request.kind = "respond"
  /\ \/ /\ c.reply.code = "ok"
        /\ page' = [page EXCEPT !.run = c.reply.run,
                      !.panel.entry = IF c.mounted THEN "none" ELSE @]
        /\ calls' = calls \ {c}
     \/ /\ c.reply.code = "conflict"
        /\ Reload(c, page)
     \/ /\ c.reply.code \in {"invalid", "failed"}
        /\ page' = [page EXCEPT !.panel.says = IF c.mounted THEN "retry" ELSE @]
        /\ calls' = calls \ {c}

Receive(c) ==
  /\ c.reply # NoReply
  /\ ReceiveTurn(c) \/ ReceiveRead(c) \/ ReceiveSubmission(c) \/ ReceiveResponse(c)
  /\ UNCHANGED <<store, troubles>>

-----------------------------------------------------------------------------
(***************************************************************************)
(* The student: the buttons of the page, and the one of the browser.       *)
(***************************************************************************)
Shown == ~page.loading /\ page.run # NoRun

\* While a handler of the week runs, its buttons show a spinner.
Saving == \E c \in calls : c.by = "week"

Send(c) ==
  /\ Cardinality(calls \ Unawaited) < MaxCalls /\ c \notin calls
  /\ calls' = calls \cup {c}

\* "Complete week", which is "Retry week" when a submission is kept.
PressWeek ==
  /\ Shown /\ page.run.status = "active" /\ ~Saving
  /\ page.run.actionable \cap Required = {}
  /\ page' = [page EXCEPT !.pending = IF @ = NoSubmission THEN FreshKey ELSE @]
  /\ Send(Call("week", [kind |-> "turn", key |-> page'.pending,
                        expected |-> page.run.version, shown |-> page.run.week + 1]))
  /\ UNCHANGED <<store, troubles>>

\* "Discard retry", also while the submission is on its way.
PressDiscard ==
  /\ Shown /\ page.run.status = "active" /\ page.pending # NoSubmission
  /\ page' = [page EXCEPT !.pending = NoSubmission]
  /\ UNCHANGED <<store, calls, troubles>>

\* "Submit project", and its confirmation.
PressSubmit ==
  /\ Shown /\ page.run.status = "active" /\ ~Saving
  /\ Send(Call("week", [kind |-> "submit", expected |-> page.run.version]))
  /\ UNCHANGED <<store, page, troubles>>

\* The button of an entry shows a spinner while the panel has it pending.
Pressable(e) == Shown /\ e \in page.run.actionable /\ page.panel.entry # e

\* "Submit answer" or "Acknowledge".  The key is always new: the panel reuses
\* the one it has pending for the entry whose button cannot be pressed.
PressEntry(e) ==
  /\ Pressable(e)
  /\ page' = [page EXCEPT !.panel = [entry |-> e, says |-> "nothing"]]
  /\ Send(Call(e, [kind |-> "respond", expected |-> page.run.version, entry |-> e]))
  /\ UNCHANGED <<store, troubles>>

\* A page that has failed to open, or whose panel has, offers nothing else.
Stuck == ~page.loading /\ (page.run = NoRun \/ page.panel.says = "retry")

\* The page is opened anew; what it waited for is carried out or not.
Reopen ==
  /\ \E late \in SUBSET Abandoned(calls \ Unawaited) :
       /\ Cardinality(Unawaited \cup late) <= MaxUnawaited
       /\ calls' = Unawaited \cup late \cup {Call("open", [kind |-> "get"])}
  /\ \/ Stuck /\ UNCHANGED troubles
     \/ /\ ~Stuck /\ troubles.failures < MaxFailures
        /\ troubles' = [troubles EXCEPT !.failures = @ + 1]
  /\ page' = OpenedPage
  /\ UNCHANGED store

-----------------------------------------------------------------------------
Next ==
  \/ \E c \in calls : Serve(c) \/ Receive(c) \/ Fail(c)
  \/ Elsewhere
  \/ PressWeek \/ PressDiscard \/ PressSubmit
  \/ \E e \in Entries : PressEntry(e)
  \/ Reopen

Spec == Init /\ [][Next]_vars

(***************************************************************************)
(* Calls end: the client waits for the reply or the error, and the page    *)
(* goes on with it.  A student who can go on does, now with the week, now  *)
(* with an entry, and opens the page again when nothing else is left.      *)
(* Strong fairness, because other handlers interrupt: a reload takes the   *)
(* buttons away.                                                           *)
(***************************************************************************)
FairSpec ==
  /\ Spec
  /\ \A w \in Waiting \ {"nobody"} :
       WF_vars(\E c \in calls : c.by = w /\ (Serve(c) \/ Receive(c)))
  /\ SF_vars(PressWeek)
  /\ \A e \in Entries : SF_vars(PressEntry(e))
  /\ SF_vars(Stuck /\ Reopen)

-----------------------------------------------------------------------------
(***************************************************************************)
(* Properties.                                                             *)
(***************************************************************************)

\* Every part has its type; no run offers an entry that was answered.
TypeOK ==
  /\ run \in Runs
  /\ turns \subseteq [key : Nat, expected : Nat, week : Nat, shown : Nat]
  /\ page \in Pages
  /\ calls \subseteq Calls
  /\ troubles \in [failures : 0 .. MaxFailures, elsewhere : 0 .. MaxElsewhere]

\* No decision is played for two weeks, although a retry names the version of
\* the page as it is now: the page keeps the key until it hears of it, and the
\* server has the key of what it played (SimulationV2.jsx:157, service.py:352).
DecisionPlayedOnce == \A t, u \in turns : t.key = u.key => t = u

\* A week is played only from a page that named this week, whatever replays,
\* responses of a panel that is gone and overlapping loads have set the page to:
\* week and version are always shown of one moment (simulations.py:247).
PlayedWeekWasShown == \A t \in turns : t.week = t.shown

\* A student who keeps on comes to the end of the run: from whatever was lost or
\* changed elsewhere, the page finds back to a version the server accepts.
StudentFinishes == <>(run.status # "active")

=============================================================================
