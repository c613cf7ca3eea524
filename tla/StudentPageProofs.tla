-------------------------- MODULE StudentPageProofs --------------------------
(***************************************************************************)
(* What the page of a student guarantees for any script, any number of     *)
(* weeks, of failures, of other tabs and of calls on their way: the types, *)
(* and that what is played is what was shown, once.                        *)
(***************************************************************************)
EXTENDS StudentPage, FiniteSetTheorems, TLAPS

-----------------------------------------------------------------------------
(***************************************************************************)
(* The inductive invariant.                                                *)
(***************************************************************************)

\* The moment a shown run is of: an earlier version, or this one and its week.
Seen(r) == r.version <= run.version /\ (r.version = run.version => r.week = run.week)

\* Whatever the page shows or a reply brings was the run at some moment.
SeenInv ==
  /\ page.run \in Runs => Seen(page.run)
  /\ \A c \in calls : c.reply.run \in Runs => Seen(c.reply.run)

\* A request for a turn names a version and the week that was shown with it.
NamedInv ==
  \A c \in calls : c.request.kind = "turn" =>
    /\ c.request.expected <= run.version
    /\ c.request.expected = run.version => c.request.shown = run.week + 1

\* A turn made a version, whose week it is.
MadeInv ==
  \A t \in turns :
    /\ t.expected + 1 <= run.version
    /\ t.expected + 1 = run.version => t.week = run.week

\* Keys are chosen among finitely many that are used.
FiniteInv == IsFiniteSet(turns) /\ IsFiniteSet(calls)

Inv ==
  /\ TypeOK /\ FiniteInv /\ SeenInv /\ NamedInv /\ MadeInv
  /\ DecisionPlayedOnce /\ PlayedWeekWasShown

-----------------------------------------------------------------------------
(***************************************************************************)
(* Types.                                                                  *)
(***************************************************************************)
\* The keys of finitely many records are finitely many.
LEMMA FiniteImage ==
  ASSUME NEW S, IsFiniteSet(S), NEW f, f = [x \in S |-> f[x]]
  PROVE  IsFiniteSet({f[x] : x \in S})
<1>1. f \in Surjection(S, {f[x] : x \in S})
  BY DEF Surjection
<1> QED
  BY <1>1, FS_Surjection

\* There is always a key nobody uses.
LEMMA FreshKeyType ==
  ASSUME TypeOK, FiniteInv
  PROVE  FreshKey \in Nat
<1> DEFINE asked == {c \in calls : c.request.kind = "turn"}
           kt == [t \in turns |-> t.key]
           kc == [c \in asked |-> c.request.key]
           n == Cardinality(UsedKeys)
<1>1. IsFiniteSet({t.key : t \in turns})
  <2>1. IsFiniteSet({kt[t] : t \in turns})
    BY FiniteImage DEF FiniteInv
  <2>2. {kt[t] : t \in turns} = {t.key : t \in turns}
    OBVIOUS
  <2> QED
    BY <2>1, <2>2
<1>2. IsFiniteSet({c.request.key : c \in asked})
  <2>1. IsFiniteSet(asked)
    BY FS_Subset DEF FiniteInv
  <2>2. IsFiniteSet({kc[c] : c \in asked})
    <3>1. kc = [c \in asked |-> kc[c]]
      OBVIOUS
    <3> HIDE DEF kc, asked
    <3> QED
      BY <2>1, <3>1, FiniteImage
  <2>3. {kc[c] : c \in asked} = {c.request.key : c \in asked}
    OBVIOUS
  <2> QED
    BY <2>2, <2>3
<1>3. IsFiniteSet(UsedKeys) /\ NoSubmission \in UsedKeys
  <2>1. IsFiniteSet({page.pending, NoSubmission})
    <3>1. {page.pending, NoSubmission} = {page.pending} \cup {NoSubmission}
      OBVIOUS
    <3>2. IsFiniteSet({page.pending})
      BY FS_Singleton
    <3> QED
      BY <3>1, <3>2, FS_AddElement
  <2>2. IsFiniteSet({t.key : t \in turns} \cup {page.pending, NoSubmission})
    BY <1>1, <2>1, FS_Union
  <2> QED
    BY <1>2, <2>2, FS_Union DEF UsedKeys
<1>4. n \in Nat
  BY <1>3, FS_CardinalityType
<1>5. \E k \in 1 .. n : k \notin UsedKeys
  <2> SUFFICES ASSUME 1 .. n \subseteq UsedKeys PROVE FALSE
    OBVIOUS
  <2>1. 0 .. n \subseteq UsedKeys
    BY <1>3, <1>4 DEF NoSubmission
  <2>2. Cardinality(0 .. n) = n + 1
    BY <1>4, FS_Interval
  <2>3. Cardinality(0 .. n) <= n
    BY <1>3, <2>1, FS_Subset
  <2> QED
    BY <1>4, <2>2, <2>3
<1> HIDE DEF n
<1>6. FreshKey \in 1 .. n
  BY <1>5 DEF FreshKey, n
<1> QED
  BY <1>4, <1>6

\* The runs the server comes to are runs.
LEMMA RunTypes ==
  ASSUME TypeOK
  PROVE  Reached \in Runs /\ AfterWeek \in Runs
<1>1. run \in Runs
  BY DEF TypeOK
<1>2. Reached \in Runs
  BY <1>1 DEF Reached, Runs
<1>3. \A r \in Runs : [r EXCEPT !.week = @ + 1, !.version = @ + 1] \in Runs
  <2>1. \A r \in Runs : \A w, v \in Nat : [r EXCEPT !.week = w, !.version = v] \in Runs
    BY DEF Runs
  <2>2. \A r \in Runs : r.week + 1 \in Nat /\ r.version + 1 \in Nat
    BY DEF Runs
  <2> QED
    BY <2>1, <2>2
<1>4. \A r \in Runs : Over("completed", r) \in Runs
  BY DEF Over, Runs
<1> QED
  BY <1>2, <1>3, <1>4 DEF AfterWeek

\* What the server comes to: the version after, and the week after.
LEMMA AfterWeekIs ==
  ASSUME TypeOK
  PROVE  /\ Reached.version = run.version /\ Reached.week = run.week
         /\ AfterWeek.version = run.version + 1 /\ AfterWeek.week = run.week + 1
BY DEF TypeOK, Runs, Reached, AfterWeek, Over

\* An answered call is a call, with its request and this run.
LEMMA AnswerIs ==
  ASSUME TypeOK, FiniteInv, NEW c \in calls, NEW r \in Runs \cup {NoRun},
         NEW code \in {"ok", "conflict", "invalid", "failed"}, Answer(c, code, r)
  PROVE  /\ calls' \subseteq Calls /\ IsFiniteSet(calls')
         /\ \A d \in calls' : d \in calls \/ (d.request = c.request /\ d.reply.run = r)
<1> DEFINE d == [c EXCEPT !.reply = [code |-> code, run |-> r]]
<1>1. c \in Calls
  BY DEF TypeOK
<1>2. d \in Calls /\ d.request = c.request /\ d.reply.run = r
  BY <1>1 DEF Calls, Replies
<1>3. IsFiniteSet(calls \ {c})
  BY FS_RemoveElement DEF FiniteInv
<1>4. calls' = calls \ {c} \/ calls' = (calls \ {c}) \cup {d}
  BY DEF Answer
<1> HIDE DEF d
<1>5. IsFiniteSet(calls')
  BY <1>3, <1>4, FS_AddElement
<1> QED
  BY <1>2, <1>4, <1>5 DEF TypeOK

-----------------------------------------------------------------------------
(***************************************************************************)
(* The server.                                                             *)
(***************************************************************************)
\* The run goes on: to a later version, or within the same version and week.
GoesOn ==
  /\ run' \in Runs
  /\ run'.version > run.version \/ (run'.version = run.version /\ run'.week = run.week)

\* A run that was current at some moment once the step is made.
SeenNext(r) == r.version <= run'.version /\ (r.version = run'.version => r.week = run'.week)

\* What a replayed turn shows is the run at the moment after that turn.
LEMMA ProjectionIsSeen ==
  ASSUME TypeOK, MadeInv, NEW t \in turns
  PROVE  Projection(t) \in Runs /\ Seen(Projection(t))
<1>1. t.expected + 1 \in Nat /\ t.week \in Nat /\ run \in Runs
  BY DEF TypeOK
<1>2. Projection(t) \in Runs
  BY <1>1 DEF Projection, Runs
<1>3. Projection(t).version = t.expected + 1 /\ Projection(t).week = t.week
  BY <1>1 DEF Projection, Runs
<1> QED
  BY <1>2, <1>3 DEF Seen, MadeInv

\* A command is answered with nothing or with the run of some moment.
LEMMA ServeIs ==
  ASSUME Inv, NEW c \in calls, Serve(c)
  PROVE  /\ GoesOn
         /\ \E r \in Runs \cup {NoRun}, code \in {"ok", "conflict", "invalid", "failed"} :
              Answer(c, code, r) /\ (r \in Runs => SeenNext(r))
<1>1. run \in Runs /\ run.version \in Nat /\ run.week \in Nat
  BY DEF Inv, TypeOK, Runs
<1>2. NoRun \notin Runs
  BY DEF NoRun, Runs
<1>3. ASSUME run' = run, NEW r \in Runs, Seen(r) PROVE SeenNext(r)
  BY <1>3 DEF Seen, SeenNext
<1> DEFINE Result ==
      \E r \in Runs \cup {NoRun}, code \in {"ok", "conflict", "invalid", "failed"} :
        Answer(c, code, r) /\ (r \in Runs => SeenNext(r))
<1> SUFFICES GoesOn /\ Result
  OBVIOUS
<1>4. run' = run => GoesOn
  BY <1>1 DEF GoesOn
<1>5. GoesOn => SeenNext(run')
  BY <1>1 DEF GoesOn, SeenNext, Runs
<1>6. ASSUME NEW code \in {"conflict", "invalid"}, Refuse(c, code)
      PROVE  GoesOn /\ Result
  BY <1>2, <1>4, <1>6 DEF Refuse, store
<1>7. ASSUME GoesOn, Answer(c, "ok", run')
      PROVE  Result
  BY <1>5, <1>7 DEF GoesOn
<1> HIDE DEF Result
<1>8. CASE ServeTurn(c)
  <2> DEFINE priors == PriorTurns(c.request)
  <2>1. ASSUME NEW t \in priors, Answer(c, "ok", Projection(t)), run' = run
        PROVE  GoesOn /\ Result
    <3>1. Projection(t) \in Runs /\ Seen(Projection(t))
      BY ProjectionIsSeen DEF Inv, PriorTurns
    <3> QED
      BY <1>3, <1>4, <2>1, <3>1 DEF Result
  <2>2. CASE run' = Reached /\ Answer(c, "conflict", NoRun)
    <3>1. GoesOn
      BY <2>2, RunTypes, AfterWeekIs DEF GoesOn, Inv
    <3> QED
      BY <1>2, <2>2, <3>1 DEF Result
  <2>3. CASE run' = AfterWeek /\ Answer(c, "ok", run')
    <3>1. GoesOn
      BY <1>1, <2>3, RunTypes, AfterWeekIs DEF GoesOn, Inv
    <3> QED
      BY <1>7, <2>3, <3>1
  <2> QED
    BY <1>6, <1>8, <2>1, <2>2, <2>3 DEF ServeTurn, store
<1>9. CASE ServeResponse(c)
  <2> SUFFICES ASSUME run' = [run EXCEPT !.version = @ + 1,
                                !.actionable = @ \ {c.request.entry},
                                !.answered = @ \cup {c.request.entry}],
                      c.request.entry \in run.actionable, Answer(c, "ok", run')
               PROVE  GoesOn /\ Result
    BY <1>6, <1>9 DEF ServeResponse
  <2>1. run' \in Runs
    <3>1. run.version + 1 \in Nat /\ run.actionable \ {c.request.entry} \in SUBSET Entries
      BY <1>1 DEF Runs
    <3>2. run.answered \cup {c.request.entry} \in SUBSET Entries
      BY <1>1 DEF Runs
    <3>3. (run.actionable \ {c.request.entry}) \cap (run.answered \cup {c.request.entry}) = {}
      BY <1>1 DEF Runs
    <3> QED
      BY <1>1, <3>1, <3>2, <3>3 DEF Runs
  <2>2. run'.version = run.version + 1
    BY <1>1 DEF Runs
  <2>3. GoesOn
    BY <1>1, <2>1, <2>2 DEF GoesOn
  <2> QED
    BY <1>7, <2>3
<1>10. CASE ServeSubmission(c)
  <2>1. ASSUME run' = run, Answer(c, "ok", run)
        PROVE  GoesOn /\ Result
    BY <1>4, <1>7, <2>1
  <2>2. ASSUME run' = Over("submitted", [run EXCEPT !.version = @ + 1]), Answer(c, "ok", run')
        PROVE  GoesOn /\ Result
    <3> DEFINE next == [run EXCEPT !.version = @ + 1]
    <3>1. next \in Runs
      BY <1>1 DEF Runs
    <3>2. \A r \in Runs : Over("submitted", r) \in Runs /\ Over("submitted", r).version = r.version
      BY DEF Over, Runs
    <3>3. next.version = run.version + 1 /\ run' = Over("submitted", next)
      BY <1>1, <2>2 DEF Runs
    <3> HIDE DEF next
    <3>4. GoesOn
      BY <1>1, <3>1, <3>2, <3>3 DEF GoesOn
    <3> QED
      BY <1>7, <2>2, <3>4
  <2> QED
    BY <1>6, <1>10, <2>1, <2>2 DEF ServeSubmission, store
<1>11. CASE ServeRead(c)
  BY <1>4, <1>7, <1>11 DEF ServeRead, store
<1> QED
  BY <1>8, <1>9, <1>10, <1>11 DEF Serve

\* A turn that is played was shown, and makes the version after.
LEMMA TurnsStep ==
  ASSUME Inv, NEW c \in calls, Serve(c)
  PROVE  /\ turns' \subseteq [key : Nat, expected : Nat, week : Nat, shown : Nat]
         /\ IsFiniteSet(turns')
         /\ MadeInv' /\ DecisionPlayedOnce' /\ PlayedWeekWasShown'
<1>1. GoesOn
  BY ServeIs
<1>2. /\ run.version \in Nat /\ run.week \in Nat /\ run'.version \in Nat
      /\ \A t \in turns : t.expected \in Nat
  BY <1>1 DEF Inv, TypeOK, Runs, GoesOn
<1>3. CASE turns' = turns
  <2>1. MadeInv'
    BY <1>1, <1>2, <1>3 DEF MadeInv, GoesOn, Inv
  <2> QED
    BY <1>3, <2>1 DEF Inv, TypeOK, FiniteInv, DecisionPlayedOnce, PlayedWeekWasShown
<1>4. CASE turns' # turns
  <2> DEFINE turn == [key |-> c.request.key, expected |-> c.request.expected,
                      week |-> run.week + 1, shown |-> c.request.shown]
  <2>1. /\ c.request.kind = "turn" /\ PriorTurns(c.request) = {}
        /\ run.version = c.request.expected
        /\ run' = AfterWeek /\ turns' = turns \cup {turn}
    BY <1>4 DEF Serve, ServeTurn, ServeResponse, ServeSubmission, ServeRead, Refuse, store
  <2>2. c.request \in Turns
    BY <2>1 DEF Inv, TypeOK, Calls, Commands, Reads, Turns, Responses, Submissions
  <2>3. turn \in [key : Nat, expected : Nat, week : Nat, shown : Nat]
    BY <1>2, <2>2 DEF Turns
  <2>4. turn.shown = turn.week /\ turn.key = c.request.key
    BY <2>1 DEF Inv, NamedInv
  <2>5. turn.expected + 1 = run'.version /\ turn.week = run'.week
    BY <2>1, AfterWeekIs DEF Inv
  <2> HIDE DEF turn
  <2>6. MadeInv'
    BY <1>1, <1>2, <2>1, <2>5, AfterWeekIs DEF MadeInv, Inv
  <2>7. DecisionPlayedOnce'
    BY <2>1, <2>4 DEF PriorTurns, DecisionPlayedOnce, Inv
  <2>8. PlayedWeekWasShown'
    BY <2>1, <2>4 DEF PlayedWeekWasShown, Inv
  <2>9. IsFiniteSet(turns')
    BY <2>1, FS_AddElement DEF Inv, FiniteInv
  <2> QED
    BY <2>1, <2>3, <2>6, <2>7, <2>8, <2>9 DEF Inv, TypeOK
<1> QED
  BY <1>3, <1>4

\* The server preserves the invariant.
LEMMA ServeStep ==
  ASSUME Inv, NEW c \in calls, Serve(c)
  PROVE  Inv'
<1>1. GoesOn
  BY ServeIs
<1>2. PICK r \in Runs \cup {NoRun}, code \in {"ok", "conflict", "invalid", "failed"} :
        Answer(c, code, r) /\ (r \in Runs => SeenNext(r))
  BY ServeIs
<1>3. /\ calls' \subseteq Calls /\ IsFiniteSet(calls')
      /\ \A d \in calls' : d \in calls \/ (d.request = c.request /\ d.reply.run = r)
  BY <1>2, AnswerIs DEF Inv
<1>4. page' = page /\ troubles' = troubles
  BY DEF Serve
<1>5. run.version \in Nat /\ run.week \in Nat /\ run'.version \in Nat /\ run' \in Runs
  BY <1>1 DEF Inv, TypeOK, Runs, GoesOn
<1>6. TypeOK'
  BY <1>3, <1>4, <1>5, TurnsStep DEF Inv, TypeOK
<1>7. FiniteInv'
  BY <1>3, TurnsStep DEF FiniteInv
<1>8. SeenInv'
  <2>1. ASSUME NEW s \in Runs, Seen(s) PROVE Seen(s)'
    <3>1. s.version \in Nat
      BY DEF Runs
    <3> QED
      BY <1>1, <1>5, <2>1, <3>1 DEF Seen, GoesOn
  <2>2. page'.run \in Runs => Seen(page.run)'
    BY <1>4, <2>1 DEF Inv, SeenInv
  <2>3. ASSUME NEW d \in calls', d.reply.run \in Runs PROVE Seen(d.reply.run)'
    <3>1. d \in calls => Seen(d.reply.run)
      BY <2>3 DEF Inv, SeenInv
    <3>2. r \in Runs => Seen(r)'
      BY <1>2 DEF Seen, SeenNext
    <3> QED
      BY <1>3, <2>1, <2>3, <3>1, <3>2
  <2> QED
    BY <2>2, <2>3 DEF SeenInv
<1>9. NamedInv'
  <2>1. \A d \in calls' : \E e \in calls : d.request = e.request
    BY <1>3
  <2>2. ASSUME NEW e \in calls, e.request.kind = "turn"
        PROVE  /\ e.request.expected \in Nat
               /\ e.request.expected <= run'.version
               /\ e.request.expected = run'.version => e.request.shown = run'.week + 1
    <3>1. e.request \in Turns
      BY <2>2 DEF Inv, TypeOK, Calls, Commands, Reads, Turns, Responses, Submissions
    <3>2. e.request.expected \in Nat
      BY <3>1 DEF Turns
    <3> QED
      BY <1>1, <1>5, <2>2, <3>2 DEF GoesOn, Inv, NamedInv
  <2> QED
    BY <2>1, <2>2 DEF NamedInv
<1> QED
  BY <1>6, <1>7, <1>8, <1>9, TurnsStep DEF Inv

-----------------------------------------------------------------------------
(***************************************************************************)
(* The page, and what befalls it.                                          *)
(***************************************************************************)
\* A call that carries what the invariant says of calls.
Sound(c) ==
  /\ c \in Calls
  /\ c.reply.run \in Runs => Seen(c.reply.run)
  /\ c.request.kind = "turn" =>
       /\ c.request.expected <= run.version
       /\ c.request.expected = run.version => c.request.shown = run.week + 1

LEMMA CallsAreSound ==
  ASSUME Inv
  PROVE  \A c \in calls : Sound(c)
BY DEF Inv, TypeOK, SeenInv, NamedInv, Sound

\* No run is none.
LEMMA NoRunIsNone == NoRun \notin Runs
BY DEF NoRun, Runs

\* A call just made is sound when what it names is.
LEMMA NewCallIsSound ==
  ASSUME NEW by \in Waiting, NEW request \in Commands \cup Reads, NEW mounted \in BOOLEAN,
         request.kind = "turn" =>
           /\ request.expected <= run.version
           /\ request.expected = run.version => request.shown = run.week + 1
  PROVE  Sound([by |-> by, mounted |-> mounted, request |-> request, reply |-> NoReply])
BY NoRunIsNone DEF Sound, Calls, NoReply, Awaited

\* So is a call that reads.
LEMMA ReadIsSound ==
  ASSUME NEW by \in Waiting, NEW kind \in {"get", "history"}
  PROVE  Sound(Call(by, [kind |-> kind]))
<1>1. [kind |-> kind] \in Reads /\ [kind |-> kind].kind # "turn"
  BY DEF Reads
<1> QED
  BY <1>1, NewCallIsSound DEF Call

\* What the page does keeps the invariant when its calls and its run are sound.
LEMMA PageKeeps ==
  ASSUME Inv, UNCHANGED store, page' \in Pages, IsFiniteSet(calls'),
         troubles' \in [failures : 0 .. MaxFailures, elsewhere : 0 .. MaxElsewhere],
         page'.run \in Runs => Seen(page'.run),
         \A c \in calls' : Sound(c)
  PROVE  Inv'
<1>1. run' = run /\ turns' = turns
  BY DEF store
<1>2. TypeOK'
  BY <1>1 DEF Inv, TypeOK, Sound
<1>3. SeenInv'
  BY <1>1 DEF SeenInv, Seen, Sound
<1>4. NamedInv'
  BY <1>1 DEF NamedInv, Sound
<1>5. MadeInv' /\ DecisionPlayedOnce' /\ PlayedWeekWasShown' /\ FiniteInv'
  BY <1>1 DEF MadeInv, DecisionPlayedOnce, PlayedWeekWasShown, FiniteInv, Inv
<1> QED
  BY <1>2, <1>3, <1>4, <1>5 DEF Inv

\* A call whose panel is gone is as sound as before.
LEMMA UnmountedIsSound ==
  ASSUME NEW c, Sound(c)
  PROVE  Sound([c EXCEPT !.mounted = FALSE])
<1> DEFINE d == [c EXCEPT !.mounted = FALSE]
<1>1. c \in Calls
  BY DEF Sound
<1>2. d \in Calls /\ d.request = c.request /\ d.reply = c.reply
  BY <1>1 DEF Calls
<1> HIDE DEF d
<1>3. d.reply.run \in Runs => Seen(d.reply.run)
  BY <1>2 DEF Sound
<1>4. Sound(d)
  BY <1>2, <1>3 DEF Sound
<1> QED
  BY <1>4 DEF d

\* Detaching panels changes nothing else, and abandoning keeps requests only.
LEMMA DetachIsSound ==
  ASSUME NEW S, IsFiniteSet(S), \A c \in S : Sound(c)
  PROVE  IsFiniteSet(Detach(S)) /\ \A c \in Detach(S) : Sound(c)
<1> DEFINE f == [c \in S |-> IF c.by \in Entries THEN [c EXCEPT !.mounted = FALSE] ELSE c]
<1>1. Detach(S) = {f[c] : c \in S}
  BY DEF Detach
<1>2. IsFiniteSet({f[c] : c \in S})
  <2>1. f = [c \in S |-> f[c]]
    OBVIOUS
  <2> HIDE DEF f
  <2> QED
    BY <2>1, FiniteImage
<1>3. \A c \in S : Sound([c EXCEPT !.mounted = FALSE])
  BY UnmountedIsSound
<1>4. \A c \in Detach(S) : Sound(c)
  BY <1>3 DEF Detach
<1> QED
  BY <1>1, <1>2, <1>4

LEMMA AbandonedIsSound ==
  ASSUME NEW S, IsFiniteSet(S), \A c \in S : Sound(c)
  PROVE  IsFiniteSet(Abandoned(S)) /\ \A c \in Abandoned(S) : Sound(c)
<1> DEFINE lost == {c \in S : c.reply = NoReply /\ c.request \in Commands}
           f == [c \in lost |-> [by |-> "nobody", mounted |-> FALSE,
                                 request |-> c.request, reply |-> NoReply]]
<1>1. IsFiniteSet(lost)
  BY FS_Subset
<1>2. Abandoned(S) = {f[c] : c \in lost}
  BY DEF Abandoned
<1>3. IsFiniteSet({f[c] : c \in lost})
  <2>1. f = [c \in lost |-> f[c]]
    OBVIOUS
  <2> HIDE DEF f, lost
  <2> QED
    BY <1>1, <2>1, FiniteImage
<1>4. ASSUME NEW c \in lost
      PROVE  Sound([by |-> "nobody", mounted |-> FALSE, request |-> c.request,
                    reply |-> NoReply])
  BY NewCallIsSound DEF Sound, Waiting
<1>5. \A c \in Abandoned(S) : Sound(c)
  BY <1>4 DEF Abandoned
<1> QED
  BY <1>2, <1>3, <1>5

\* The fields of a page set apart.
LEMMA PageFields ==
  ASSUME NEW p \in Pages
  PROVE  /\ p.run \in Runs \cup {NoRun} /\ p.loading \in BOOLEAN /\ p.pending \in Nat
         /\ p.panel \in [entry : Entries \cup {"none"}, says : {"nothing", "retry"}]
BY DEF Pages

\* The answer of a call that a handler reads.
LEMMA ReceiveIs ==
  ASSUME Inv, NEW c \in calls, Receive(c)
  PROVE  /\ page' \in Pages
         /\ page'.run = page.run \/ page'.run = c.reply.run
         /\ \/ calls' = calls \ {c}
            \/ calls' = (calls \ {c}) \cup {Call("week", [kind |-> "history"])}
            \/ calls' = Detach((calls \ {c}) \cup {Call(c.by, [kind |-> "get"])})
<1> DEFINE After ==
      \/ calls' = calls \ {c}
      \/ calls' = (calls \ {c}) \cup {Call("week", [kind |-> "history"])}
      \/ calls' = Detach((calls \ {c}) \cup {Call(c.by, [kind |-> "get"])})
<1> SUFFICES page' \in Pages /\ (page'.run = page.run \/ page'.run = c.reply.run) /\ After
  OBVIOUS
<1>1. page \in Pages /\ c.reply.run \in Runs \cup {NoRun}
  BY DEF Inv, TypeOK, Calls, Awaited, Replies
<1>2. ASSUME NEW p \in Pages, Reload(c, p), p.run = page.run
      PROVE  page' \in Pages /\ page'.run = page.run /\ After
  BY <1>2 DEF Reload, Pages, EmptyPanel
<1>3. CASE ReceiveTurn(c)
  <2>1. [page EXCEPT !.pending = NoSubmission] \in Pages
    BY <1>1 DEF Pages, NoSubmission
  <2>2. [page EXCEPT !.pending = NoSubmission].run = page.run
    BY <1>1 DEF Pages
  <2>3. CASE page' = [page EXCEPT !.run = c.reply.run, !.pending = NoSubmission]
    <3>1. page' \in Pages
      BY <1>1, <2>3 DEF Pages, NoSubmission
    <3>2. page'.run = c.reply.run
      BY <1>1, <2>3 DEF Pages
    <3>3. After
      BY <1>3, <1>2, <2>1, <2>2 DEF ReceiveTurn
    <3> QED
      BY <3>1, <3>2, <3>3
  <2> QED
    BY <1>1, <1>3, <1>2, <2>1, <2>2, <2>3 DEF ReceiveTurn
<1>4. CASE ReceiveRead(c)
  BY <1>1, <1>4 DEF ReceiveRead, Pages
<1>5. CASE ReceiveSubmission(c)
  BY <1>1, <1>5 DEF ReceiveSubmission, Pages
<1>6. CASE ReceiveResponse(c)
  <2>1. CASE c.reply.code = "ok"
    <3>1. /\ page' = [page EXCEPT !.run = c.reply.run,
                                  !.panel.entry = IF c.mounted THEN "none" ELSE @]
          /\ calls' = calls \ {c}
      BY <1>6, <2>1 DEF ReceiveResponse
    <3>2. page' \in Pages
      BY <1>1, <3>1 DEF Pages
    <3>3. page'.run = c.reply.run
      BY <1>1, <3>1 DEF Pages
    <3> QED
      BY <3>1, <3>2, <3>3
  <2>2. CASE c.reply.code = "conflict"
    BY <1>1, <1>6, <1>2, <2>2 DEF ReceiveResponse
  <2>3. CASE c.reply.code \in {"invalid", "failed"}
    BY <1>1, <1>6, <2>3 DEF ReceiveResponse, Pages
  <2> QED
    BY <1>6, <2>1, <2>2, <2>3 DEF ReceiveResponse
<1> QED
  BY <1>3, <1>4, <1>5, <1>6 DEF Receive

\* What the page does with replies preserves the invariant.
LEMMA ReceiveStep ==
  ASSUME Inv, NEW c \in calls, Receive(c)
  PROVE  Inv'
<1>1. UNCHANGED store /\ troubles' = troubles
  BY DEF Receive
<1>2. c.by \in Waiting
  BY DEF Inv, TypeOK, Calls
<1>3. IsFiniteSet(calls \ {c}) /\ \A d \in calls \ {c} : Sound(d)
  BY CallsAreSound, FS_RemoveElement DEF Inv, FiniteInv
<1>4. ASSUME NEW d, Sound(d)
      PROVE  /\ IsFiniteSet((calls \ {c}) \cup {d})
             /\ \A e \in (calls \ {c}) \cup {d} : Sound(e)
  BY <1>3, <1>4, FS_AddElement
<1>5. Sound(Call("week", [kind |-> "history"])) /\ Sound(Call(c.by, [kind |-> "get"]))
  BY <1>2, ReadIsSound DEF Waiting
<1>6. IsFiniteSet(calls') /\ \A d \in calls' : Sound(d)
  <2>1. CASE calls' = calls \ {c}
    BY <1>3, <2>1
  <2>2. CASE calls' = (calls \ {c}) \cup {Call("week", [kind |-> "history"])}
    BY <1>4, <1>5, <2>2
  <2>3. CASE calls' = Detach((calls \ {c}) \cup {Call(c.by, [kind |-> "get"])})
    BY <1>4, <1>5, <2>3, DetachIsSound
  <2> QED
    BY <2>1, <2>2, <2>3, ReceiveIs
<1>7. page'.run \in Runs => Seen(page'.run)
  <2>1. page.run \in Runs => Seen(page.run)
    BY DEF Inv, SeenInv
  <2>2. c.reply.run \in Runs => Seen(c.reply.run)
    BY DEF Inv, SeenInv
  <2> QED
    BY <2>1, <2>2, ReceiveIs
<1> QED
  BY <1>1, <1>6, <1>7, ReceiveIs, PageKeeps DEF Inv, TypeOK

\* Failures and other tabs preserve the invariant.
LEMMA FailStep ==
  ASSUME Inv, NEW c \in calls, Fail(c)
  PROVE  Inv'
<1> DEFINE failed == [c EXCEPT !.reply = [code |-> "failed", run |-> NoRun]]
<1>1. PICK late \in SUBSET Abandoned({c}) :
        calls' = (calls \ {c}) \cup late \cup {failed}
  BY DEF Fail
<1>2. Sound(c) /\ c \in Calls
  BY CallsAreSound DEF Sound
<1>3. failed \in Calls /\ failed.request = c.request /\ failed.reply.run = NoRun
  BY <1>2 DEF Calls, Replies
<1> HIDE DEF failed
<1>4. Sound(failed)
  BY <1>2, <1>3, NoRunIsNone DEF Sound
<1>5. IsFiniteSet(late) /\ \A d \in late : Sound(d)
  <2>1. IsFiniteSet({c})
    BY FS_Singleton
  <2> QED
    BY <1>2, <2>1, AbandonedIsSound, FS_Subset
<1>6. IsFiniteSet(calls \ {c}) /\ \A d \in calls \ {c} : Sound(d)
  BY CallsAreSound, FS_RemoveElement DEF Inv, FiniteInv
<1>7. IsFiniteSet(calls')
  <2>1. IsFiniteSet((calls \ {c}) \cup late)
    BY <1>5, <1>6, FS_Union
  <2> QED
    BY <1>1, <2>1, FS_AddElement
<1>8. \A d \in calls' : Sound(d)
  BY <1>1, <1>4, <1>5, <1>6
<1>9. troubles' \in [failures : 0 .. MaxFailures, elsewhere : 0 .. MaxElsewhere]
  BY BoundsAssumption DEF Fail, Inv, TypeOK
<1> QED
  BY <1>7, <1>8, <1>9, PageKeeps DEF Fail, Inv, TypeOK, SeenInv

LEMMA ElsewhereStep ==
  ASSUME Inv, Elsewhere
  PROVE  Inv'
<1> DEFINE turn == [kind |-> "turn", key |-> FreshKey, expected |-> run.version,
                    shown |-> run.week + 1]
<1>1. run.version \in Nat /\ run.week \in Nat /\ run.actionable \subseteq Entries
  BY DEF Inv, TypeOK, Runs
<1>2. PICK request \in {turn}
              \cup [kind : {"respond"}, expected : {run.version}, entry : run.actionable] :
        calls' = calls \cup {[Call("nobody", request) EXCEPT !.mounted = FALSE]}
  BY DEF Elsewhere
<1>3. turn \in Turns /\ turn.expected = run.version /\ turn.shown = run.week + 1
  BY <1>1, FreshKeyType DEF Inv, Turns
<1> HIDE DEF turn
<1>4. /\ request \in Commands
      /\ request.kind = "turn" =>
           request.expected = run.version /\ request.shown = run.week + 1
  <2>1. CASE request = turn
    BY <1>3, <2>1 DEF Commands
  <2>2. CASE request \in [kind : {"respond"}, expected : {run.version}, entry : run.actionable]
    BY <1>1, <2>2 DEF Commands, Responses
  <2> QED
    BY <1>2, <2>1, <2>2
<1>5. Sound(Call("nobody", request))
  <2>1. request.kind = "turn" =>
          request.expected <= run.version
            /\ (request.expected = run.version => request.shown = run.week + 1)
    BY <1>1, <1>4
  <2> QED
    BY <1>4, <2>1, NewCallIsSound DEF Waiting, Call
<1>6. Sound([Call("nobody", request) EXCEPT !.mounted = FALSE])
  BY <1>5, UnmountedIsSound
<1>7. IsFiniteSet(calls') /\ \A d \in calls' : Sound(d)
  BY <1>2, <1>6, CallsAreSound, FS_AddElement DEF Inv, FiniteInv
<1>8. troubles' \in [failures : 0 .. MaxFailures, elsewhere : 0 .. MaxElsewhere]
  BY BoundsAssumption DEF Elsewhere, Inv, TypeOK
<1> QED
  BY <1>7, <1>8, PageKeeps DEF Elsewhere, Inv, TypeOK, SeenInv

\* So do the student's buttons.
LEMMA PressWeekStep ==
  ASSUME Inv, PressWeek
  PROVE  Inv'
<1> DEFINE key == IF page.pending = NoSubmission THEN FreshKey ELSE page.pending
           request == [kind |-> "turn", key |-> page'.pending,
                       expected |-> page.run.version, shown |-> page.run.week + 1]
<1>1. page \in Pages /\ page.run \in Runs /\ Seen(page.run)
  BY DEF Inv, TypeOK, Pages, PressWeek, Shown, SeenInv
<1>2. page.run.version \in Nat /\ page.run.week \in Nat
  BY <1>1 DEF Runs
<1>3. key \in Nat
  BY <1>1, FreshKeyType DEF Inv, Pages
<1>4. page' = [page EXCEPT !.pending = key]
  BY DEF PressWeek
<1> HIDE DEF key
<1>5. page' \in Pages /\ page'.pending \in Nat /\ page'.run = page.run
  BY <1>1, <1>3, <1>4 DEF Pages
<1>6. calls' = calls \cup {Call("week", request)}
  BY DEF PressWeek, Send
<1>7. /\ request \in Turns
      /\ request.expected = page.run.version /\ request.shown = page.run.week + 1
  BY <1>2, <1>5 DEF Turns
<1> HIDE DEF request
<1>8. Sound(Call("week", request))
  <2>1. /\ request.expected <= run.version
        /\ request.expected = run.version => request.shown = run.week + 1
    BY <1>1, <1>7 DEF Seen
  <2> QED
    BY <1>7, <2>1, NewCallIsSound DEF Waiting, Call, Commands
<1>9. IsFiniteSet(calls') /\ \A d \in calls' : Sound(d)
  BY <1>6, <1>8, CallsAreSound, FS_AddElement DEF Inv, FiniteInv
<1> QED
  BY <1>1, <1>5, <1>9, PageKeeps DEF PressWeek, Inv, TypeOK

LEMMA PressDiscardStep ==
  ASSUME Inv, PressDiscard
  PROVE  Inv'
<1>1. page \in Pages /\ page' = [page EXCEPT !.pending = NoSubmission]
  BY DEF Inv, TypeOK, PressDiscard
<1>2. page' \in Pages /\ page'.run = page.run
  BY <1>1 DEF Pages, NoSubmission
<1> QED
  BY <1>2, CallsAreSound, PageKeeps DEF PressDiscard, Inv, FiniteInv, TypeOK, SeenInv

LEMMA PressSubmitStep ==
  ASSUME Inv, PressSubmit
  PROVE  Inv'
<1> DEFINE request == [kind |-> "submit", expected |-> page.run.version]
<1>1. page.run \in Runs
  BY DEF Inv, TypeOK, Pages, PressSubmit, Shown
<1>2. request \in Submissions /\ request.kind # "turn"
  BY <1>1 DEF Submissions, Runs
<1>3. calls' = calls \cup {Call("week", request)}
  BY DEF PressSubmit, Send
<1> HIDE DEF request
<1>4. Sound(Call("week", request))
  BY <1>2, NewCallIsSound DEF Waiting, Call, Commands
<1>5. IsFiniteSet(calls') /\ \A d \in calls' : Sound(d)
  BY <1>3, <1>4, CallsAreSound, FS_AddElement DEF Inv, FiniteInv
<1> QED
  BY <1>5, PageKeeps DEF PressSubmit, Inv, TypeOK, SeenInv

LEMMA PressEntryStep ==
  ASSUME Inv, NEW e \in Entries, PressEntry(e)
  PROVE  Inv'
<1> DEFINE request == [kind |-> "respond", expected |-> page.run.version, entry |-> e]
<1>1. page \in Pages /\ page.run \in Runs
  BY DEF Inv, TypeOK, Pages, PressEntry, Pressable, Shown
<1>2. request \in Responses /\ request.kind # "turn"
  BY <1>1 DEF Responses, Runs
<1>3. calls' = calls \cup {Call(e, request)}
  BY DEF PressEntry, Send
<1> HIDE DEF request
<1>4. Sound(Call(e, request))
  BY <1>2, NewCallIsSound DEF Waiting, Call, Commands
<1>5. IsFiniteSet(calls') /\ \A d \in calls' : Sound(d)
  BY <1>3, <1>4, CallsAreSound, FS_AddElement DEF Inv, FiniteInv
<1>6. page' \in Pages /\ page'.run = page.run
  BY <1>1 DEF PressEntry, Pages
<1> QED
  BY <1>5, <1>6, PageKeeps DEF PressEntry, Inv, TypeOK, SeenInv

LEMMA ReopenStep ==
  ASSUME Inv, Reopen
  PROVE  Inv'
<1>1. PICK late \in SUBSET Abandoned(calls \ Unawaited) :
        calls' = Unawaited \cup late \cup {Call("open", [kind |-> "get"])}
  BY DEF Reopen
<1>2. /\ IsFiniteSet(Unawaited) /\ IsFiniteSet(calls \ Unawaited)
      /\ Unawaited \subseteq calls
  BY FS_Subset DEF Inv, FiniteInv, Unawaited
<1>3. IsFiniteSet(late) /\ \A d \in late : Sound(d)
  BY <1>2, CallsAreSound, AbandonedIsSound, FS_Subset
<1>4. IsFiniteSet(calls')
  BY <1>1, <1>2, <1>3, FS_Union, FS_AddElement
<1>5. \A d \in calls' : Sound(d)
  <2>1. Sound(Call("open", [kind |-> "get"]))
    BY ReadIsSound DEF Waiting
  <2> QED
    BY <1>1, <1>2, <1>3, <2>1, CallsAreSound
<1>6. page' \in Pages /\ page'.run = NoRun
  BY DEF Reopen, OpenedPage, Pages, NoSubmission, EmptyPanel
<1>7. troubles' \in [failures : 0 .. MaxFailures, elsewhere : 0 .. MaxElsewhere]
  BY BoundsAssumption DEF Reopen, Inv, TypeOK
<1> QED
  BY <1>4, <1>5, <1>6, <1>7, NoRunIsNone, PageKeeps DEF Reopen

-----------------------------------------------------------------------------
(***************************************************************************)
(* The theorems.                                                           *)
(***************************************************************************)
\* The inductive invariant holds in every reachable state.
THEOREM PageInvariant == Spec => []Inv
<1>1. Init => Inv
  <2> SUFFICES ASSUME Init PROVE Inv
    OBVIOUS
  <2>1. run \in Runs
    BY DEF Init, Runs
  <2>2. page \in Pages /\ page.run = NoRun
    BY DEF Init, OpenedPage, Pages, NoSubmission, EmptyPanel
  <2>3. \A c \in calls : Sound(c)
    BY ReadIsSound DEF Init, Waiting
  <2>4. FiniteInv
    BY FS_Singleton, FS_EmptySet DEF FiniteInv, Init
  <2>5. TypeOK
    BY <2>1, <2>2, <2>3, BoundsAssumption DEF TypeOK, Init, Sound
  <2>6. SeenInv /\ NamedInv
    BY <2>2, <2>3, NoRunIsNone DEF SeenInv, NamedInv, Sound
  <2>7. MadeInv /\ DecisionPlayedOnce /\ PlayedWeekWasShown
    BY DEF Init, MadeInv, DecisionPlayedOnce, PlayedWeekWasShown
  <2> QED
    BY <2>4, <2>5, <2>6, <2>7 DEF Inv
<1>2. Inv /\ [Next]_vars => Inv'
  <2> SUFFICES ASSUME Inv, [Next]_vars PROVE Inv'
    OBVIOUS
  <2>1. CASE UNCHANGED vars
    <3>1. UNCHANGED <<run, turns, page, calls, troubles>>
      BY <2>1 DEF vars
    <3> QED
      BY <3>1, CallsAreSound, PageKeeps DEF Inv, FiniteInv, TypeOK, SeenInv, store
  <2> QED
    BY <2>1, ServeStep, ReceiveStep, FailStep, ElsewhereStep, PressWeekStep, PressDiscardStep,
       PressSubmitStep, PressEntryStep, ReopenStep DEF Next
<1> QED
  BY <1>1, <1>2, PTL DEF Spec

\* What the page shows, what is on its way and what the server has played keep
\* their types, whatever fails and whatever other tabs do.
THEOREM PageTyped == Spec => []TypeOK
BY PageInvariant, PTL DEF Inv

\* However often a decision is sent again, after lost replies, late requests or
\* conflicts, it is played for one week (SimulationV2.jsx:157, service.py:352).
THEOREM DecisionsArePlayedOnce == Spec => []DecisionPlayedOnce
BY PageInvariant, PTL DEF Inv

\* A week is played only from a page that named it: every run the page can show
\* has the week of its version (simulations.py:247).
THEOREM PlayedWeeksWereShown == Spec => []PlayedWeekWasShown
BY PageInvariant, PTL DEF Inv

=============================================================================
