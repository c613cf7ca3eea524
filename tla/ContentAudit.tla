---------------------------- MODULE ContentAudit ----------------------------
(***************************************************************************)
(* Authored content from the author to the professor's audit: what         *)
(* scenarios/models.py accepts, what a run of it delivers and records      *)
(* (simulations/service.py), and what the read-only replay of              *)
(* authored_content/replay.py makes of the records.                        *)
(*                                                                         *)
(* The script is a variable that is chosen once, so that the run is played *)
(* with every script of a set that can be published.  Its entries are      *)
(* their positions in the sequence.  One student plays, request by request *)
(* (SimulationRuns has what overlapping ones do), and the audit may be     *)
(* opened after any of them.  Time stamps are taken to be distinct.        *)
(***************************************************************************)
EXTENDS Integers, Sequences, FiniteSets, SequencesExt

CONSTANTS
  N,          \* the length of the sequences
  Weeks,      \* the last week of the run
  Scripts,    \* what an author may try to publish
  Options     \* the options of the questions, in the order they are defined in

\* What the author writes: the form is the kind of the object with its flags.
Forms == {"event", "hidden", "note", "fragment", "question", "survey"}
Entries == 1 .. N

VARIABLES
  script,      \* the script of the run
  status,      \* what its entries are: pending, actionable or completed
  week,        \* the weeks that were played
  ended,       \* the run has ended
  agenda,      \* the checkpoints that a command has still to resolve
  round,       \* the entries this round still delivers
  effects,     \* the audit of effects, in the order they were applied
  responses    \* the recorded responses

audit == <<script, status, week, ended, agenda, round, effects, responses>>

\* The resolver, for the script of this run.
R == INSTANCE ContentResolver WITH
  Horizon <- Weeks, Trigger <- script.trigger, Priority <- script.priority,
  Ordinal <- [e \in Entries |-> e],
  Kind <- [e \in Entries |-> CASE script.form[e] \in {"event", "hidden"} -> "event"
                              [] script.form[e] \in {"note", "fragment"} -> "fragment"
                              [] OTHER -> "question"],
  Required <- [e \in Entries |-> script.form[e] \in {"fragment", "question"}],
  DependsOn <- script.dependsOn

ASSUME AuditAssumption ==
  /\ N \in Nat /\ Weeks \in Nat \ {0} /\ Options \in Seq(STRING)
  /\ \A s \in Scripts :
       /\ s.trigger \in [Entries -> R!Checkpoints] /\ s.priority \in [Entries -> Int]
       /\ s.form \in [Entries -> Forms] /\ s.dependsOn \in [Entries -> SUBSET Entries]

-----------------------------------------------------------------------------
(***************************************************************************)
(* What can be published: AuthoredContentDefinition.                       *)
(***************************************************************************)
\* The validator has sort keys of its own.
Checkpoint(trigger) ==
  IF trigger[1] \in 1 .. Weeks THEN <<trigger[1], trigger[2] - 1>> ELSE trigger

Later(a, b) == a[1] > b[1] \/ (a[1] = b[1] /\ a[2] > b[2])

\* Mutant: only an entry that depends on itself is refused.
NoSelfDependency(s) == \A e \in Entries : e \notin s.dependsOn[e]

\* The walk through the dependencies never meets an entry it is visiting.
Acyclic(s) == \A S \in (SUBSET Entries) \ {{}} : \E e \in S : s.dependsOn[e] \cap S = {}

Publishable(s) ==
  /\ \A e \in Entries : \A d \in s.dependsOn[e] :
       d # e /\ ~Later(Checkpoint(s.trigger[d]), Checkpoint(s.trigger[e]))
  /\ Acyclic(s)

-----------------------------------------------------------------------------
(***************************************************************************)
(* Effects, answers and their records.                                     *)
(***************************************************************************)
NoPresentation == [messages |-> <<>>, theme |-> 0]

\* Every event shows a message and sets the theme; a hidden one has no effect.
EffectsOf(e) ==
  IF script.form[e] = "event" THEN <<[type |-> "message", of |-> e], [type |-> "theme", of |-> e]>>
  ELSE <<>>

ApplyEffect(presentation, effect) ==
  CASE effect.type = "message" -> [presentation EXCEPT !.messages = Append(@, effect.of)]
    [] effect.type = "theme" -> [presentation EXCEPT !.theme = effect.of]

\* The presentation after each of a sequence of effects, and after all of them.
Stages(presentation, sequence) ==
  LET after[i \in 0 .. Len(sequence)] ==
        IF i = 0 THEN presentation ELSE ApplyEffect(after[i - 1], sequence[i])
  IN  after

Applied(presentation, sequence) == Stages(presentation, sequence)[Len(sequence)]

\* Mutant: the last effect is not read back before it is flushed.
UnflushedPresentation ==
  LET flushed == SubSeq(effects, 1, Len(effects) - 1)
  IN  Applied(NoPresentation, [i \in DOMAIN flushed |-> flushed[i].effect])

Presentation == Applied(NoPresentation, [i \in DOMAIN effects |-> effects[i].effect])

\* One row per effect; a digest stands for the presentation itself.
AuditRows(e) ==
  LET list == EffectsOf(e)
      upTo(i) == Applied(Presentation, SubSeq(list, 1, i))
  IN  [i \in DOMAIN list |->
         [entry |-> e, effect |-> list[i], before |-> upTo(i - 1), after |-> upTo(i)]]

\* An answer names options of the question, each once; a survey may be left empty.
Answers(e) ==
  {a \in UNION {[1 .. n -> {Options[i] : i \in DOMAIN Options}] : n \in 0 .. Len(Options)} :
     /\ \A i, j \in DOMAIN a : a[i] = a[j] => i = j
     /\ script.form[e] = "question" => a # <<>>}

\* The options that were chosen, in the order of the definition: of the first
\* ones, and of all.
Kept(chosen) ==
  LET upTo[i \in 0 .. Len(Options)] ==
        IF i = 0 THEN <<>>
        ELSE IF Options[i] \in chosen THEN Append(upTo[i - 1], Options[i]) ELSE upTo[i - 1]
  IN  upTo

NormalizeAnswer(answer) == Kept(ToSet(answer))[Len(Options)]

-----------------------------------------------------------------------------
(***************************************************************************)
(* The run.                                                                *)
(***************************************************************************)
\* A checkpoint to resolve: the gate of a week, its close, the end of the run
\* (the only terminal one), or that of an entry that was responded to.
Resolve(checkpoint, as) == [at |-> checkpoint, as |-> as]

Idle == agenda = <<>>

AuditInitWith(scripts) ==
  /\ script \in scripts
  /\ status = [e \in Entries |-> "pending"]
  /\ week = 0 /\ ended = FALSE
  /\ agenda = <<Resolve(R!RunStarted, "start")>> /\ round = {}
  /\ effects = <<>> /\ responses = {}

Published == {s \in Scripts : Publishable(s)}

AuditInit == AuditInitWith(Published)

Actionables == {e \in Entries : status[e] = "actionable"}

\* A week is asked for: its gate comes first.
Turn ==
  /\ Idle /\ ~ended
  /\ agenda' = <<Resolve(R!BeforeWeek(week + 1), "gate"), Resolve(R!AfterWeek(week + 1), "close")>>
  /\ UNCHANGED <<script, status, week, ended, round, effects, responses>>

\* The student hands the run in before its end.
Submit ==
  /\ Idle /\ ~ended
  /\ ended' = TRUE /\ agenda' = <<Resolve(R!RunFinished, "end")>>
  /\ UNCHANGED <<script, status, week, round, effects, responses>>

\* What the next round has to deliver.
FreshNow == R!Fresh(status, Head(agenda).at, Head(agenda).as = "end")

\* A round that completed nothing is the last: the next one has nothing fresh.
OpenRound ==
  /\ ~Idle /\ round = {} /\ FreshNow # {}
  /\ round' = FreshNow
  /\ UNCHANGED <<script, status, week, ended, agenda, effects, responses>>

\* The next entry of the round, in the order of the sequence.
DeliverNext ==
  LET e == CHOOSE e \in round : \A f \in round : e <= f
  IN  /\ round # {}
      /\ status' = R!Deliver(status, {e})
      /\ effects' = effects \o AuditRows(e)
      /\ round' = round \ {e}
      /\ UNCHANGED <<script, week, ended, agenda, responses>>

Resolved == ~Idle /\ round = {} /\ FreshNow = {}

\* The gate of a week: blocked, or played, the run ending sooner or later.
Gate ==
  /\ Resolved /\ Head(agenda).as = "gate"
  /\ IF R!Blocking(status) # {}
       THEN agenda' = <<>> /\ UNCHANGED <<week, ended>>
       ELSE /\ week' = week + 1
            /\ \/ week' < Weeks /\ ended' = FALSE /\ agenda' = Tail(agenda)
               \/ ended' = TRUE /\ agenda' = Append(Tail(agenda), Resolve(R!RunFinished, "end"))
  /\ UNCHANGED <<script, status, round, effects, responses>>

\* Any other checkpoint: the next one of the command, or its end.
Pass ==
  /\ Resolved /\ Head(agenda).as # "gate"
  /\ agenda' = Tail(agenda)
  /\ UNCHANGED <<script, status, week, ended, round, effects, responses>>

\* An answer or an acknowledgement: the checkpoint of the entry is resolved again.
Respond(e) ==
  /\ Idle /\ status[e] = "actionable"
  /\ \E answer \in IF script.form[e] = "fragment" THEN {<<"acknowledged">>} ELSE Answers(e) :
       responses' = responses \cup
         {[entry |-> e,
           value |-> IF script.form[e] = "fragment" THEN answer ELSE NormalizeAnswer(answer)]}
  /\ status' = [status EXCEPT ![e] = "completed"]
  /\ agenda' = <<Resolve(script.trigger[e], "response")>>
  /\ UNCHANGED <<script, week, ended, round, effects>>

AuditNext ==
  Turn \/ Submit \/ OpenRound \/ DeliverNext \/ Gate \/ Pass \/ \E e \in Entries : Respond(e)

AuditSpec == AuditInit /\ [][AuditNext]_audit

-----------------------------------------------------------------------------
(***************************************************************************)
(* The audit: verify_replay over the rows as load_professor_content_audit  *)
(* orders them, deliveries by their place in the sequence.                 *)
(***************************************************************************)
Deliveries == R!Delivered(status)

Ahead(e, f) ==
  LET s == script
  IN  \/ Later(s.trigger[f], s.trigger[e])
      \/ s.trigger[e] = s.trigger[f]
           /\ (s.priority[e] < s.priority[f] \/ (s.priority[e] = s.priority[f] /\ e < f))

\* A delivery whose key is smaller than that of the delivery listed before it.
OutOfOrder ==
  \E e, f \in Deliveries :
    /\ e < f /\ \A g \in Deliveries : g <= e \/ g >= f
    /\ Ahead(f, e)

\* A delivery one of whose dependencies is not completed where it is listed.
OutOfDependency ==
  \E e \in Deliveries : \E d \in script.dependsOn[e] : ~(d < e /\ status[d] = "completed")

\* The effects, applied again one after the other.
EffectsDiffer ==
  \E i \in DOMAIN effects :
    LET before == Applied(NoPresentation, [j \in 1 .. i - 1 |-> effects[j].effect])
    IN  effects[i].before # before \/ effects[i].after # ApplyEffect(before, effects[i].effect)

ResponsesDiffer ==
  \E r \in responses : script.form[r.entry] # "fragment" /\ NormalizeAnswer(r.value) # r.value

Divergences ==
  {d \in {"ordering", "dependencies", "projection", "normalized_response"} :
     CASE d = "ordering" -> OutOfOrder
       [] d = "dependencies" -> OutOfDependency
       [] d = "projection" -> EffectsDiffer
       [] d = "normalized_response" -> ResponsesDiffer}

-----------------------------------------------------------------------------
(***************************************************************************)
(* Properties.                                                             *)
(***************************************************************************)
\* The sequence lists its entries in the order of their checkpoints and
\* priorities, and what they depend on before them.
ListedInOrder ==
  \A e, f \in Entries : (e < f => Ahead(e, f)) /\ (e \in script.dependsOn[f] => e < f)

\* Whatever is published and however it is played, the replay repeats every
\* effect and every answer; and it finds nothing at all in a script that is
\* listed in order (verify_replay).
OnlyOrderDiverges ==
  Idle => /\ Divergences \subseteq {"ordering", "dependencies"}
          /\ ListedInOrder => Divergences = {}

\* What is due at a checkpoint.
Due(at, as) ==
  {e \in Entries : R!NotAfter(script.trigger[e], at) /\ (script.trigger[e] = R!RunFinished => as = "end")}

\* When a checkpoint has been resolved and nothing waits for the student, all
\* that was due has been delivered and completed.
ResolvedIsComplete ==
  Resolved /\ Actionables = {} => Due(Head(agenda).at, Head(agenda).as) \subseteq R!Completed(status)

\* Entries that depend on one another and on no survey, which may be left alone.
Firm(entries) ==
  \A e \in entries : \A d \in script.dependsOn[e] : d \in entries /\ script.form[d] # "survey"

\* What was due before a week that was played is completed, or a survey still
\* open, in every part of the script that no survey holds up.
FirmIsInTime ==
  week > 0 =>
    \A entries \in SUBSET Entries :
      Firm(entries) =>
        \A e \in entries \cap Due(R!BeforeWeek(week), "gate") :
          \/ status[e] = "completed"
          \/ status[e] = "actionable" /\ script.form[e] = "survey"

\* What the author may publish never locks itself, however its entries depend
\* on each other and are ordered, and a week is played only when what it needs
\* is complete (validate_content_graph, resolve).  What waits for a survey may
\* come late or be lost, see the README.
NothingIsLost == ResolvedIsComplete /\ FirmIsInTime

\* The records of a run that nobody tampered with are verified.  The code does
\* not keep this: see the README.
UntouchedRunVerifies == Idle => Divergences = {}

=============================================================================
