--------------------------- MODULE ContentResolver ---------------------------
(***************************************************************************)
(* Which authored entries a checkpoint delivers:                           *)
(* backend/app/authored_content/resolver.py and what it calls.             *)
(*                                                                         *)
(* The script is the sequence of a published scenario revision.  It never  *)
(* changes while a run is played, so it is a constant: every entry has a   *)
(* trigger (a checkpoint), a place in the order of priority and ordinal,   *)
(* a kind, a required flag and the entries it depends on.  The texts,      *)
(* options and effects of the entries are left out.                        *)
(***************************************************************************)
EXTENDS Integers, FiniteSets

CONSTANTS
  Entries,      \* the entries of the sequence
  Horizon,      \* bound: the last week a trigger may name or a run may reach
  Trigger,      \* the checkpoint of an entry
  Priority,     \* its priority
  Ordinal,      \* its place in the sequence
  Kind,         \* "question", "fragment" or "event"
  Required,     \* whether the referenced object is required
  DependsOn     \* the entries that must be completed before it is delivered

-----------------------------------------------------------------------------
(***************************************************************************)
(* Checkpoints, by their sort keys.                                        *)
(***************************************************************************)
RunStarted == <<0, 0>>
BeforeWeek(w) == <<w, 1>>
AfterWeek(w) == <<w, 2>>
RunFinished == <<Horizon + 1, 0>>

Checkpoints ==
  {RunStarted, RunFinished} \cup {BeforeWeek(w) : w \in 1 .. Horizon}
                            \cup {AfterWeek(w) : w \in 1 .. Horizon}

NotAfter(a, b) == a[1] < b[1] \/ (a[1] = b[1] /\ a[2] <= b[2])

\* What scenarios/models.py validates before a revision can be published; the
\* last conjunct says that the dependencies are acyclic.
ValidScript ==
  /\ Horizon \in Nat \ {0} /\ IsFiniteSet(Entries)
  /\ Trigger \in [Entries -> Checkpoints]
  /\ Priority \in [Entries -> Int]
  /\ Ordinal \in [Entries -> Nat]
  /\ \A e, f \in Entries : e # f => Ordinal[e] # Ordinal[f]
  /\ Kind \in [Entries -> {"question", "fragment", "event"}]
  /\ Required \in [Entries -> BOOLEAN]
  /\ \A e \in Entries : Kind[e] = "event" => ~Required[e]
  /\ DependsOn \in [Entries -> SUBSET Entries]
  /\ \A e \in Entries : \A f \in DependsOn[e] : NotAfter(Trigger[f], Trigger[e])
  /\ \A S \in (SUBSET Entries) \ {{}} : \E e \in S : DependsOn[e] \cap S = {}

ASSUME ScriptAssumption == ValidScript

-----------------------------------------------------------------------------
(***************************************************************************)
(* A status per entry.  A pending entry is one without a delivery row: a   *)
(* row is actionable or completed.                                         *)
(***************************************************************************)
Statuses == [Entries -> {"pending", "actionable", "completed"}]

Undelivered == [e \in Entries |-> "pending"]

Delivered(status) == {e \in Entries : status[e] # "pending"}

Completed(status) == {e \in Entries : status[e] = "completed"}

\* Events and optional fragments complete as they are delivered.
Automatic(e) == Kind[e] = "event" \/ (Kind[e] = "fragment" /\ ~Required[e])

\* Mutant: entries of the week that follows are eligible too.
OneWeekAhead(e, reached, terminal) ==
  /\ Trigger[e] = RunFinished => terminal
  /\ NotAfter(Trigger[e], <<reached[1] + 1, reached[2]>>)

\* run_finished entries wait for the end of the run, whatever is reached.
IsEligible(e, reached, terminal) ==
  /\ Trigger[e] = RunFinished => terminal
  /\ NotAfter(Trigger[e], reached)

\* Mutant: a dependency counts as soon as it is delivered.
DependenciesDelivered(e, status) == DependsOn[e] \subseteq Delivered(status)

DependenciesCompleted(e, status) == DependsOn[e] \subseteq Completed(status)

Precedes(e, f) ==
  \/ Priority[e] < Priority[f]
  \/ Priority[e] = Priority[f] /\ Ordinal[e] < Ordinal[f]

Candidates(status, reached, terminal) ==
  {e \in Entries \ Completed(status) :
     IsEligible(e, reached, terminal) /\ DependenciesCompleted(e, status)}

\* Of the required candidates only the first is actionable.
Actionable(status, reached, terminal) ==
  LET candidates == Candidates(status, reached, terminal)
  IN  {e \in candidates :
         Required[e] => \A f \in candidates : Required[f] => ~Precedes(f, e)}

\* The actionable entries that have no delivery row yet.
Fresh(status, reached, terminal) ==
  Actionable(status, reached, terminal) \ Delivered(status)

\* One delivery row per fresh entry.
Deliver(status, fresh) ==
  [e \in Entries |->
     IF e \notin fresh THEN status[e]
     ELSE IF Automatic(e) THEN "completed" ELSE "actionable"]

\* The required entries waiting for the student.
Blocking(status) == {e \in Entries : Required[e] /\ status[e] = "actionable"}

=============================================================================
