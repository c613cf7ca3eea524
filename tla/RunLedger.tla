------------------------------ MODULE RunLedger ------------------------------
(***************************************************************************)
(* What a run promises its student and the professor: a ledger to which    *)
(* every successful command adds one entry and one to the version, until   *)
(* the run is over.  Only responses to content may still come then; the    *)
(* weeks played, the status and the result are final.                      *)
(***************************************************************************)
EXTENDS Integers, Sequences

CONSTANTS Decisions, Entries, Outcome(_)

VARIABLES play, answered, status, version, result

ledger == <<play, answered, status, version, result>>

NoResult == [play |-> <<>>, submitted |-> FALSE]

Init ==
  /\ play = <<>>
  /\ answered = {}
  /\ status = "absent"
  /\ version = 0
  /\ result = NoResult

Start ==
  /\ status = "absent"
  /\ status' = "active"
  /\ version' = 1
  /\ UNCHANGED <<play, answered, result>>

\* A week is played on from the weeks before; the last one brings the result.
PlayWeek ==
  /\ status = "active"
  /\ \E d \in Decisions : play' = Append(play, d)
  /\ status' = Outcome(play')
  /\ result' = IF status' = "active" THEN result ELSE [play |-> play', submitted |-> FALSE]
  /\ version' = version + 1
  /\ UNCHANGED answered

\* An entry is responded to once.
Respond ==
  /\ status # "absent"
  /\ \E e \in Entries \ answered : answered' = answered \cup {e}
  /\ version' = version + 1
  /\ UNCHANGED <<play, status, result>>

Submit ==
  /\ status = "active"
  /\ status' = "submitted"
  /\ result' = [play |-> play, submitted |-> TRUE]
  /\ version' = version + 1
  /\ UNCHANGED <<play, answered>>

Next == Start \/ PlayWeek \/ Respond \/ Submit

Spec == Init /\ [][Next]_ledger

=============================================================================
