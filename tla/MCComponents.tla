---------------------------- MODULE MCComponents ----------------------------
(***************************************************************************)
(* One instance of each of the parts that share no state with the others:  *)
(* AuthSessions, Experiments, ContentAudit and CoursePage.  A behaviour is *)
(* one of the part that `part' names; the others rest in an initial state. *)
(***************************************************************************)
EXTENDS AuthSessions, Experiments, ContentAudit, CoursePage, MCScripts

VARIABLE part

MCJobs == <<"a", "b">>
MCClasses == <<"a", "b", "c">>

AnyScript == CHOOSE s \in Scripts : Publishable(s)

MCInit ==
  /\ Init /\ ExperimentsInit
  /\ \/ part \in {"sessions", "experiments"} /\ AuditInitWith({AnyScript}) /\ PageInitWith({})
     \/ part = "audit" /\ AuditInit /\ PageInitWith({})
     \/ part = "page" /\ AuditInitWith({AnyScript}) /\ PageInit

MCNext ==
  /\ UNCHANGED part
  /\ \/ part = "sessions" /\ Next /\ UNCHANGED <<experiment, audit, course>>
     \/ part = "experiments" /\ ExperimentsNext /\ UNCHANGED <<vars, audit, course>>
     \/ part = "audit" /\ AuditNext /\ UNCHANGED <<vars, experiment, course>>
     \/ part = "page" /\ PageNext /\ UNCHANGED <<vars, experiment, audit>>

MCSpec ==
  /\ MCInit /\ [][MCNext]_<<part, vars, experiment, audit, course>>
  /\ WF_vars(part = "sessions" /\ ReadSome)
  /\ WF_vars(part = "sessions" /\ WriteSome)
  /\ WF_vars(part = "sessions" /\ ReceiveSome)
  /\ WF_vars(part = "sessions" /\ (PressUse \/ PressLogout))

=============================================================================
