----------------------------- MODULE CoursePage -----------------------------
(***************************************************************************)
(* The page on which a professor runs classes: frontend/src/pages/         *)
(* CourseOverview.jsx.                                                     *)
(*                                                                         *)
(* The page shows the details of the selected class as the last reply left *)
(* them.  Selecting a class loads its details; an action awaits the        *)
(* server, then perhaps the list of classes, then the details of the class *)
(* it was pressed on; while it does, other actions are locked out, but the *)
(* selection is not, and loads overtake each other.                        *)
(*                                                                         *)
(* Of a class the model keeps how often it was changed.  The three lists   *)
(* of its details are read together.                                       *)
(***************************************************************************)
EXTENDS Integers, Sequences, SequencesExt

CONSTANTS
  Classes,      \* the classes there can be, in the order they are listed
  MaxChanges,   \* bound: actions of the professor
  MaxLoads      \* bound: details on their way at a time

ASSUME PageAssumption ==
  /\ Classes \in Seq(STRING) /\ Len(Classes) > 0 /\ "" \notin ToSet(Classes)
  /\ MaxChanges \in Nat /\ MaxLoads \in Nat \ {0}

VARIABLES
  server,     \* [class -> how often it was changed]: the active classes
  listed,     \* the classes the page lists
  selected,   \* the selected class, or ""
  details,    \* what the page shows: a class and how often it was changed
  loads,      \* the details on their way, in the order they were asked for
  action,     \* the action that locks the page, or Nothing
  changes,    \* how many actions there were
  calm        \* history: nothing failed, overtook, or was selected during an action

course == <<server, listed, selected, details, loads, action, changes, calm>>

-----------------------------------------------------------------------------
Names == ToSet(Classes)
NoDetails == [of |-> "", changed |-> 0]
Nothing == [op |-> "none"]
Operations == {"change", "rename", "create", "archive"}

\* `by' is what goes on when the reply comes; `changed' is -1 until it was read.
Load(class, by) == [of |-> class, by |-> by, changed |-> -1]

\* The first of some classes in the order of the list, or none.
FirstOf(classes) ==
  IF classes = {} THEN ""
  ELSE Classes[CHOOSE i \in DOMAIN Classes :
                 Classes[i] \in classes /\ \A j \in DOMAIN Classes : Classes[j] \in classes => i <= j]

Quiet == loads = <<>> /\ action = Nothing
MayLoad == Len(loads) < MaxLoads

\* The page has mounted and asked for its classes.
PageInitWith(classes) ==
  /\ server = [c \in classes |-> 0]
  /\ listed = {} /\ selected = ""
  /\ details = NoDetails /\ loads = <<>>
  /\ action = [op |-> "open", of |-> "", stage |-> "listing"]
  /\ changes = 0 /\ calm = TRUE

PageInit == PageInitWith({Classes[1]}) \/ PageInitWith(Names)

\* Mutant: a class that was shown before is not loaded again.
SelectRemembered(class) ==
  /\ selected' = class
  /\ IF class = "" THEN details' = NoDetails /\ UNCHANGED loads
     ELSE IF class \in {selected, details.of} THEN UNCHANGED <<details, loads>>
     ELSE loads' = Append(loads, Load(class, "effect")) /\ UNCHANGED details

\* The effect on the selection: its details are loaded, or cleared.
Select(class) ==
  /\ selected' = class
  /\ IF class = selected THEN UNCHANGED <<details, loads>>
     ELSE IF class = "" THEN details' = NoDetails /\ UNCHANGED loads
     ELSE loads' = Append(loads, Load(class, "effect")) /\ UNCHANGED details

-----------------------------------------------------------------------------
(***************************************************************************)
(* The professor.                                                          *)
(***************************************************************************)
SelectClass ==
  /\ action.op # "open" /\ MayLoad
  /\ \E class \in listed \ {selected} : Select(class)
  /\ calm' = IF Quiet THEN TRUE ELSE calm /\ action = Nothing
  /\ UNCHANGED <<server, listed, action, changes>>

\* runAction: one at a time, about the class that is selected as it is pressed.
\* "change" is any change of students or assignments, confirmed or not.
Press ==
  /\ action = Nothing /\ changes < MaxChanges
  /\ \E op \in Operations :
       /\ op # "create" => selected # ""
       /\ action' = [op |-> op, of |-> selected, stage |-> "sent"]
  /\ changes' = changes + 1
  /\ UNCHANGED <<server, listed, selected, details, loads, calm>>

-----------------------------------------------------------------------------
(***************************************************************************)
(* The server, and what an action does with its replies.                   *)
(***************************************************************************)
Without(class) == [c \in DOMAIN server \ {class} |-> server[c]]

Serve ==
  /\ action # Nothing /\ action.stage = "sent"
  /\ \/ /\ action.op \in {"change", "rename"} /\ action.of \in DOMAIN server
        /\ server' = [server EXCEPT ![action.of] = @ + 1]
        /\ action' = [action EXCEPT !.stage = "served"]
     \/ /\ action.op = "archive" /\ action.of \in DOMAIN server
        /\ server' = Without(action.of)
        /\ action' = [action EXCEPT !.stage = "served"]
     \/ /\ action.op = "create"
        /\ \E class \in Names \ DOMAIN server :
             /\ server' = [c \in DOMAIN server \cup {class} |-> IF c = class THEN 0 ELSE server[c]]
             /\ action' = [action EXCEPT !.stage = "served", !.of = class]
  /\ UNCHANGED <<listed, selected, details, loads, changes, calm>>

Refresh ==
  /\ MayLoad
  /\ loads' = Append(loads, Load(action.of, "action"))
  /\ action' = [action EXCEPT !.stage = "refreshing"]

\* The reply to the action itself.
Served ==
  /\ action # Nothing /\ action.stage = "served"
  /\ CASE action.op = "change" -> Refresh /\ UNCHANGED <<selected, details>>
       [] action.op = "archive" -> Select("") /\ action' = [action EXCEPT !.stage = "listing"]
       [] OTHER -> action' = [action EXCEPT !.stage = "listing"] /\ UNCHANGED <<selected, details, loads>>
  /\ UNCHANGED <<server, listed, changes, calm>>

\* loadClasses keeps a selection there is; a class that was created is selected.
\* When nothing was selected, a creation first selects what loadClasses lists first
\* and then the new class: that is one selection here, without the load of the former.
Listed ==
  /\ action # Nothing /\ action.stage = "listing" /\ MayLoad
  /\ listed' = DOMAIN server
  /\ CASE action.op = "rename" -> Refresh /\ UNCHANGED <<selected, details>>
       [] action.op = "create" -> Select(action.of) /\ action' = Nothing
       [] OTHER -> /\ Select(IF selected # "" THEN selected ELSE FirstOf(DOMAIN server))
                   /\ action' = Nothing
  /\ UNCHANGED <<server, changes, calm>>

\* A request of the action fails, before or after the server did its part.
ActionFails ==
  /\ action # Nothing /\ action.stage \in {"sent", "served", "listing"}
  /\ action' = Nothing /\ calm' = FALSE
  /\ UNCHANGED <<server, listed, selected, details, loads, changes>>

\* A class that is gone has no details: 404.
ReadDetails(i) ==
  /\ loads[i].changed = -1 /\ loads[i].of \in DOMAIN server
  /\ loads' = [loads EXCEPT ![i].changed = server[loads[i].of]]
  /\ UNCHANGED <<server, listed, selected, details, action, changes, calm>>

ActionAfter(i) == IF loads[i].by = "action" THEN Nothing ELSE action

\* Details are shown as they come, whatever is selected by then.
ReceiveDetails(i) ==
  /\ loads[i].changed >= 0
  /\ details' = [of |-> loads[i].of, changed |-> loads[i].changed]
  /\ loads' = RemoveAt(loads, i)
  /\ action' = ActionAfter(i)
  /\ calm' = (calm /\ i = 1)
  /\ UNCHANGED <<server, listed, selected, changes>>

LoadFails(i) ==
  /\ loads' = RemoveAt(loads, i)
  /\ action' = ActionAfter(i)
  /\ calm' = FALSE
  /\ UNCHANGED <<server, listed, selected, details, changes>>

PageNext ==
  \/ SelectClass \/ Press \/ Serve \/ Served \/ Listed \/ ActionFails
  \/ \E i \in DOMAIN loads : ReadDetails(i) \/ ReceiveDetails(i) \/ LoadFails(i)

PageSpec == PageInit /\ [][PageNext]_course

-----------------------------------------------------------------------------
(***************************************************************************)
(* Properties.                                                             *)
(***************************************************************************)
\* When nothing is on its way, the page shows an active class, if there is one,
\* and its details as they are, its own changes included: unless a request
\* failed, loads overtook each other, or a class was selected during an action
\* (loadClassDetails, runAction).  With those it does not: see the README.
QuietPageIsCurrent ==
  Quiet /\ calm =>
    /\ selected = "" <=> DOMAIN server = {}
    /\ selected # "" => details = [of |-> selected, changed |-> server[selected]]

=============================================================================
