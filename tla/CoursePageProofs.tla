--------------------------- MODULE CoursePageProofs ---------------------------
(***************************************************************************)
(* That a quiet page is current, for any number of classes, of actions of  *)
(* the professor, and of loads on their way.                               *)
(***************************************************************************)
EXTENDS CoursePage, SequenceTheorems, WellFoundedInduction, TLAPS

-----------------------------------------------------------------------------
(***************************************************************************)
(* The inductive invariant.                                                *)
(***************************************************************************)
Actions == [op : Operations \cup {"open"}, of : Names \cup {""},
            stage : {"sent", "served", "listing", "refreshing"}]
Requests == [of : Names \cup {""}, by : {"effect", "action"}, changed : Nat \cup {-1}]

PageTyped ==
  /\ DOMAIN server \subseteq Names /\ server \in [DOMAIN server -> Nat]
  /\ listed \subseteq Names /\ selected \in Names \cup {""}
  /\ loads \in Seq(Requests)
  /\ action \in {Nothing} \cup Actions
  /\ calm \in BOOLEAN

\* The load an action waits for is the only one of its kind, and unlocks it.
LoadsInv ==
  \A i \in DOMAIN loads : loads[i].by = "action" =>
    /\ action # Nothing /\ action.stage = "refreshing"
    /\ \A j \in DOMAIN loads : loads[j].by = "action" => i = j

\* On a calm page an action is about the class that is selected.
ActionInv ==
  calm =>
    /\ action.op \in {"change", "rename"} => action.of = selected /\ selected # ""
    /\ action.op = "archive" =>
         \/ action.stage \in {"sent", "served"} /\ action.of = selected /\ selected # ""
         \/ action.stage = "listing" /\ selected = ""
    /\ action.op = "change" => action.stage # "listing"
    /\ action.op = "create" => action.stage # "refreshing"
    /\ action.op = "create" /\ action.stage # "sent" => action.of # ""
    /\ action.op = "open" => action.stage = "listing" /\ selected = ""

\* The server has done its part and the page has not asked again.
Behind ==
  \/ action.op \in {"change", "rename"} /\ action.stage \in {"served", "listing"}
  \/ action.op = "archive" /\ action.stage = "served"

\* The list that is on its way will select a class.
Choosing ==
  action.op \in {"archive", "create", "open"} /\ action.stage \in {"served", "listing"}

\* Details on their way that are of the selected class, unread or as it is.
IsCurrent(load) ==
  /\ load.of = selected
  /\ load.changed = -1 \/ (selected \in DOMAIN server /\ load.changed = server[selected])

\* Otherwise what a calm page shows, or will show last, is the selected class.
ViewInv ==
  calm =>
    /\ selected = "" /\ ~Choosing => DOMAIN server = {}
    /\ selected # "" /\ ~Behind =>
         IF loads = <<>>
           THEN selected \in DOMAIN server /\ details = [of |-> selected, changed |-> server[selected]]
           ELSE IsCurrent(loads[Len(loads)])

PageInv == PageTyped /\ LoadsInv /\ ActionInv /\ ViewInv

-----------------------------------------------------------------------------
(***************************************************************************)
(* The list of classes, requests and actions.                              *)
(***************************************************************************)
LEMMA LeastNatural ==
  ASSUME NEW S \in SUBSET Nat, S # {}
  PROVE  \E m \in S : \A n \in S : m <= n
<1>1. IsWellFoundedOn(OpToRel(<, Nat), Nat)
  BY NatLessThanWellFounded
<1>2. PICK m \in S : \A n \in S : <<n, m>> \notin OpToRel(<, Nat)
  <2>1. S \subseteq Nat
    OBVIOUS
  <2> QED  BY <1>1, <2>1, WFMin
<1>3. \A n \in S : ~(n < m)
  BY <1>2 DEF OpToRel
<1> QED  BY <1>3

LEMMA NamesAreNames == "" \notin Names
BY PageAssumption DEF Names

LEMMA FirstOfClasses ==
  ASSUME NEW classes \in SUBSET Names
  PROVE  IF classes = {} THEN FirstOf(classes) = "" ELSE FirstOf(classes) \in classes
<1>1. SUFFICES ASSUME classes # {} PROVE FirstOf(classes) \in classes
  BY DEF FirstOf
<1> DEFINE S == {i \in DOMAIN Classes : Classes[i] \in classes}
<1>2. Classes \in Seq(STRING)
  BY PageAssumption
<1>3. S \in SUBSET Nat
  <2>1. DOMAIN Classes = 1 .. Len(Classes) /\ Len(Classes) \in Nat
    BY <1>2
  <2> QED  BY <2>1
<1>4. S # {}
  BY <1>1 DEF Names, ToSet
<1>5. \E i \in S : \A j \in S : i <= j
  <2> HIDE DEF S
  <2> QED  BY <1>3, <1>4, LeastNatural
<1>6. \E i \in DOMAIN Classes :
        Classes[i] \in classes /\ \A j \in DOMAIN Classes : Classes[j] \in classes => i <= j
  BY <1>5
<1> QED  BY <1>1, <1>6 DEF FirstOf

LEMMA LoadTyped ==
  ASSUME NEW class \in Names \cup {""}, NEW by \in {"effect", "action"}
  PROVE  /\ Load(class, by) \in Requests
         /\ Load(class, by).of = class /\ Load(class, by).by = by /\ Load(class, by).changed = -1
BY DEF Load, Requests

LEMMA RequestFields ==
  ASSUME NEW r \in Requests
  PROVE  r.of \in Names \cup {""} /\ r.by \in {"effect", "action"} /\ r.changed \in Nat \cup {-1}
BY DEF Requests

LEMMA ActionFields ==
  ASSUME PageTyped
  PROVE  /\ action = Nothing => action.op = "none"
         /\ action # Nothing =>
              /\ action \in Actions /\ action.op \in Operations \cup {"open"}
              /\ action.of \in Names \cup {""}
              /\ action.stage \in {"sent", "served", "listing", "refreshing"}
<1>1. Nothing.op = "none"
  BY DEF Nothing
<1>2. action # Nothing => action \in Actions
  BY DEF PageTyped
<1>3. ASSUME NEW a \in Actions
      PROVE  a.op \in Operations \cup {"open"} /\ a.of \in Names \cup {""}
               /\ a.stage \in {"sent", "served", "listing", "refreshing"}
  BY DEF Actions
<1> QED  BY <1>1, <1>2, <1>3

LEMMA ActionsAreSomething ==
  ASSUME NEW a \in Actions
  PROVE  a # Nothing /\ a.op # "none"
<1>1. a.op \in Operations \cup {"open"}
  BY DEF Actions
<1>2. a.op # "none"
  BY <1>1 DEF Operations
<1>3. Nothing.op = "none"
  BY DEF Nothing
<1> QED  BY <1>2, <1>3

\* An action that goes on to its next stage.
LEMMA NextStage ==
  ASSUME NEW a \in Actions, NEW s \in {"sent", "served", "listing", "refreshing"}
  PROVE  /\ [a EXCEPT !.stage = s] \in Actions
         /\ [a EXCEPT !.stage = s].op = a.op /\ [a EXCEPT !.stage = s].of = a.of
         /\ [a EXCEPT !.stage = s].stage = s
BY DEF Actions

LEMMA NoLoads == <<>> \in Seq(Requests) /\ DOMAIN <<>> = {} /\ Len(<<>>) = 0
<1>1. <<>> \in Seq(Requests) /\ Len(<<>>) = 0
  OBVIOUS
<1>2. DOMAIN <<>> = 1 .. 0
  BY <1>1
<1> QED  BY <1>1, <1>2

LEMMA NotTheLast ==
  ASSUME NEW n \in Nat, NEW i \in 1 .. n + 1, i # n + 1
  PROVE  i \in 1 .. n
OBVIOUS

LEMMA NoSuccessor ==
  ASSUME NEW n \in Nat
  PROVE  n # n + 1
OBVIOUS

LEMMA Predecessor ==
  ASSUME NEW n \in Nat, NEW i \in 1 .. n, n # 1
  PROVE  n - 1 \in 1 .. n - 1 /\ n - 1 + 1 = n /\ (i = 1 => ~(n - 1 < i))
OBVIOUS

LEMMA Unread ==
  ASSUME NEW m \in Nat \cup {-1}
  PROVE  m >= 0 => m # -1
OBVIOUS

\* Requests that one is added to, or removed from.
LEMMA LoadsAppend ==
  ASSUME NEW s \in Seq(Requests), NEW r \in Requests
  PROVE  /\ Append(s, r) \in Seq(Requests) /\ Append(s, r) # <<>>
         /\ Len(s) \in Nat /\ Len(Append(s, r)) = Len(s) + 1
         /\ DOMAIN s = 1 .. Len(s) /\ DOMAIN Append(s, r) = 1 .. Len(s) + 1
         /\ Append(s, r)[Len(s) + 1] = r /\ \A i \in 1 .. Len(s) : Append(s, r)[i] = s[i]
OBVIOUS

LEMMA LoadsRemove ==
  ASSUME NEW s \in Seq(Requests), NEW i \in DOMAIN s
  PROVE  /\ RemoveAt(s, i) \in Seq(Requests) /\ Len(RemoveAt(s, i)) = Len(s) - 1
         /\ Len(s) \in Nat /\ DOMAIN s = 1 .. Len(s) /\ DOMAIN RemoveAt(s, i) = 1 .. Len(s) - 1
         /\ \A j \in 1 .. Len(s) - 1 : RemoveAt(s, i)[j] = IF j < i THEN s[j] ELSE s[j + 1]
<1> DEFINE n == Len(s)
           a == SubSeq(s, 1, i - 1)
           b == SubSeq(s, i + 1, n)
<1>1. n \in Nat /\ DOMAIN s = 1 .. n /\ i \in 1 .. n /\ \A j \in 1 .. n : s[j] \in Requests
  OBVIOUS
<1> HIDE DEF n
<1>2. a \in Seq(Requests) /\ Len(a) = i - 1 /\ \A j \in 1 .. i - 1 : a[j] = s[j]
  <2>1. \A j \in 1 .. i - 1 : s[j] \in Requests
    BY <1>1
  <2> DEFINE m == i - 1
  <2>2. m \in Int /\ 1 \in Int /\ m - 1 + 1 = m /\ (IF 1 <= m THEN m - 1 + 1 ELSE 0) = m
    BY <1>1
  <2>3. \A j \in 1 .. m : 1 + j - 1 = j
    BY <2>2
  <2> HIDE DEF m
  <2>4. \A j \in 1 .. m : s[j] \in Requests
    BY <2>1 DEF m
  <2>5. /\ SubSeq(s, 1, m) \in Seq(Requests) /\ Len(SubSeq(s, 1, m)) = m
        /\ \A j \in 1 .. m : SubSeq(s, 1, m)[j] = s[j]
    BY <2>2, <2>3, <2>4, SubSeqProperties
  <2> QED  BY <2>5 DEF m
<1>3. b \in Seq(Requests) /\ Len(b) = n - i /\ \A j \in 1 .. n - i : b[j] = s[i + j]
  <2> DEFINE m == i + 1
  <2>1. m \in Int /\ n \in Int /\ n - m + 1 = n - i /\ (IF m <= n THEN n - m + 1 ELSE 0) = n - i
    BY <1>1
  <2>2. \A j \in 1 .. n - i : m + j - 1 = i + j
    BY <1>1
  <2>3. \A j \in m .. n : s[j] \in Requests
    BY <1>1
  <2> HIDE DEF m
  <2>4. /\ SubSeq(s, m, n) \in Seq(Requests) /\ Len(SubSeq(s, m, n)) = n - i
        /\ \A j \in 1 .. n - i : SubSeq(s, m, n)[j] = s[i + j]
    BY <2>1, <2>2, <2>3, SubSeqProperties
  <2> QED  BY <2>4 DEF m
<1>4. RemoveAt(s, i) = a \o b
  BY DEF RemoveAt, n
<1> HIDE DEF a, b
<1>5. /\ a \o b \in Seq(Requests) /\ Len(a \o b) = n - 1
      /\ \A j \in 1 .. n - 1 : (a \o b)[j] = IF j < i THEN s[j] ELSE s[j + 1]
  <2>1. /\ a \o b \in Seq(Requests) /\ Len(a \o b) = Len(a) + Len(b)
        /\ \A j \in 1 .. Len(a) + Len(b) : (a \o b)[j] = IF j <= Len(a) THEN a[j] ELSE b[j - Len(a)]
    BY <1>2, <1>3, ConcatProperties
  <2>2. Len(a) + Len(b) = n - 1
    BY <1>1, <1>2, <1>3
  <2>3. ASSUME NEW j \in 1 .. n - 1 PROVE (a \o b)[j] = IF j < i THEN s[j] ELSE s[j + 1]
    <3>1. CASE j < i
      <4>1. j \in 1 .. i - 1 /\ j <= Len(a)
        BY <1>1, <1>2, <3>1
      <4> QED  BY <1>2, <2>1, <2>2, <3>1, <4>1
    <3>2. CASE ~(j < i)
      <4> DEFINE k == j - (i - 1)
      <4>1. k \in 1 .. n - i /\ i + k = j + 1 /\ ~(j <= Len(a)) /\ j - Len(a) = k
        BY <1>1, <1>2, <3>2
      <4> HIDE DEF k
      <4> QED  BY <1>3, <2>1, <2>2, <3>2, <4>1
    <3> QED  BY <3>1, <3>2
  <2> QED  BY <2>1, <2>2, <2>3
<1>6. DOMAIN (a \o b) = 1 .. n - 1
  BY <1>5
<1> QED  BY <1>1, <1>4, <1>5, <1>6 DEF n

-----------------------------------------------------------------------------
(***************************************************************************)
(* What the steps of several actions have in common.                       *)
(***************************************************************************)
\* Only an action that refreshes has a load on its way.
LEMMA NoActionLoads ==
  ASSUME LoadsInv, action = Nothing \/ action.stage # "refreshing"
  PROVE  \A i \in DOMAIN loads : loads[i].by # "action"
BY DEF LoadsInv

LEMMA LoadsKept ==
  ASSUME LoadsInv, loads' = loads, action' = action
  PROVE  LoadsInv'
BY DEF LoadsInv

LEMMA LoadsWithoutAction ==
  ASSUME loads' = loads, \A i \in DOMAIN loads : loads[i].by # "action"
  PROVE  LoadsInv'
BY DEF LoadsInv

LEMMA LoadsByEffect ==
  ASSUME loads \in Seq(Requests), LoadsInv, NEW class \in Names \cup {""},
         loads' = Append(loads, Load(class, "effect")),
         action' = action \/ \A i \in DOMAIN loads : loads[i].by # "action"
  PROVE  LoadsInv'
<1> DEFINE r == Load(class, "effect")
           n == Len(loads)
<1>1. r \in Requests /\ r.by # "action"
  BY LoadTyped
<1>2. /\ n \in Nat /\ DOMAIN loads = 1 .. n /\ DOMAIN loads' = 1 .. n + 1
      /\ loads'[n + 1] = r /\ \A i \in 1 .. n : loads'[i] = loads[i]
  <2> HIDE DEF r
  <2>1. loads' = Append(loads, r)
    BY DEF r
  <2> DEFINE s == Append(loads, r)
  <2>2. /\ s \in Seq(Requests) /\ s # <<>> /\ n \in Nat /\ DOMAIN loads = 1 .. n /\ DOMAIN s = 1 .. n + 1
        /\ Len(s) = n + 1 /\ s[n + 1] = r /\ \A i \in 1 .. n : s[i] = loads[i]
    BY <1>1, LoadsAppend
  <2> HIDE DEF n, s
  <2>3. loads' = s
    BY <2>1 DEF s
  <2> QED  BY <2>2, <2>3
<1> HIDE DEF r, n
<1>3. \A i \in DOMAIN loads' : loads'[i].by = "action" => i \in DOMAIN loads /\ loads'[i] = loads[i]
  <2>1. ASSUME NEW i \in 1 .. n + 1, loads'[i].by = "action"
        PROVE  i \in 1 .. n /\ loads'[i] = loads[i]
    <3>1. i # n + 1
      BY <1>1, <1>2, <2>1
    <3>2. i \in 1 .. n
      BY <1>2, <3>1, NotTheLast
    <3> QED  BY <1>2, <3>2
  <2> QED  BY <1>2, <2>1
<1>4. CASE action' = action
  <2>1. ASSUME NEW i \in DOMAIN loads', loads'[i].by = "action"
        PROVE  /\ action # Nothing /\ action.stage = "refreshing"
               /\ \A j \in DOMAIN loads' : loads'[j].by = "action" => i = j
    <3>1. i \in DOMAIN loads /\ loads[i].by = "action"
      BY <1>3, <2>1
    <3>2. /\ action # Nothing /\ action.stage = "refreshing"
          /\ \A j \in DOMAIN loads : loads[j].by = "action" => i = j
      BY <3>1 DEF LoadsInv
    <3> QED  BY <1>3, <3>2
  <2> QED  BY <1>4, <2>1 DEF LoadsInv
<1>5. CASE \A i \in DOMAIN loads : loads[i].by # "action"
  BY <1>3, <1>5 DEF LoadsInv
<1> QED  BY <1>4, <1>5

LEMMA LoadsByAction ==
  ASSUME loads \in Seq(Requests), NEW class \in Names \cup {""},
         loads' = Append(loads, Load(class, "action")),
         \A i \in DOMAIN loads : loads[i].by # "action",
         action' # Nothing, action'.stage = "refreshing"
  PROVE  LoadsInv'
<1> DEFINE r == Load(class, "action")
           n == Len(loads)
<1>1. r \in Requests
  BY LoadTyped
<1>2. /\ n \in Nat /\ DOMAIN loads = 1 .. n /\ DOMAIN loads' = 1 .. n + 1
      /\ loads'[n + 1] = r /\ \A i \in 1 .. n : loads'[i] = loads[i]
  <2> HIDE DEF r
  <2>1. loads' = Append(loads, r)
    BY DEF r
  <2> DEFINE s == Append(loads, r)
  <2>2. /\ s \in Seq(Requests) /\ s # <<>> /\ n \in Nat /\ DOMAIN loads = 1 .. n /\ DOMAIN s = 1 .. n + 1
        /\ Len(s) = n + 1 /\ s[n + 1] = r /\ \A i \in 1 .. n : s[i] = loads[i]
    BY <1>1, LoadsAppend
  <2> HIDE DEF n, s
  <2>3. loads' = s
    BY <2>1 DEF s
  <2> QED  BY <2>2, <2>3
<1> HIDE DEF r, n
<1>3. \A i \in DOMAIN loads' : loads'[i].by = "action" => i = n + 1
  <2>1. ASSUME NEW i \in 1 .. n + 1, i # n + 1
        PROVE  loads'[i].by # "action"
    <3>1. i \in 1 .. n
      BY <1>2, <2>1, NotTheLast
    <3> QED  BY <1>2, <3>1
  <2> QED  BY <1>2, <2>1
<1> QED  BY <1>3 DEF LoadsInv

\* A class that is selected and asked for is what the page shows last.
LEMMA AskedIsCurrent ==
  ASSUME loads \in Seq(Requests), NEW class \in Names \cup {""}, NEW by \in {"effect", "action"},
         loads' = Append(loads, Load(class, by)), selected' = class
  PROVE  loads' \in Seq(Requests) /\ loads' # <<>> /\ IsCurrent(loads[Len(loads)])'
<1> DEFINE r == Load(class, by)
           n == Len(loads)
<1>1. r \in Requests /\ r.of = class /\ r.changed = -1
  BY LoadTyped
<1>2. /\ loads' \in Seq(Requests) /\ loads' # <<>> /\ Len(loads') = n + 1 /\ loads'[n + 1] = r
  <2> HIDE DEF r
  <2>1. loads' = Append(loads, r)
    BY DEF r
  <2> DEFINE s == Append(loads, r)
  <2>2. /\ s \in Seq(Requests) /\ s # <<>> /\ n \in Nat /\ DOMAIN loads = 1 .. n /\ DOMAIN s = 1 .. n + 1
        /\ Len(s) = n + 1 /\ s[n + 1] = r /\ \A i \in 1 .. n : s[i] = loads[i]
    BY <1>1, LoadsAppend
  <2> HIDE DEF n, s
  <2>3. loads' = s
    BY <2>1 DEF s
  <2> QED  BY <2>2, <2>3
<1> HIDE DEF r, n
<1>3. IsCurrent(r)'
  <2>1. r.of = selected' /\ r.changed = -1
    BY <1>1
  <2> QED  BY <2>1 DEF IsCurrent, r
<1> QED  BY <1>2, <1>3 DEF r

LEMMA SelectMeans ==
  ASSUME PageTyped, NEW class \in Names \cup {""}, Select(class)
  PROVE  /\ selected' = class /\ selected' \in Names \cup {""}
         /\ loads' \in Seq(Requests)
         /\ \/ loads' = loads /\ class \in {selected, ""} /\ (class = selected => details' = details)
            \/ loads' = Append(loads, Load(class, "effect")) /\ class \notin {selected, ""}
<1>1. loads \in Seq(Requests)
  BY DEF PageTyped
<1>2. Append(loads, Load(class, "effect")) \in Seq(Requests)
  BY <1>1, LoadTyped, LoadsAppend
<1> QED  BY <1>1, <1>2 DEF Select

-----------------------------------------------------------------------------
(***************************************************************************)
(* The invariant holds initially and is kept by every action.              *)
(***************************************************************************)
LEMMA PageInitially ==
  ASSUME PageInit
  PROVE  PageInv
<1>1. PICK classes \in SUBSET Names : PageInitWith(classes)
  <2>1. Classes[1] \in Names
    <3>1. Classes \in Seq(STRING) /\ Len(Classes) > 0
      BY PageAssumption
    <3>2. 1 \in DOMAIN Classes
      BY <3>1
    <3> QED  BY <3>2 DEF Names, ToSet
  <2> QED  BY <2>1 DEF PageInit
<1>2. action.op = "open" /\ action.stage = "listing" /\ action \in Actions
  BY <1>1 DEF Actions, PageInitWith
<1>3. server = [c \in classes |-> 0] /\ selected = "" /\ loads = <<>> /\ listed = {} /\ calm = TRUE
  BY <1>1 DEF PageInitWith
<1>4. PageTyped
  <2>1. DOMAIN server = classes /\ server \in [DOMAIN server -> Nat]
    BY <1>3
  <2>2. loads \in Seq(Requests)
    BY <1>3, NoLoads
  <2> QED  BY <1>2, <1>3, <2>1, <2>2 DEF PageTyped
<1>5. LoadsInv
  <2>1. DOMAIN loads = {}
    BY <1>3, NoLoads
  <2> QED  BY <2>1 DEF LoadsInv
<1>6. ActionInv
  BY <1>2, <1>3 DEF ActionInv
<1>7. ViewInv
  BY <1>2, <1>3 DEF ViewInv, Choosing
<1> QED  BY <1>4, <1>5, <1>6, <1>7 DEF PageInv

LEMMA SelectClassKeeps ==
  ASSUME PageInv, SelectClass
  PROVE  PageInv'
<1> USE DEF PageInv
<1>1. PICK class \in listed \ {selected} : Select(class)
  BY DEF SelectClass
<1>2. class \in Names /\ class # "" /\ class # selected
  BY NamesAreNames DEF PageTyped
<1>3. UNCHANGED <<server, listed, action>> /\ calm' = IF Quiet THEN TRUE ELSE calm /\ action = Nothing
  BY DEF SelectClass
<1>4. selected' = class /\ loads' = Append(loads, Load(class, "effect"))
  <2>1. class \in Names \cup {""} /\ class \notin {selected, ""}
    BY <1>2
  <2> QED  BY <1>1, <2>1, SelectMeans
<1>5. loads' \in Seq(Requests) /\ loads' # <<>> /\ IsCurrent(loads[Len(loads)])'
  BY <1>2, <1>4, AskedIsCurrent DEF PageTyped
<1>6. calm' \in BOOLEAN /\ (calm' => action' = Nothing)
  BY <1>3 DEF Quiet, PageTyped
<1>7. PageTyped'
  BY <1>2, <1>3, <1>4, <1>5, <1>6 DEF PageTyped
<1>8. LoadsInv'
  BY <1>2, <1>3, <1>4, LoadsByEffect DEF PageTyped
<1>9. ActionInv'
  <2>1. Nothing.op = "none"
    BY DEF Nothing
  <2> QED  BY <1>6, <2>1 DEF ActionInv
<1>10. ViewInv'
  BY <1>2, <1>4, <1>5 DEF ViewInv
<1> QED  BY <1>7, <1>8, <1>9, <1>10

LEMMA PressKeeps ==
  ASSUME PageInv, Press
  PROVE  PageInv'
<1> USE DEF PageInv
<1>1. PICK op \in Operations : (op # "create" => selected # "")
                                 /\ action' = [op |-> op, of |-> selected, stage |-> "sent"]
  BY DEF Press
<1>2. action = Nothing /\ UNCHANGED <<server, listed, selected, details, loads, calm>>
  BY DEF Press
<1>3. action'.op = op /\ action'.of = selected /\ action'.stage = "sent" /\ action' \in Actions
  BY <1>1 DEF Actions, PageTyped
<1>4. action.op = "none"
  BY <1>2 DEF Nothing
<1>5. PageTyped'
  BY <1>2, <1>3 DEF PageTyped
<1>6. LoadsInv'
  BY <1>2, NoActionLoads, LoadsWithoutAction
<1>7. ActionInv'
  BY <1>1, <1>2, <1>3 DEF ActionInv, Operations
<1>8. ViewInv'
  <2>1. ~Behind /\ ~Choosing
    BY <1>4 DEF Behind, Choosing
  <2> QED  BY <1>2, <2>1 DEF ViewInv, IsCurrent
<1> QED  BY <1>5, <1>6, <1>7, <1>8

LEMMA ActionFailsKeeps ==
  ASSUME PageInv, ActionFails
  PROVE  PageInv'
<1> USE DEF PageInv
<1>1. action.stage # "refreshing" /\ action' = Nothing /\ calm' = FALSE
        /\ UNCHANGED <<server, listed, selected, details, loads>>
  BY DEF ActionFails
<1>2. PageTyped'
  BY <1>1 DEF PageTyped
<1>3. LoadsInv'
  BY <1>1, NoActionLoads, LoadsWithoutAction
<1>4. ActionInv' /\ ViewInv'
  BY <1>1 DEF ActionInv, ViewInv
<1> QED  BY <1>2, <1>3, <1>4

\* Steps that leave the requests alone, while no action waits for one.
LEMMA SelectKeepsLoads ==
  ASSUME PageTyped, LoadsInv, NEW class \in Names \cup {""}, Select(class),
         \A i \in DOMAIN loads : loads[i].by # "action"
  PROVE  LoadsInv'
<1>1. loads \in Seq(Requests)
  BY DEF PageTyped
<1>2. loads' = loads \/ loads' = Append(loads, Load(class, "effect"))
  BY SelectMeans
<1> QED  BY <1>1, <1>2, LoadsWithoutAction, LoadsByEffect

LEMMA RefreshMeans ==
  ASSUME PageTyped, LoadsInv, action # Nothing, action.stage # "refreshing", Refresh
  PROVE  /\ action' \in Actions /\ action'.op = action.op /\ action'.of = action.of
         /\ action'.stage = "refreshing"
         /\ loads' \in Seq(Requests) /\ LoadsInv'
         /\ selected' = action.of => loads' # <<>> /\ IsCurrent(loads[Len(loads)])'
<1>1. action \in Actions /\ action.of \in Names \cup {""} /\ loads \in Seq(Requests)
  BY ActionFields DEF PageTyped
<1>2. loads' = Append(loads, Load(action.of, "action")) /\ action' = [action EXCEPT !.stage = "refreshing"]
  BY DEF Refresh
<1>3. /\ action' \in Actions /\ action'.op = action.op /\ action'.of = action.of
      /\ action'.stage = "refreshing"
  BY <1>1, <1>2, NextStage
<1>4. LoadsInv'
  <2>1. action' # Nothing
    BY <1>3, ActionsAreSomething
  <2>2. \A i \in DOMAIN loads : loads[i].by # "action"
    BY NoActionLoads
  <2> QED  BY <1>1, <1>2, <1>3, <2>1, <2>2, LoadsByAction
<1>5. loads' \in Seq(Requests)
  BY <1>1, <1>2, LoadTyped, LoadsAppend
<1>6. selected' = action.of => loads' # <<>> /\ IsCurrent(loads[Len(loads)])'
  BY <1>1, <1>2, AskedIsCurrent
<1> QED  BY <1>3, <1>4, <1>5, <1>6

\* A request that goes, and with it the action that waited for it.
LEMMA RemoveKeepsLoads ==
  ASSUME PageTyped, LoadsInv, NEW i \in DOMAIN loads,
         loads' = RemoveAt(loads, i), action' = ActionAfter(i)
  PROVE  loads' \in Seq(Requests) /\ LoadsInv' /\ action' \in {action, Nothing}
<1> DEFINE n == Len(loads)
<1>1. /\ loads' \in Seq(Requests) /\ n \in Nat /\ DOMAIN loads = 1 .. n
      /\ DOMAIN loads' = 1 .. n - 1
      /\ \A j \in 1 .. n - 1 : loads'[j] = IF j < i THEN loads[j] ELSE loads[j + 1]
  <2> DEFINE s == RemoveAt(loads, i)
  <2>1. /\ s \in Seq(Requests) /\ n \in Nat /\ DOMAIN loads = 1 .. n
        /\ DOMAIN s = 1 .. n - 1
        /\ \A j \in 1 .. n - 1 : s[j] = IF j < i THEN loads[j] ELSE loads[j + 1]
    BY LoadsRemove DEF PageTyped
  <2> HIDE DEF n, s
  <2>2. loads' = s
    BY DEF s
  <2> QED  BY <2>1, <2>2
<1> HIDE DEF n
<1> DEFINE was(j) == IF j < i THEN j ELSE j + 1
<1>2. ASSUME NEW j \in 1 .. n - 1
      PROVE  was(j) \in 1 .. n /\ was(j) # i /\ loads'[j] = loads[was(j)]
  <2>1. n \in Nat /\ i \in 1 .. n
    BY <1>1
  <2>2. loads'[j] = IF j < i THEN loads[j] ELSE loads[j + 1]
    BY <1>1
  <2>3. CASE j < i
    BY <2>1, <2>2, <2>3
  <2>4. CASE ~(j < i)
    BY <2>1, <2>2, <2>4
  <2> QED  BY <2>3, <2>4
<1>3. ASSUME NEW j \in 1 .. n - 1, NEW k \in 1 .. n - 1, was(j) = was(k)
      PROVE  j = k
  <2>1. n \in Nat /\ i \in 1 .. n
    BY <1>1
  <2> QED  BY <1>3, <2>1
<1> HIDE DEF was
<1>4. action' = IF loads[i].by = "action" THEN Nothing ELSE action
  BY DEF ActionAfter
<1>5. ASSUME NEW j \in DOMAIN loads', loads'[j].by = "action"
      PROVE  /\ action' # Nothing /\ action'.stage = "refreshing"
             /\ \A k \in DOMAIN loads' : loads'[k].by = "action" => j = k
  <2>1. was(j) \in DOMAIN loads /\ was(j) # i /\ loads[was(j)].by = "action"
    BY <1>1, <1>2, <1>5
  <2>2. action # Nothing /\ action.stage = "refreshing"
          /\ \A k \in DOMAIN loads : loads[k].by = "action" => was(j) = k
    BY <2>1 DEF LoadsInv
  <2>3. loads[i].by # "action"
    BY <2>1, <2>2
  <2>4. ASSUME NEW k \in DOMAIN loads', loads'[k].by = "action" PROVE j = k
    <3>1. was(k) \in DOMAIN loads /\ loads[was(k)].by = "action"
      BY <1>1, <1>2, <2>4
    <3>2. was(j) = was(k)
      BY <2>2, <3>1
    <3> QED  BY <1>1, <1>3, <3>2
  <2> QED  BY <1>4, <2>2, <2>3, <2>4
<1>6. LoadsInv'
  BY <1>5 DEF LoadsInv
<1> QED  BY <1>1, <1>4, <1>6

\* No action, nothing that could be wrong with it.
LEMMA NothingHolds ==
  ASSUME action' = Nothing
  PROVE  ActionInv' /\ ~Behind' /\ ~Choosing'
<1>1. action'.op = "none"
  BY DEF Nothing
<1> QED  BY <1>1 DEF ActionInv, Behind, Choosing

LEMMA ServeKeeps ==
  ASSUME PageInv, Serve
  PROVE  PageInv'
<1> USE DEF PageInv
<1>1. action # Nothing /\ action.stage = "sent" /\ UNCHANGED <<listed, selected, details, loads, calm>>
  BY DEF Serve
<1>2. action \in Actions
  BY <1>1, ActionFields
<1>3. LoadsInv'
  BY <1>1, NoActionLoads, LoadsWithoutAction
<1>4. ASSUME action.op \in {"change", "rename"}, action.of \in DOMAIN server,
             server' = [server EXCEPT ![action.of] = @ + 1],
             action' = [action EXCEPT !.stage = "served"]
      PROVE  PageInv'
  <2>1. action' \in Actions /\ action'.op = action.op /\ action'.of = action.of /\ action'.stage = "served"
    BY <1>2, <1>4, NextStage
  <2>2. DOMAIN server' = DOMAIN server /\ server' \in [DOMAIN server -> Nat]
    <3>1. server \in [DOMAIN server -> Nat]
      BY DEF PageTyped
    <3>2. server[action.of] + 1 \in Nat
      BY <1>4, <3>1
    <3>3. server' = [server EXCEPT ![action.of] = server[action.of] + 1]
      BY <1>4
    <3> QED  BY <3>1, <3>2, <3>3
  <2>3. PageTyped'
    BY <1>1, <2>1, <2>2 DEF PageTyped
  <2>4. ActionInv'
    BY <1>1, <1>4, <2>1 DEF ActionInv
  <2>5. ViewInv'
    <3>1. Behind'
      BY <1>4, <2>1 DEF Behind
    <3>2. calm' => selected' # ""
      BY <1>1, <1>4 DEF ActionInv
    <3> QED  BY <3>1, <3>2 DEF ViewInv
  <2> QED  BY <1>3, <2>3, <2>4, <2>5
<1>5. ASSUME action.op = "archive", server' = Without(action.of), action' = [action EXCEPT !.stage = "served"]
      PROVE  PageInv'
  <2>1. action' \in Actions /\ action'.op = action.op /\ action'.of = action.of /\ action'.stage = "served"
    BY <1>2, <1>5, NextStage
  <2>2. DOMAIN server' \subseteq Names /\ server' \in [DOMAIN server' -> Nat]
    BY <1>5 DEF PageTyped, Without
  <2>3. PageTyped'
    BY <1>1, <2>1, <2>2 DEF PageTyped
  <2>4. calm' => action.of = selected /\ selected # ""
    BY <1>1, <1>5 DEF ActionInv
  <2>5. ActionInv'
    BY <1>1, <1>5, <2>1, <2>4 DEF ActionInv
  <2>6. ViewInv'
    <3>1. Behind'
      BY <1>5, <2>1 DEF Behind
    <3> QED  BY <1>1, <2>4, <3>1 DEF ViewInv
  <2> QED  BY <1>3, <2>3, <2>5, <2>6
<1>6. ASSUME action.op = "create", NEW class \in Names \ DOMAIN server,
             server' = [c \in DOMAIN server \cup {class} |-> IF c = class THEN 0 ELSE server[c]],
             action' = [action EXCEPT !.stage = "served", !.of = class]
      PROVE  PageInv'
  <2>1. action' \in Actions /\ action'.op = "create" /\ action'.of = class /\ action'.stage = "served"
    BY <1>2, <1>6 DEF Actions
  <2>2. class # ""
    BY NamesAreNames
  <2>3. DOMAIN server' \subseteq Names /\ server' \in [DOMAIN server' -> Nat]
    BY <1>6 DEF PageTyped
  <2>4. PageTyped'
    BY <1>1, <2>1, <2>3 DEF PageTyped
  <2>5. ActionInv'
    BY <2>1, <2>2 DEF ActionInv
  <2>6. \A c \in DOMAIN server : c \in DOMAIN server' /\ server'[c] = server[c]
    BY <1>6
  <2>7. Choosing' /\ ~Behind
    BY <1>6, <2>1 DEF Choosing, Behind
  <2>8. ASSUME NEW load, IsCurrent(load) PROVE IsCurrent(load)'
    BY <1>1, <2>6, <2>8 DEF IsCurrent
  <2>9. ViewInv'
    <3>1. SUFFICES ASSUME calm, selected # ""
                   PROVE  IF loads = <<>>
                            THEN selected \in DOMAIN server' /\ details = [of |-> selected, changed |-> server'[selected]]
                            ELSE IsCurrent(loads[Len(loads)])'
      BY <1>1, <2>7 DEF ViewInv
    <3>2. IF loads = <<>>
            THEN selected \in DOMAIN server /\ details = [of |-> selected, changed |-> server[selected]]
            ELSE IsCurrent(loads[Len(loads)])
      BY <2>7, <3>1 DEF ViewInv
    <3>3. CASE loads = <<>>
      BY <2>6, <3>2, <3>3
    <3>4. CASE loads # <<>>
      <4>1. IsCurrent(loads[Len(loads)])
        BY <3>2, <3>4
      <4> QED  BY <1>1, <2>6, <3>4, <4>1 DEF IsCurrent
    <3> QED  BY <3>3, <3>4
  <2> QED  BY <1>3, <2>4, <2>5, <2>9
<1> QED  BY <1>4, <1>5, <1>6 DEF Serve

LEMMA ServedKeeps ==
  ASSUME PageInv, Served
  PROVE  PageInv'
<1> USE DEF PageInv
<1>1. action # Nothing /\ action.stage = "served" /\ UNCHANGED <<server, listed, calm>>
  BY DEF Served
<1>2. action \in Actions
  BY <1>1, ActionFields
<1>3. \A i \in DOMAIN loads : loads[i].by # "action"
  BY <1>1, NoActionLoads
<1>4. CASE action.op = "change"
  <2>1. Refresh /\ UNCHANGED <<selected, details>>
    BY <1>4 DEF Served
  <2>2. /\ action' \in Actions /\ action'.op = "change" /\ action'.of = action.of
        /\ action'.stage = "refreshing"
        /\ loads' \in Seq(Requests) /\ LoadsInv'
        /\ selected' = action.of => loads' # <<>> /\ IsCurrent(loads[Len(loads)])'
    BY <1>1, <1>4, <2>1, RefreshMeans
  <2>3. PageTyped'
    BY <1>1, <2>1, <2>2 DEF PageTyped
  <2>4. calm' => action.of = selected' /\ selected' # ""
    BY <1>1, <1>4, <2>1 DEF ActionInv
  <2>5. ActionInv'
    BY <2>2, <2>4 DEF ActionInv
  <2>6. ViewInv'
    BY <2>2, <2>4 DEF ViewInv
  <2> QED  BY <2>2, <2>3, <2>5, <2>6
<1>5. CASE action.op = "archive"
  <2>1. Select("") /\ action' = [action EXCEPT !.stage = "listing"]
    BY <1>5 DEF Served
  <2>2. action' \in Actions /\ action'.op = "archive" /\ action'.of = action.of /\ action'.stage = "listing"
    BY <1>2, <1>5, <2>1, NextStage
  <2>3. selected' = "" /\ loads' = loads
    BY <2>1, SelectMeans
  <2>4. PageTyped'
    BY <1>1, <2>2, <2>3 DEF PageTyped
  <2>5. LoadsInv'
    BY <1>3, <2>3, LoadsWithoutAction
  <2>6. ActionInv'
    BY <2>2, <2>3 DEF ActionInv
  <2>7. Choosing'
    BY <2>2 DEF Choosing
  <2>8. ViewInv'
    BY <2>3, <2>7 DEF ViewInv
  <2> QED  BY <2>4, <2>5, <2>6, <2>8
<1>6. CASE action.op \notin {"change", "archive"}
  <2>1. action' = [action EXCEPT !.stage = "listing"] /\ UNCHANGED <<selected, details, loads>>
    BY <1>6 DEF Served
  <2>2. action' \in Actions /\ action'.op = action.op /\ action'.of = action.of /\ action'.stage = "listing"
    BY <1>2, <2>1, NextStage
  <2>3. PageTyped'
    BY <1>1, <2>1, <2>2 DEF PageTyped
  <2>4. LoadsInv'
    BY <1>3, <2>1, LoadsWithoutAction
  <2>5. calm => action.op \in {"rename", "create"}
    BY <1>1, <1>2, <1>6 DEF ActionInv, Actions, Operations
  <2>6. ActionInv'
    BY <1>1, <2>1, <2>2, <2>5 DEF ActionInv
  <2>7. ViewInv'
    <3>1. CASE ~calm
      BY <1>1, <3>1 DEF ViewInv
    <3>2. CASE calm /\ action.op = "rename"
      <4>1. Behind' /\ selected' # ""
        BY <1>1, <2>1, <2>2, <3>2 DEF Behind, ActionInv
      <4> QED  BY <4>1 DEF ViewInv
    <3>3. CASE calm /\ action.op = "create"
      <4>1. Choosing' /\ ~Behind
        BY <2>2, <3>3 DEF Choosing, Behind
      <4> QED  BY <1>1, <2>1, <4>1 DEF ViewInv, IsCurrent
    <3> QED  BY <2>5, <3>1, <3>2, <3>3
  <2> QED  BY <2>3, <2>4, <2>6, <2>7
<1> QED  BY <1>4, <1>5, <1>6

LEMMA ListedKeeps ==
  ASSUME PageInv, Listed
  PROVE  PageInv'
<1> USE DEF PageInv
<1>1. action # Nothing /\ action.stage = "listing" /\ listed' = DOMAIN server /\ UNCHANGED <<server, calm>>
  BY DEF Listed
<1>2. action \in Actions /\ action.of \in Names \cup {""}
  BY <1>1, ActionFields
<1>3. \A i \in DOMAIN loads : loads[i].by # "action"
  BY <1>1, NoActionLoads
<1>4. listed' \subseteq Names /\ server' \in [DOMAIN server' -> Nat] /\ DOMAIN server' \subseteq Names
  BY <1>1 DEF PageTyped
<1>5. CASE action.op = "rename"
  <2>1. Refresh /\ UNCHANGED <<selected, details>>
    BY <1>5 DEF Listed
  <2>2. /\ action' \in Actions /\ action'.op = "rename" /\ action'.of = action.of
        /\ action'.stage = "refreshing"
        /\ loads' \in Seq(Requests) /\ LoadsInv'
        /\ selected' = action.of => loads' # <<>> /\ IsCurrent(loads[Len(loads)])'
    BY <1>1, <1>5, <2>1, RefreshMeans
  <2>3. PageTyped'
    BY <1>1, <1>4, <2>1, <2>2 DEF PageTyped
  <2>4. calm' => action.of = selected' /\ selected' # ""
    BY <1>1, <1>5, <2>1 DEF ActionInv
  <2>5. ActionInv'
    BY <2>2, <2>4 DEF ActionInv
  <2>6. ViewInv'
    BY <2>2, <2>4 DEF ViewInv
  <2> QED  BY <2>2, <2>3, <2>5, <2>6
<1>6. ASSUME NEW class \in Names \cup {""}, Select(class), action' = Nothing,
             calm /\ class = selected => ~Behind,
             calm /\ class = "" => selected = "" /\ DOMAIN server = {}
      PROVE  PageInv'
  <2>1. /\ selected' = class /\ loads' \in Seq(Requests)
        /\ \/ loads' = loads /\ class \in {selected, ""} /\ (class = selected => details' = details)
           \/ loads' = Append(loads, Load(class, "effect")) /\ class \notin {selected, ""}
    BY <1>6, SelectMeans
  <2>2. PageTyped'
    BY <1>1, <1>4, <1>6, <2>1 DEF PageTyped
  <2>3. LoadsInv'
    BY <1>3, <1>6, SelectKeepsLoads
  <2>4. ActionInv'
    BY <1>6, NothingHolds
  <2>5. ASSUME calm, selected' # "" 
        PROVE  IF loads' = <<>>
                 THEN selected' \in DOMAIN server' /\ details' = [of |-> selected', changed |-> server'[selected']]
                 ELSE IsCurrent(loads[Len(loads)])'
    <3>1. CASE loads' = loads
      <4>1. class = selected /\ details' = details /\ selected # "" /\ ~Behind
        <5>1. loads # Append(loads, Load(class, "effect"))
          <6>1. Load(class, "effect") \in Requests /\ loads \in Seq(Requests)
            BY <1>6, LoadTyped DEF PageTyped
          <6> DEFINE n == Len(loads)
          <6>2. Len(Append(loads, Load(class, "effect"))) = n + 1 /\ n \in Nat
            BY <6>1, LoadsAppend
          <6>3. Len(loads) = n
            OBVIOUS
          <6> HIDE DEF n
          <6>4. n # n + 1
            BY <6>2, NoSuccessor
          <6> QED  BY <6>2, <6>3, <6>4
        <5> QED  BY <1>6, <2>1, <2>5, <3>1, <5>1
      <4>2. IF loads = <<>>
              THEN selected \in DOMAIN server /\ details = [of |-> selected, changed |-> server[selected]]
              ELSE IsCurrent(loads[Len(loads)])
        BY <2>5, <4>1 DEF ViewInv
      <4> QED  BY <1>1, <2>1, <3>1, <4>1, <4>2 DEF IsCurrent
    <3>2. CASE loads' = Append(loads, Load(class, "effect"))
      <4>1. loads' # <<>> /\ IsCurrent(loads[Len(loads)])'
        BY <1>6, <2>1, <3>2, AskedIsCurrent DEF PageTyped
      <4> QED  BY <4>1
    <3> QED  BY <2>1, <3>1, <3>2
  <2>6. ViewInv'
    <3>1. calm' /\ selected' = "" => DOMAIN server' = {}
      BY <1>1, <1>6, <2>1
    <3>2. calm' => calm
      BY <1>1
    <3> QED  BY <2>5, <3>1, <3>2 DEF ViewInv
  <2> QED  BY <2>2, <2>3, <2>4, <2>6
<1>7. CASE action.op = "create"
  <2>1. Select(action.of) /\ action' = Nothing
    BY <1>7 DEF Listed
  <2>2. ~Behind
    BY <1>7 DEF Behind
  <2>3. calm => action.of # ""
    BY <1>1, <1>7 DEF ActionInv
  <2> QED  BY <1>2, <1>6, <2>1, <2>2, <2>3
<1>8. CASE action.op \notin {"rename", "create"}
  <2> DEFINE class == IF selected # "" THEN selected ELSE FirstOf(DOMAIN server)
  <2>1. Select(class) /\ action' = Nothing
    BY <1>8 DEF Listed
  <2>2. /\ FirstOf(DOMAIN server) \in Names \cup {""}
        /\ FirstOf(DOMAIN server) = "" => DOMAIN server = {}
    <3>1. DOMAIN server \in SUBSET Names
      BY DEF PageTyped
    <3> QED  BY <3>1, FirstOfClasses, NamesAreNames
  <2>3. class \in Names \cup {""} /\ (class = "" => selected = "" /\ DOMAIN server = {})
    BY <2>2 DEF PageTyped
  <2>4. calm => ~Behind
    <3>1. calm => action.op # "change"
      BY <1>1 DEF ActionInv
    <3> QED  BY <1>1, <1>8, <3>1 DEF Behind
  <2> HIDE DEF class
  <2> QED  BY <1>6, <2>1, <2>3, <2>4
<1> QED  BY <1>5, <1>7, <1>8

LEMMA ReadDetailsKeeps ==
  ASSUME PageInv, NEW i \in DOMAIN loads, ReadDetails(i)
  PROVE  PageInv'
<1> USE DEF PageInv
<1> DEFINE n == Len(loads)
           v == server[loads[i].of]
<1>1. /\ loads[i].of \in DOMAIN server /\ loads' = [loads EXCEPT ![i].changed = v]
      /\ UNCHANGED <<server, listed, selected, details, action, calm>>
  BY DEF ReadDetails
<1>2. loads \in Seq(Requests) /\ n \in Nat /\ DOMAIN loads = 1 .. n /\ \A j \in 1 .. n : loads[j] \in Requests
  <2>1. loads \in Seq(Requests)
    BY DEF PageTyped
  <2> QED  BY <2>1
<1>3. v \in Nat
  BY <1>1 DEF PageTyped
<1> DEFINE r == [loads[i] EXCEPT !.changed = v]
<1>4. r \in Requests /\ r.of = loads[i].of /\ r.by = loads[i].by /\ r.changed = v
  BY <1>2, <1>3 DEF Requests
<1>5. /\ loads' \in Seq(Requests) /\ Len(loads') = n /\ DOMAIN loads' = 1 .. n
      /\ loads'[i] = r /\ \A j \in 1 .. n : j # i => loads'[j] = loads[j]
  <2> DEFINE s == [loads EXCEPT ![i] = r]
  <2>1. loads' = s
    BY <1>1
  <2> HIDE DEF r
  <2>2. /\ s \in Seq(Requests) /\ Len(s) = n /\ DOMAIN s = 1 .. n
        /\ s[i] = r /\ \A j \in 1 .. n : j # i => s[j] = loads[j]
    BY <1>2, <1>4
  <2> HIDE DEF s, n
  <2> QED  BY <2>1, <2>2
<1> HIDE DEF n, r, v
<1>6. \A j \in 1 .. n : loads'[j].by = loads[j].by
  BY <1>4, <1>5
<1>7. PageTyped'
  BY <1>1, <1>5 DEF PageTyped
<1>8. LoadsInv'
  BY <1>1, <1>2, <1>5, <1>6 DEF LoadsInv
<1>9. ActionInv'
  BY <1>1 DEF ActionInv
<1>10. ViewInv'
  <2>1. ASSUME IsCurrent(loads[n]), n \in 1 .. n PROVE IsCurrent(loads[n])'
    <3>1. n' = n
      BY <1>5 DEF n
    <3>2. CASE n = i
      <4>1. r.of = selected /\ r.changed = server[selected] /\ selected \in DOMAIN server
        BY <1>1, <1>4, <2>1, <3>2 DEF IsCurrent, v
      <4> QED  BY <1>1, <1>5, <3>1, <3>2, <4>1 DEF IsCurrent
    <3>3. CASE n # i
      BY <1>1, <1>5, <2>1, <3>1, <3>3 DEF IsCurrent
    <3> QED  BY <3>2, <3>3
  <2>2. loads # <<>> /\ loads' # <<>> /\ n \in 1 .. n
    <3>1. i \in 1 .. n
      BY <1>2
    <3>2. DOMAIN loads # {} /\ DOMAIN loads' # {} /\ n \in 1 .. n
      BY <1>2, <1>5, <3>1
    <3> QED  BY <3>2, NoLoads
  <2>3. Behind' = Behind /\ Choosing' = Choosing
    BY <1>1 DEF Behind, Choosing
  <2> QED  BY <1>1, <2>1, <2>2, <2>3 DEF ViewInv, n
<1> QED  BY <1>7, <1>8, <1>9, <1>10

LEMMA LoadFailsKeeps ==
  ASSUME PageInv, NEW i \in DOMAIN loads, LoadFails(i)
  PROVE  PageInv'
<1> USE DEF PageInv
<1>1. /\ loads' = RemoveAt(loads, i) /\ action' = ActionAfter(i) /\ calm' = FALSE
      /\ UNCHANGED <<server, listed, selected, details>>
  BY DEF LoadFails
<1>2. loads' \in Seq(Requests) /\ LoadsInv' /\ action' \in {action, Nothing}
  BY <1>1, RemoveKeepsLoads
<1>3. PageTyped'
  BY <1>1, <1>2 DEF PageTyped
<1>4. ActionInv' /\ ViewInv'
  BY <1>1 DEF ActionInv, ViewInv
<1> QED  BY <1>2, <1>3, <1>4

LEMMA ReceiveDetailsKeeps ==
  ASSUME PageInv, NEW i \in DOMAIN loads, ReceiveDetails(i)
  PROVE  PageInv'
<1> USE DEF PageInv
<1> DEFINE n == Len(loads)
<1>1. /\ loads[i].changed >= 0 /\ details' = [of |-> loads[i].of, changed |-> loads[i].changed]
      /\ loads' = RemoveAt(loads, i) /\ action' = ActionAfter(i) /\ calm' = (calm /\ i = 1)
      /\ UNCHANGED <<server, listed, selected>>
  BY DEF ReceiveDetails
<1>2. loads' \in Seq(Requests) /\ LoadsInv' /\ action' \in {action, Nothing}
  BY <1>1, RemoveKeepsLoads
<1>3. /\ n \in Nat /\ DOMAIN loads = 1 .. n /\ Len(loads') = n - 1
      /\ \A j \in 1 .. n - 1 : loads'[j] = IF j < i THEN loads[j] ELSE loads[j + 1]
  <2> DEFINE s == RemoveAt(loads, i)
  <2>1. /\ n \in Nat /\ DOMAIN loads = 1 .. n /\ Len(s) = n - 1
        /\ \A j \in 1 .. n - 1 : s[j] = IF j < i THEN loads[j] ELSE loads[j + 1]
    BY LoadsRemove DEF PageTyped
  <2>2. loads' = s
    BY <1>1
  <2> HIDE DEF n, s
  <2> QED  BY <2>1, <2>2
<1> HIDE DEF n
<1>4. PageTyped'
  <2>1. calm \in BOOLEAN /\ calm' \in BOOLEAN
    BY <1>1 DEF PageTyped
  <2> QED  BY <1>1, <1>2, <2>1 DEF PageTyped
<1>5. calm' => calm /\ i = 1
  BY <1>1
<1>6. ActionInv'
  <2>1. CASE action' = Nothing
    BY <2>1, NothingHolds
  <2>2. CASE action' = action
    BY <1>1, <1>5, <2>2 DEF ActionInv
  <2> QED  BY <1>2, <2>1, <2>2
\* The action that waited for this reply was not behind, nor about to choose.
<1>7. Behind' = Behind /\ Choosing' = Choosing
  <2>1. CASE loads[i].by = "action"
    <3>1. action' = Nothing /\ action.stage = "refreshing"
      BY <1>1, <2>1 DEF ActionAfter, LoadsInv
    <3>2. Behind = FALSE /\ Choosing = FALSE /\ Behind' = FALSE /\ Choosing' = FALSE
      BY <3>1, NothingHolds DEF Behind, Choosing
    <3> QED  BY <3>2
  <2>2. CASE loads[i].by # "action"
    <3>1. action' = action
      BY <1>1, <2>2 DEF ActionAfter
    <3> QED  BY <3>1 DEF Behind, Choosing
  <2> QED  BY <2>1, <2>2
<1>8. ASSUME calm', selected # "", ~Behind
      PROVE  IF loads' = <<>>
               THEN selected' \in DOMAIN server' /\ details' = [of |-> selected', changed |-> server'[selected']]
               ELSE IsCurrent(loads[Len(loads)])'
  <2>1. loads # <<>>
    BY NoLoads
  <2>2. IsCurrent(loads[n])
    BY <1>5, <1>8, <2>1 DEF ViewInv, n
  <2>3. CASE n = 1
    <3>1. loads' = <<>>
      <4>1. Len(loads') = 0
        BY <1>3, <2>3
      <4> QED  BY <1>2, <4>1, EmptySeq
    <3>2. loads[1].of = selected /\ loads[1].changed # -1
      <4>1. loads[i] \in Requests /\ i = n
        <5>1. loads \in Seq(Requests) /\ i = 1
          BY <1>5, <1>8 DEF PageTyped
        <5> QED  BY <2>3, <5>1
      <4>2. loads[i].changed # -1
        BY <1>1, <4>1, RequestFields, Unread
      <4> QED  BY <2>2, <2>3, <4>1, <4>2 DEF IsCurrent
    <3>3. selected \in DOMAIN server /\ loads[1].changed = server[selected]
      BY <2>2, <2>3, <3>2 DEF IsCurrent
    <3> QED  BY <1>1, <1>5, <1>8, <3>1, <3>2, <3>3
  <2>4. CASE n # 1
    <3> DEFINE m == n - 1
    <3>1. m \in 1 .. m /\ ~(m < i) /\ m + 1 = n
      <4>1. i = 1 /\ i \in 1 .. n /\ n \in Nat
        BY <1>3, <1>5, <1>8
      <4> QED  BY <2>4, <4>1, Predecessor
    <3>2. Len(loads') = m /\ loads'[m] = loads[n]
      BY <1>3, <3>1
    <3> HIDE DEF m
    <3>3. loads' # <<>>
      BY <3>1, <3>2, NoLoads
    <3>4. IsCurrent(loads[Len(loads)])'
      BY <1>1, <2>2, <3>2 DEF IsCurrent
    <3> QED  BY <3>3, <3>4
  <2> QED  BY <2>3, <2>4
<1>9. ViewInv'
  <2>1. calm' /\ selected' = "" /\ ~Choosing' => DOMAIN server' = {}
    BY <1>1, <1>5, <1>7 DEF ViewInv
  <2> QED  BY <1>1, <1>7, <1>8, <2>1 DEF ViewInv
<1> QED  BY <1>2, <1>4, <1>6, <1>9

LEMMA PageStep ==
  ASSUME PageInv, [PageNext]_course
  PROVE  PageInv'
<1>1. CASE UNCHANGED course
  BY <1>1 DEF course, PageInv, PageTyped, LoadsInv, ActionInv, ViewInv, IsCurrent, Behind, Choosing
<1>2. CASE PageNext
  BY <1>2, SelectClassKeeps, PressKeeps, ServeKeeps, ServedKeeps, ListedKeeps, ActionFailsKeeps,
     ReadDetailsKeeps, ReceiveDetailsKeeps, LoadFailsKeeps DEF PageNext
<1> QED  BY <1>1, <1>2

-----------------------------------------------------------------------------
(***************************************************************************)
(* The theorems.                                                           *)
(***************************************************************************)
\* The requests and the action of the page are well formed, the load an action
\* waits for is the only one of its kind, and while the page is calm an action
\* is about the class that is selected, and the last reply on its way will show
\* that class as the server has it, unless the action is yet to ask for it.
THEOREM CoursePageInvariant == PageSpec => []PageInv
<1>1. PageInit => PageInv
  BY PageInitially
<1>2. PageInv /\ [PageNext]_course => PageInv'
  BY PageStep
<1> QED  BY <1>1, <1>2, PTL DEF PageSpec

\* A page with nothing on its way shows an active class, if there is one, as the
\* server has it, unless a request failed, loads overtook each other, or a class
\* was selected during an action (loadClassDetails, runAction).
THEOREM QuietPagesAreCurrent == PageSpec => []QuietPageIsCurrent
<1>1. PageInv => QuietPageIsCurrent
  <2>1. SUFFICES ASSUME PageInv, Quiet, calm
                 PROVE  /\ selected = "" <=> DOMAIN server = {}
                        /\ selected # "" => details = [of |-> selected, changed |-> server[selected]]
    BY DEF QuietPageIsCurrent
  <2>2. loads = <<>> /\ action.op = "none"
    BY <2>1 DEF Quiet, Nothing
  <2>3. ~Behind /\ ~Choosing
    BY <2>2 DEF Behind, Choosing
  <2> QED  BY <2>1, <2>2, <2>3 DEF PageInv, ViewInv
<1> QED  BY <1>1, CoursePageInvariant, PTL

=============================================================================
