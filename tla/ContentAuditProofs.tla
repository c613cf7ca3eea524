-------------------------- MODULE ContentAuditProofs --------------------------
(***************************************************************************)
(* What ContentAudit promises, for any script, any number of weeks and     *)
(* options, and however the run is played: that the replay repeats every   *)
(* effect and every answer, and that nothing that was published is lost.   *)
(***************************************************************************)
EXTENDS ContentAudit, FiniteSetTheorems, SequenceTheorems, WellFoundedInduction, TLAPS

-----------------------------------------------------------------------------
(***************************************************************************)
(* Natural numbers, and entries in the order of priority.                  *)
(***************************************************************************)
LEMMA LeastNatural ==
  ASSUME NEW S \in SUBSET Nat, S # {}
  PROVE  \E m \in S : \A n \in S : m <= n
<1>1. IsWellFoundedOn(OpToRel(<, Nat), Nat)
  BY NatLessThanWellFounded
<1>2. PICK m \in S : \A n \in S : <<n, m>> \notin OpToRel(<, Nat)
  <2>1. S \subseteq Nat
    OBVIOUS
  <2> QED  BY <1>1, <2>1, WFMin
<1>3. \A n \in S : ~(n < m)
  BY <1>2 DEF OpToRel
<1> QED  BY <1>3

\* Induction, for a property given as the set of the numbers that have it.
LEMMA Induction ==
  ASSUME NEW S, 0 \in S, \A n \in Nat : n \in S => n + 1 \in S
  PROVE  \A n \in Nat : n \in S
<1>1. SUFFICES ASSUME NEW k \in Nat, k \notin S PROVE FALSE
  OBVIOUS
<1>2. PICK m \in Nat \ S : \A n \in Nat \ S : m <= n
  BY <1>1, LeastNatural
<1>3. m \in Nat /\ m # 0 /\ m \notin S
  OBVIOUS
<1> DEFINE n == m - 1
<1>4. n \in Nat /\ ~(m <= n) /\ n + 1 = m
  BY <1>3
<1>5. n \in S
  BY <1>2, <1>4
<1> HIDE DEF n
<1> QED  BY <1>3, <1>4, <1>5

\* Any entries have a first one in the order of priority and sequence.
LEMMA FirstInOrder ==
  ASSUME NEW n \in Nat, NEW priority \in [1 .. n -> Int], NEW T \in SUBSET (1 .. n), T # {}
  PROVE  \E e \in T : \A f \in T :
           ~(priority[f] < priority[e] \/ (priority[f] = priority[e] /\ f < e))
<1> DEFINE Smaller(f, e) == priority[f] < priority[e] \/ (priority[f] = priority[e] /\ f < e)
           First(U) == \E e \in U : \A f \in U : ~Smaller(f, e)
           S == {k \in Nat : k <= n => \A U \in SUBSET (1 .. k) : U # {} => First(U)}
<1>1. 0 \in S
  <2>1. \A U \in SUBSET (1 .. 0) : U = {}
    OBVIOUS
  <2> QED  BY <2>1
<1>2. ASSUME NEW k \in Nat, k \in S PROVE k + 1 \in S
  <2> SUFFICES ASSUME k + 1 <= n, NEW U \in SUBSET (1 .. k + 1), U # {} PROVE First(U)
    OBVIOUS
  <2> DEFINE V == U \ {k + 1}
  <2>1. V \in SUBSET (1 .. k) /\ k <= n
    OBVIOUS
  <2>2. \A f \in U : priority[f] \in Int /\ f \in Int
    OBVIOUS
  <2>3. CASE V = {}
    <3>1. U = {k + 1}
      BY <2>3
    <3>2. ~Smaller(k + 1, k + 1)
      BY <2>2, <3>1
    <3> QED  BY <3>1, <3>2
  <2>4. CASE V # {}
    <3>1. PICK m \in V : \A f \in V : ~Smaller(f, m)
      BY <1>2, <2>1, <2>4
    <3>2. CASE k + 1 \in U /\ Smaller(k + 1, m)
      <4>1. \A f \in U : ~Smaller(f, k + 1)
        BY <2>2, <3>1, <3>2
      <4> QED  BY <3>2, <4>1
    <3>3. CASE ~(k + 1 \in U /\ Smaller(k + 1, m))
      <4>1. m \in U /\ \A f \in U : ~Smaller(f, m)
        BY <3>1, <3>3
      <4> QED  BY <4>1
    <3> QED  BY <3>2, <3>3
  <2> QED  BY <2>3, <2>4
<1>3. \A k \in Nat : k \in S
  <2> HIDE DEF S
  <2> QED  BY <1>1, <1>2, Induction
<1> HIDE DEF First
<1>4. First(T)
  <2>1. n \in S
    BY <1>3
  <2>2. n <= n => \A U \in SUBSET (1 .. n) : U # {} => First(U)
    BY <2>1
  <2>3. n <= n
    OBVIOUS
  <2> QED  BY <2>2, <2>3
<1> QED  BY <1>4 DEF First

-----------------------------------------------------------------------------
(***************************************************************************)
(* Effects that are applied one after the other.                           *)
(***************************************************************************)
LEMMA StagesDefined ==
  ASSUME NEW presentation, NEW sequence, Len(sequence) \in Nat
  PROVE  Stages(presentation, sequence) =
           [i \in 0 .. Len(sequence) |->
              IF i = 0 THEN presentation
              ELSE ApplyEffect(Stages(presentation, sequence)[i - 1], sequence[i])]
<1> DEFINE Is(f, n) == f = [i \in 0 .. n |->
                              IF i = 0 THEN presentation ELSE ApplyEffect(f[i - 1], sequence[i])]
           S == {n \in Nat : \E f : Is(f, n)}
<1>1. 0 \in S
  <2> DEFINE f == [i \in 0 .. 0 |-> presentation]
  <2>1. Is(f, 0)
    OBVIOUS
  <2> QED  BY <2>1
<1>2. ASSUME NEW n \in Nat, n \in S PROVE n + 1 \in S
  <2>1. PICK f : Is(f, n)
    BY <1>2
  <2> DEFINE g == [i \in 0 .. n + 1 |->
                     IF i = 0 THEN presentation ELSE ApplyEffect(f[i - 1], sequence[i])]
  <2>2. ASSUME NEW i \in 0 .. n PROVE g[i] = f[i]
    <3>1. i \in 0 .. n + 1
      OBVIOUS
    <3> QED  BY <2>1, <3>1
  <2>3. ASSUME NEW i \in 0 .. n + 1, i # 0 PROVE g[i - 1] = f[i - 1]
    <3>1. i - 1 \in 0 .. n
      BY <2>3
    <3> HIDE DEF g
    <3> QED  BY <2>2, <3>1
  <2>4. g = [i \in 0 .. n + 1 |->
               IF i = 0 THEN presentation ELSE ApplyEffect(g[i - 1], sequence[i])]
    BY <2>3
  <2> HIDE DEF g
  <2>5. \E h : Is(h, n + 1)
    BY <2>4
  <2> HIDE DEF Is
  <2> QED  BY <2>5
<1>3. \A n \in Nat : n \in S
  <2> HIDE DEF S
  <2> QED  BY <1>1, <1>2, Induction
<1>4. \E f : Is(f, Len(sequence))
  BY <1>3
<1> QED  BY <1>4 DEF Stages

\* Nothing is applied, or one effect more.
LEMMA AppliedNone ==
  ASSUME NEW presentation
  PROVE  Applied(presentation, <<>>) = presentation
<1>1. Len(<<>>) = 0
  OBVIOUS
<1> QED  BY <1>1, StagesDefined DEF Applied

LEMMA StagesAgree ==
  ASSUME NEW presentation, NEW s, NEW t, NEW n \in Nat, Len(s) \in Nat, Len(t) \in Nat,
         n <= Len(s), n <= Len(t), \A i \in 1 .. n : s[i] = t[i]
  PROVE  Stages(presentation, s)[n] = Stages(presentation, t)[n]
<1> DEFINE f == Stages(presentation, s)
           g == Stages(presentation, t)
           S == {k \in Nat : k <= n => f[k] = g[k]}
<1>1. f = [i \in 0 .. Len(s) |-> IF i = 0 THEN presentation ELSE ApplyEffect(f[i - 1], s[i])]
  BY StagesDefined
<1>2. g = [i \in 0 .. Len(t) |-> IF i = 0 THEN presentation ELSE ApplyEffect(g[i - 1], t[i])]
  BY StagesDefined
<1> HIDE DEF f, g
<1>3. 0 \in S
  BY <1>1, <1>2
<1>4. ASSUME NEW k \in Nat, k \in S PROVE k + 1 \in S
  <2> SUFFICES ASSUME k + 1 <= n PROVE f[k + 1] = g[k + 1]
    OBVIOUS
  <2>1. f[k] = g[k] /\ s[k + 1] = t[k + 1]
    BY <1>4
  <2>2. k + 1 \in 0 .. Len(s) /\ k + 1 \in 0 .. Len(t) /\ k + 1 # 0 /\ (k + 1) - 1 = k
    OBVIOUS
  <2>3. f[k + 1] = ApplyEffect(f[k], s[k + 1]) /\ g[k + 1] = ApplyEffect(g[k], t[k + 1])
    BY <1>1, <1>2, <2>2
  <2> QED  BY <2>1, <2>3
<1>5. \A k \in Nat : k \in S
  <2> HIDE DEF S
  <2> QED  BY <1>3, <1>4, Induction
<1> QED  BY <1>5 DEF f, g

LEMMA AppliedAppend ==
  ASSUME NEW presentation, NEW T, NEW s \in Seq(T), NEW effect \in T
  PROVE  Applied(presentation, Append(s, effect)) = ApplyEffect(Applied(presentation, s), effect)
<1> DEFINE t == Append(s, effect)
           n == Len(s)
<1>1. n \in Nat /\ Len(t) = n + 1 /\ t[n + 1] = effect /\ \A i \in 1 .. n : s[i] = t[i]
  OBVIOUS
<1>2. Stages(presentation, t)[n] = Stages(presentation, s)[n]
  <2> HIDE DEF t, n
  <2>1. Len(s) = n
    BY DEF n
  <2>2. n <= Len(t) /\ n <= Len(s) /\ Len(t) \in Nat /\ Len(s) \in Nat
    BY <1>1, <2>1
  <2>3. \A i \in 1 .. n : t[i] = s[i]
    BY <1>1
  <2> QED  BY <1>1, <2>2, <2>3, StagesAgree
<1>3. Stages(presentation, t)[n + 1] = ApplyEffect(Stages(presentation, t)[n], t[n + 1])
  <2>1. n + 1 \in 0 .. Len(t) /\ n + 1 # 0 /\ (n + 1) - 1 = n
    BY <1>1
  <2> HIDE DEF t, n
  <2> QED  BY <1>1, <2>1, StagesDefined
<1>4. Applied(presentation, t) = Stages(presentation, t)[n + 1]
  BY <1>1 DEF Applied
<1>5. Applied(presentation, s) = Stages(presentation, s)[n]
  BY DEF Applied
<1> HIDE DEF n
<1> QED  BY <1>1, <1>2, <1>3, <1>4, <1>5

-----------------------------------------------------------------------------
(***************************************************************************)
(* Answers that are put in order, and put in order again.                  *)
(***************************************************************************)
LEMMA ToSetAppend ==
  ASSUME NEW T, NEW q \in Seq(T), NEW o \in T
  PROVE  Append(q, o) \in Seq(T) /\ ToSet(Append(q, o)) = ToSet(q) \cup {o}
<1>1. Append(q, o) \in Seq(T) /\ Len(Append(q, o)) = Len(q) + 1 /\ Len(q) \in Nat
  OBVIOUS
<1>2. Append(q, o)[Len(q) + 1] = o /\ \A i \in 1 .. Len(q) : Append(q, o)[i] = q[i]
  OBVIOUS
<1>3. DOMAIN q = 1 .. Len(q) /\ DOMAIN Append(q, o) = (1 .. Len(q)) \cup {Len(q) + 1}
  <2>1. DOMAIN Append(q, o) = 1 .. Len(q) + 1
    BY <1>1
  <2> QED  BY <1>1, <2>1
<1> QED  BY <1>1, <1>2, <1>3 DEF ToSet

LEMMA OptionsTyped == Len(Options) \in Nat /\ \A i \in 1 .. Len(Options) : Options[i] \in STRING
<1>1. Options \in Seq(STRING)
  BY AuditAssumption
<1> QED  BY <1>1

LEMMA KeptDefined ==
  ASSUME NEW chosen
  PROVE  Kept(chosen) =
           [i \in 0 .. Len(Options) |->
              IF i = 0 THEN <<>>
              ELSE IF Options[i] \in chosen THEN Append(Kept(chosen)[i - 1], Options[i])
              ELSE Kept(chosen)[i - 1]]
<1> DEFINE After(q, i) == IF Options[i] \in chosen THEN Append(q, Options[i]) ELSE q
           Is(f, n) == f = [i \in 0 .. n |-> IF i = 0 THEN <<>> ELSE After(f[i - 1], i)]
           S == {n \in Nat : \E f : Is(f, n)}
<1>1. 0 \in S
  <2> DEFINE f == [i \in 0 .. 0 |-> <<>>]
  <2>1. Is(f, 0)
    OBVIOUS
  <2> QED  BY <2>1
<1>2. ASSUME NEW n \in Nat, n \in S PROVE n + 1 \in S
  <2>1. PICK f : Is(f, n)
    BY <1>2
  <2> DEFINE g == [i \in 0 .. n + 1 |-> IF i = 0 THEN <<>> ELSE After(f[i - 1], i)]
  <2> HIDE DEF After
  <2>2. ASSUME NEW i \in 0 .. n PROVE g[i] = f[i]
    <3>1. i \in 0 .. n + 1
      OBVIOUS
    <3> QED  BY <2>1, <3>1
  <2>3. ASSUME NEW i \in 0 .. n + 1, i # 0 PROVE g[i - 1] = f[i - 1]
    <3>1. i - 1 \in 0 .. n
      BY <2>3
    <3> HIDE DEF g
    <3> QED  BY <2>2, <3>1
  <2>4. g = [i \in 0 .. n + 1 |-> IF i = 0 THEN <<>> ELSE After(g[i - 1], i)]
    BY <2>3
  <2> HIDE DEF g
  <2>5. \E h : Is(h, n + 1)
    BY <2>4
  <2> HIDE DEF Is
  <2> QED  BY <2>5
<1>3. \A n \in Nat : n \in S
  <2> HIDE DEF S
  <2> QED  BY <1>1, <1>2, Induction
<1>4. \E f : Is(f, Len(Options))
  <2>1. Len(Options) \in S
    BY <1>3, OptionsTyped
  <2> QED  BY <2>1
<1> QED  BY <1>4 DEF Kept

\* What is kept of the first n options is what was chosen of them.
LEMMA KeptMembers ==
  ASSUME NEW chosen, NEW n \in 0 .. Len(Options)
  PROVE  /\ Kept(chosen)[n] \in Seq(STRING)
         /\ ToSet(Kept(chosen)[n]) = {Options[i] : i \in 1 .. n} \cap chosen
<1> DEFINE k == Kept(chosen)
           Members(m) == k[m] \in Seq(STRING)
                         /\ ToSet(k[m]) = {Options[i] : i \in 1 .. m} \cap chosen
           S == {m \in Nat : m <= Len(Options) => Members(m)}
<1>1. k = [i \in 0 .. Len(Options) |->
             IF i = 0 THEN <<>>
             ELSE IF Options[i] \in chosen THEN Append(k[i - 1], Options[i]) ELSE k[i - 1]]
  BY KeptDefined
<1> HIDE DEF k
<1>2. 0 \in S
  <2>1. k[0] = <<>>
    BY <1>1, OptionsTyped
  <2>2. ToSet(k[0]) = {}
    BY <2>1 DEF ToSet
  <2>3. {Options[i] : i \in 1 .. 0} = {} /\ k[0] \in Seq(STRING)
    BY <2>1
  <2> QED  BY <2>2, <2>3
<1>3. ASSUME NEW m \in Nat, m \in S PROVE m + 1 \in S
  <2> SUFFICES ASSUME m + 1 <= Len(Options) PROVE Members(m + 1)
    OBVIOUS
  <2>1. Members(m)
    BY <1>3, OptionsTyped
  <2>2. m + 1 \in 0 .. Len(Options) /\ m + 1 # 0 /\ (m + 1) - 1 = m /\ Options[m + 1] \in STRING
    BY OptionsTyped
  <2>3. {Options[i] : i \in 1 .. m + 1} = {Options[i] : i \in 1 .. m} \cup {Options[m + 1]}
    <3>1. 1 .. m + 1 = (1 .. m) \cup {m + 1}
      OBVIOUS
    <3> QED  BY <3>1
  <2>4. CASE Options[m + 1] \in chosen
    <3>1. k[m + 1] = Append(k[m], Options[m + 1])
      BY <1>1, <2>2, <2>4
    <3>2. Append(k[m], Options[m + 1]) \in Seq(STRING)
          /\ ToSet(Append(k[m], Options[m + 1])) = ToSet(k[m]) \cup {Options[m + 1]}
      BY <2>1, <2>2, ToSetAppend
    <3> QED  BY <2>1, <2>2, <2>3, <2>4, <3>1, <3>2
  <2>5. CASE Options[m + 1] \notin chosen
    <3>1. k[m + 1] = k[m]
      BY <1>1, <2>2, <2>5
    <3> QED  BY <2>1, <2>3, <2>5, <3>1
  <2> QED  BY <2>4, <2>5
<1>4. \A m \in Nat : m \in S
  <2> HIDE DEF S
  <2> QED  BY <1>2, <1>3, Induction
<1>5. n \in Nat /\ n <= Len(Options)
  BY OptionsTyped
<1>6. Members(n)
  BY <1>4, <1>5
<1> QED  BY <1>6 DEF k

\* It depends on nothing but which options were chosen.
LEMMA KeptAgree ==
  ASSUME NEW a, NEW b, \A i \in 1 .. Len(Options) : (Options[i] \in a) <=> (Options[i] \in b)
  PROVE  Kept(a)[Len(Options)] = Kept(b)[Len(Options)]
<1> DEFINE f == Kept(a)
           g == Kept(b)
           S == {k \in Nat : k <= Len(Options) => f[k] = g[k]}
<1>1. f = [i \in 0 .. Len(Options) |->
             IF i = 0 THEN <<>>
             ELSE IF Options[i] \in a THEN Append(f[i - 1], Options[i]) ELSE f[i - 1]]
  BY KeptDefined
<1>2. g = [i \in 0 .. Len(Options) |->
             IF i = 0 THEN <<>>
             ELSE IF Options[i] \in b THEN Append(g[i - 1], Options[i]) ELSE g[i - 1]]
  BY KeptDefined
<1> HIDE DEF f, g
<1>3. 0 \in S
  BY <1>1, <1>2, OptionsTyped
<1>4. ASSUME NEW k \in Nat, k \in S PROVE k + 1 \in S
  <2> SUFFICES ASSUME k + 1 <= Len(Options) PROVE f[k + 1] = g[k + 1]
    OBVIOUS
  <2>1. f[k] = g[k] /\ k + 1 \in 0 .. Len(Options) /\ k + 1 \in 1 .. Len(Options)
    BY <1>4, OptionsTyped
  <2>2. k + 1 # 0 /\ (k + 1) - 1 = k
    OBVIOUS
  <2>3. f[k + 1] = IF Options[k + 1] \in a THEN Append(f[k], Options[k + 1]) ELSE f[k]
    BY <1>1, <2>1, <2>2
  <2>4. g[k + 1] = IF Options[k + 1] \in b THEN Append(g[k], Options[k + 1]) ELSE g[k]
    BY <1>2, <2>1, <2>2
  <2> QED  BY <2>1, <2>3, <2>4
<1>5. \A k \in Nat : k \in S
  <2> HIDE DEF S
  <2> QED  BY <1>3, <1>4, Induction
<1> QED  BY <1>5, OptionsTyped DEF f, g

\* An answer that was normalized is its own normal form (normalize_answer).
LEMMA NormalizedOnce ==
  ASSUME NEW answer
  PROVE  NormalizeAnswer(NormalizeAnswer(answer)) = NormalizeAnswer(answer)
<1> DEFINE chosen == ToSet(answer)
           n == Len(Options)
           kept == Kept(chosen)[n]
<1>1. n \in 0 .. Len(Options)
  BY OptionsTyped
<1>2. ToSet(kept) = {Options[i] : i \in 1 .. n} \cap chosen
  BY <1>1, KeptMembers
<1>3. \A i \in 1 .. Len(Options) : (Options[i] \in ToSet(kept)) <=> (Options[i] \in chosen)
  BY <1>2
<1>4. Kept(ToSet(kept))[Len(Options)] = Kept(chosen)[Len(Options)]
  <2> HIDE DEF kept, chosen
  <2> QED  BY <1>3, KeptAgree
<1> QED  BY <1>4 DEF NormalizeAnswer

-----------------------------------------------------------------------------
(***************************************************************************)
(* The inductive invariant.                                                *)
(***************************************************************************)
Presentations == [messages : Seq(Entries), theme : 0 .. N]
Effects == [type : {"message", "theme"}, of : Entries]
AuditRecords == [entry : Entries, effect : Effects, before : Presentations, after : Presentations]
Resolutions == [at : R!Checkpoints, as : {"start", "gate", "close", "end", "response"}]

AuditTyped ==
  /\ script \in Published
  /\ status \in [Entries -> {"pending", "actionable", "completed"}]
  /\ week \in Nat /\ ended \in BOOLEAN
  /\ agenda \in Seq(Resolutions) /\ round \subseteq Entries
  /\ effects \in Seq(AuditRecords)

\* A gate is that of the next week and comes first; a run that goes on has one.
AgendaInv ==
  /\ ~ended => week < Weeks
  /\ \A i \in DOMAIN agenda :
       agenda[i].as = "gate" => i = 1 /\ ~ended /\ agenda[i].at = R!BeforeWeek(week + 1)

\* What was delivered, or is about to be, has what it depends on; what
\* completes by itself does not wait for the student.
DeliveryInv ==
  /\ \A e \in round : status[e] = "pending" /\ script.dependsOn[e] \subseteq R!Completed(status)
  /\ \A e \in Entries : status[e] # "pending" => script.dependsOn[e] \subseteq R!Completed(status)
  /\ \A e \in Entries : status[e] = "actionable" => script.form[e] \in {"fragment", "question", "survey"}

AuditInv ==
  /\ AuditTyped /\ AgendaInv /\ DeliveryInv
  /\ ~EffectsDiffer /\ ~ResponsesDiffer
  /\ FirmIsInTime

-----------------------------------------------------------------------------
(***************************************************************************)
(* Scripts and what the resolver makes of them.                            *)
(***************************************************************************)
\* What is known of a script that can be published.
LEMMA ScriptTyped ==
  ASSUME script \in Published
  PROVE  /\ N \in Nat /\ Weeks \in Nat \ {0}
         /\ script.trigger \in [Entries -> R!Checkpoints]
         /\ script.priority \in [Entries -> Int]
         /\ script.form \in [Entries -> Forms]
         /\ script.dependsOn \in [Entries -> SUBSET Entries]
         /\ Acyclic(script)
  BY AuditAssumption DEF Published, Publishable

LEMMA CheckpointsTyped ==
  ASSUME NEW a \in R!Checkpoints, Weeks \in Nat
  PROVE  a = <<a[1], a[2]>> /\ a[1] \in Int /\ a[2] \in Int /\ a[1] <= Weeks + 1
  BY DEF R!Checkpoints, R!RunStarted, R!RunFinished, R!BeforeWeek, R!AfterWeek

\* The validator's own sort keys put checkpoints in the resolver's order.
LEMMA DependenciesNotAfter ==
  ASSUME script \in Published, NEW e \in Entries, NEW d \in script.dependsOn[e]
  PROVE  d \in Entries /\ R!NotAfter(script.trigger[d], script.trigger[e])
<1> DEFINE a == script.trigger[d]
           b == script.trigger[e]
<1>1. d \in Entries /\ a \in R!Checkpoints /\ b \in R!Checkpoints /\ Weeks \in Nat
  BY ScriptTyped
<1>2. ~Later(Checkpoint(a), Checkpoint(b))
  BY DEF Published, Publishable
<1>3. a[1] \in Int /\ a[2] \in Int /\ b[1] \in Int /\ b[2] \in Int
  BY <1>1, CheckpointsTyped
<1> HIDE DEF a, b
<1>4. Checkpoint(a)[1] = a[1] /\ Checkpoint(a)[2] = IF a[1] \in 1 .. Weeks THEN a[2] - 1 ELSE a[2]
  BY DEF Checkpoint
<1>5. Checkpoint(b)[1] = b[1] /\ Checkpoint(b)[2] = IF b[1] \in 1 .. Weeks THEN b[2] - 1 ELSE b[2]
  BY DEF Checkpoint
<1>6. R!NotAfter(a, b)
  BY <1>1, <1>2, <1>3, <1>4, <1>5 DEF Later, R!NotAfter
<1> QED  BY <1>1, <1>6 DEF a, b

\* So what an entry that is due depends on is due.
LEMMA DueDependencies ==
  ASSUME script \in Published, NEW at \in R!Checkpoints, NEW as,
         NEW e \in Due(at, as), NEW d \in script.dependsOn[e]
  PROVE  d \in Due(at, as)
<1> DEFINE a == script.trigger[d]
           b == script.trigger[e]
<1>1. e \in Entries /\ d \in Entries /\ R!NotAfter(a, b)
  BY DependenciesNotAfter DEF Due
<1>2. a \in R!Checkpoints /\ b \in R!Checkpoints /\ Weeks \in Nat
  BY <1>1, ScriptTyped
<1>3. a[1] \in Int /\ a[2] \in Int /\ b[1] \in Int /\ b[2] \in Int /\ at[1] \in Int /\ at[2] \in Int
  BY <1>2, CheckpointsTyped
<1>4. R!NotAfter(b, at) /\ (b = R!RunFinished => as = "end")
  BY DEF Due
<1>5. a = R!RunFinished => b = R!RunFinished
  <2>1. b[1] <= Weeks + 1 /\ (b[1] = Weeks + 1 => b = <<Weeks + 1, 0>>)
    BY <1>2 DEF R!Checkpoints, R!RunStarted, R!RunFinished, R!BeforeWeek, R!AfterWeek
  <2> HIDE DEF a, b
  <2> QED  BY <1>1, <1>2, <1>3, <2>1 DEF R!NotAfter, R!RunFinished
<1>6. R!NotAfter(a, at)
  <2> HIDE DEF a, b
  <2> QED  BY <1>1, <1>3, <1>4 DEF R!NotAfter
<1> QED  BY <1>1, <1>4, <1>5, <1>6 DEF Due

\* An entry that a round could deliver, in the terms of the script.
Waiting(e, at, as) ==
  /\ e \in Due(at, as) /\ status[e] # "completed"
  /\ script.dependsOn[e] \subseteq R!Completed(status)

IsRequired(e) == script.form[e] \in {"fragment", "question"}

LEMMA CandidatesAreWaiting ==
  ASSUME script \in Published, NEW at, NEW as
  PROVE  R!Candidates(status, at, as = "end") = {e \in Entries : Waiting(e, at, as)}
  BY DEF R!Candidates, R!IsEligible, R!DependenciesCompleted, R!Completed, Waiting, Due

LEMMA FreshMeans ==
  ASSUME AuditTyped, NEW at, NEW as
  PROVE  \A e \in Entries :
           e \in R!Fresh(status, at, as = "end") <=>
             /\ Waiting(e, at, as) /\ status[e] = "pending"
             /\ IsRequired(e) => \A f \in Entries : Waiting(f, at, as) /\ IsRequired(f) => ~R!Precedes(f, e)
<1> DEFINE C == R!Candidates(status, at, as = "end")
<1>1. C = {e \in Entries : Waiting(e, at, as)}
  BY CandidatesAreWaiting DEF AuditTyped
<1> HIDE DEF C
<1>2. R!Actionable(status, at, as = "end") =
        {e \in C : IsRequired(e) => \A f \in C : IsRequired(f) => ~R!Precedes(f, e)}
  BY <1>1 DEF C, R!Actionable, IsRequired
<1>3. R!Delivered(status) = {e \in Entries : status[e] # "pending"}
  BY DEF R!Delivered
<1> QED  BY <1>1, <1>2, <1>3 DEF R!Fresh

\* When nothing is fresh, what waits is actionable already, or waits behind
\* the first required entry, which is.
LEMMA NothingFresh ==
  ASSUME AuditTyped, NEW at, NEW as, R!Fresh(status, at, as = "end") = {},
         NEW e \in Entries, Waiting(e, at, as)
  PROVE  IF IsRequired(e) THEN \E f \in Entries : IsRequired(f) /\ status[f] = "actionable"
         ELSE status[e] = "actionable"
<1>1. \A f \in Entries : Waiting(f, at, as) => status[f] \in {"pending", "actionable"}
  BY DEF AuditTyped, Waiting
<1>2. CASE ~IsRequired(e)
  BY <1>1, <1>2, FreshMeans
<1>3. CASE IsRequired(e)
  <2> DEFINE T == {f \in Entries : Waiting(f, at, as) /\ IsRequired(f)}
  <2>1. T # {} /\ T \in SUBSET (1 .. N)
    BY <1>3 DEF Entries
  <2>2. N \in Nat /\ script.priority \in [1 .. N -> Int]
    BY ScriptTyped DEF AuditTyped, Entries
  <2>3. PICK m \in T : \A f \in T :
          ~(script.priority[f] < script.priority[m]
              \/ (script.priority[f] = script.priority[m] /\ f < m))
    <3> HIDE DEF T
    <3> QED  BY <2>1, <2>2, FirstInOrder
  <2>4. \A f \in T : ~R!Precedes(f, m)
    BY <2>3 DEF R!Precedes
  <2>5. m \in Entries /\ Waiting(m, at, as) /\ IsRequired(m)
    OBVIOUS
  <2>6. status[m] # "pending"
    BY <2>4, <2>5, FreshMeans
  <2> QED  BY <1>1, <1>3, <2>5, <2>6
<1> QED  BY <1>2, <1>3

\* So everything that is due is complete, once nothing is actionable.
LEMMA DueIsComplete ==
  ASSUME AuditTyped, NEW at \in R!Checkpoints, NEW as, R!Fresh(status, at, as = "end") = {},
         Actionables = {}
  PROVE  Due(at, as) \subseteq R!Completed(status)
<1> DEFINE S == Due(at, as) \ R!Completed(status)
<1>1. SUFFICES ASSUME S # {} PROVE FALSE
  OBVIOUS
<1>2. S \in SUBSET Entries
  BY DEF Due
<1>3. PICK e \in S : script.dependsOn[e] \cap S = {}
  BY <1>1, <1>2, ScriptTyped DEF Acyclic, AuditTyped
<1>4. script.dependsOn[e] \subseteq R!Completed(status)
  BY <1>3, DueDependencies DEF AuditTyped
<1>5. e \in Entries /\ Waiting(e, at, as)
  BY <1>2, <1>3, <1>4 DEF Waiting, R!Completed
<1>6. \E f \in Entries : status[f] = "actionable"
  BY <1>5, NothingFresh
<1> QED  BY <1>6 DEF Actionables

\* And in a firm part of a script, as soon as nothing blocks.
LEMMA FirmIsComplete ==
  ASSUME AuditTyped, DeliveryInv, NEW at \in R!Checkpoints, R!Fresh(status, at, FALSE) = {},
         R!Blocking(status) = {}, NEW F \in SUBSET Entries, Firm(F),
         NEW e \in F \cap Due(at, "gate")
  PROVE  status[e] = "completed" \/ (status[e] = "actionable" /\ script.form[e] = "survey")
<1>1. ("gate" = "end") = FALSE
  OBVIOUS
<1>2. R!Fresh(status, at, "gate" = "end") = {}
  BY <1>1
<1>3. \A f \in Entries : status[f] = "actionable" => ~IsRequired(f) /\ script.form[f] = "survey"
  BY DEF R!Blocking, IsRequired, DeliveryInv
<1>4. \A f \in Entries : Waiting(f, at, "gate") => status[f] = "actionable" /\ script.form[f] = "survey"
  BY <1>2, <1>3, NothingFresh
<1> DEFINE S == {f \in F \cap Due(at, "gate") : script.form[f] # "survey" /\ status[f] # "completed"}
<1>5. S = {}
  <2>1. SUFFICES ASSUME S # {} PROVE FALSE
    OBVIOUS
  <2>2. PICK f \in S : script.dependsOn[f] \cap S = {}
    BY <2>1, ScriptTyped DEF Acyclic, AuditTyped
  <2>3. script.dependsOn[f] \subseteq S \cup R!Completed(status)
    BY <2>2, DueDependencies DEF AuditTyped, Firm, R!Completed
  <2>4. Waiting(f, at, "gate")
    BY <2>2, <2>3 DEF Waiting
  <2> QED  BY <1>4, <2>4
<1>6. script.dependsOn[e] \subseteq R!Completed(status)
  BY <1>5, DueDependencies DEF AuditTyped, Firm, R!Completed
<1>7. e \in Entries /\ (status[e] # "completed" => Waiting(e, at, "gate"))
  BY <1>6 DEF Waiting, Due
<1> QED  BY <1>4, <1>7

-----------------------------------------------------------------------------
(***************************************************************************)
(* The audit of effects.                                                   *)
(***************************************************************************)
LEMMA ApplyEffectTyped ==
  ASSUME N \in Nat, NEW p \in Presentations, NEW effect \in Effects
  PROVE  ApplyEffect(p, effect) \in Presentations
<1>1. effect.type \in {"message", "theme"} /\ effect.of \in Entries /\ effect.of \in 0 .. N
  BY DEF Effects, Entries
<1>2. p = [messages |-> p.messages, theme |-> p.theme] /\ p.messages \in Seq(Entries) /\ p.theme \in 0 .. N
  BY DEF Presentations
<1>3. CASE effect.type = "message"
  <2>1. Append(p.messages, effect.of) \in Seq(Entries)
    BY <1>1, <1>2
  <2>2. ApplyEffect(p, effect) = [messages |-> Append(p.messages, effect.of), theme |-> p.theme]
    BY <1>2, <1>3 DEF ApplyEffect
  <2> QED  BY <1>2, <2>1, <2>2 DEF Presentations
<1>4. CASE effect.type = "theme"
  <2>1. ApplyEffect(p, effect) = [messages |-> p.messages, theme |-> effect.of]
    BY <1>2, <1>4 DEF ApplyEffect
  <2> QED  BY <1>1, <1>2, <2>1 DEF Presentations
<1> QED  BY <1>1, <1>3, <1>4

LEMMA AppliedTyped ==
  ASSUME N \in Nat, NEW p \in Presentations, NEW s \in Seq(Effects)
  PROVE  Applied(p, s) \in Presentations
<1> DEFINE f == Stages(p, s)
           n == Len(s)
           S == {k \in Nat : k <= n => f[k] \in Presentations}
<1>1. n \in Nat /\ \A i \in 1 .. n : s[i] \in Effects
  OBVIOUS
<1>2. f = [i \in 0 .. n |-> IF i = 0 THEN p ELSE ApplyEffect(f[i - 1], s[i])]
  BY <1>1, StagesDefined
<1>3. Applied(p, s) = f[n]
  BY DEF Applied
<1> HIDE DEF f, n
<1>4. 0 \in S
  BY <1>1, <1>2
<1>5. ASSUME NEW k \in Nat, k \in S PROVE k + 1 \in S
  <2> SUFFICES ASSUME k + 1 <= n PROVE f[k + 1] \in Presentations
    OBVIOUS
  <2>1. k + 1 \in 0 .. n /\ k + 1 \in 1 .. n /\ k + 1 # 0 /\ (k + 1) - 1 = k /\ f[k] \in Presentations
    BY <1>1, <1>5
  <2>2. f[k + 1] = ApplyEffect(f[k], s[k + 1])
    BY <1>2, <2>1
  <2>3. s[k + 1] \in Effects
    BY <1>1, <2>1
  <2> QED  BY <2>1, <2>2, <2>3, ApplyEffectTyped
<1>6. \A k \in Nat : k \in S
  <2> HIDE DEF S
  <2> QED  BY <1>4, <1>5, Induction
<1>7. n \in S
  BY <1>1, <1>6
<1> QED  BY <1>1, <1>3, <1>7

EffectsIn(rows) == [i \in DOMAIN rows |-> rows[i].effect]

\* Every row repeats: what replay calls the projection.
Repeats(rows) ==
  \A i \in DOMAIN rows :
    /\ rows[i].before = Applied(NoPresentation, [j \in 1 .. i - 1 |-> rows[j].effect])
    /\ rows[i].after = ApplyEffect(rows[i].before, rows[i].effect)

LEMMA RepeatsMeans == ~EffectsDiffer <=> Repeats(effects)
  BY DEF EffectsDiffer, Repeats

LEMMA RecordFields ==
  ASSUME NEW r \in AuditRecords
  PROVE  r.entry \in Entries /\ r.effect \in Effects /\ r.before \in Presentations /\ r.after \in Presentations
  BY DEF AuditRecords

LEMMA EffectsInTyped ==
  ASSUME NEW rows \in Seq(AuditRecords)
  PROVE  EffectsIn(rows) \in Seq(Effects) /\ Len(EffectsIn(rows)) = Len(rows)
<1> DEFINE n == Len(rows)
<1>1. n \in Nat /\ DOMAIN rows = 1 .. n /\ \A i \in 1 .. n : rows[i] \in AuditRecords
  OBVIOUS
<1> HIDE DEF n
<1>2. EffectsIn(rows) \in [1 .. n -> Effects]
  BY <1>1, RecordFields DEF EffectsIn
<1>3. EffectsIn(rows) \in Seq(Effects)
  BY <1>1, <1>2, IsASeq
<1>4. Len(EffectsIn(rows)) = n
  BY <1>1, <1>2, <1>3, LenProperties
<1> QED  BY <1>3, <1>4 DEF n

\* One row more repeats if it goes on from what was applied.
LEMMA RepeatsAppend ==
  ASSUME NEW rows \in Seq(AuditRecords), Repeats(rows), NEW r \in AuditRecords,
         r.before = Applied(NoPresentation, EffectsIn(rows)),
         r.after = ApplyEffect(r.before, r.effect)
  PROVE  /\ Append(rows, r) \in Seq(AuditRecords)
         /\ Repeats(Append(rows, r))
         /\ Applied(NoPresentation, EffectsIn(Append(rows, r))) = r.after
<1> DEFINE s == Append(rows, r)
           n == Len(rows)
<1>1. n \in Nat /\ DOMAIN rows = 1 .. n /\ s \in Seq(AuditRecords) /\ DOMAIN s = 1 .. n + 1
  OBVIOUS
<1>2. s[n + 1] = r /\ \A i \in 1 .. n : s[i] = rows[i]
  OBVIOUS
<1> HIDE DEF s, n
<1>3. EffectsIn(rows) \in Seq(Effects) /\ Len(EffectsIn(rows)) = n /\ r.effect \in Effects
  BY EffectsInTyped, RecordFields DEF n
<1>4. EffectsIn(s) = Append(EffectsIn(rows), r.effect)
  <2> DEFINE q == EffectsIn(rows)
             t == Append(q, r.effect)
  <2>1. t \in Seq(Effects) /\ DOMAIN t = 1 .. n + 1 /\ t[n + 1] = r.effect /\ \A i \in 1 .. n : t[i] = q[i]
    <3> HIDE DEF q
    <3>1. q \in Seq(Effects) /\ Len(q) = n
      BY <1>3 DEF q
    <3> QED  BY <1>1, <1>3, <3>1
  <2>2. \A i \in 1 .. n : q[i] = rows[i].effect
    BY <1>1 DEF EffectsIn
  <2>3. EffectsIn(s) = [i \in 1 .. n + 1 |-> s[i].effect]
    BY <1>1 DEF EffectsIn
  <2> HIDE DEF q, t
  <2>4. \A i \in 1 .. n + 1 : t[i] = s[i].effect
    BY <1>1, <1>2, <2>1, <2>2
  <2>5. t = [i \in 1 .. n + 1 |-> t[i]]
    BY <2>1
  <2> QED  BY <2>3, <2>4, <2>5 DEF q, t
<1>5. Applied(NoPresentation, EffectsIn(s)) = r.after
  BY <1>3, <1>4, AppliedAppend
<1>6. ASSUME NEW i \in DOMAIN s
      PROVE  /\ s[i].before = Applied(NoPresentation, [j \in 1 .. i - 1 |-> s[j].effect])
             /\ s[i].after = ApplyEffect(s[i].before, s[i].effect)
  <2>1. \A j \in 1 .. i - 1 : s[j] = rows[j]
    BY <1>1, <1>2
  <2>2. [j \in 1 .. i - 1 |-> s[j].effect] = [j \in 1 .. i - 1 |-> rows[j].effect]
    BY <2>1
  <2>3. CASE i = n + 1
    <3>1. i - 1 = n
      BY <1>1, <2>3
    <3>2. [j \in 1 .. i - 1 |-> rows[j].effect] = EffectsIn(rows)
      BY <1>1, <3>1 DEF EffectsIn
    <3> QED  BY <1>2, <2>2, <2>3, <3>2
  <2>4. CASE i # n + 1
    <3>1. i \in DOMAIN rows /\ s[i] = rows[i]
      BY <1>1, <1>2, <2>4
    <3> QED  BY <2>2, <3>1 DEF Repeats
  <2> QED  BY <2>3, <2>4
<1>7. Repeats(s)
  BY <1>6 DEF Repeats
<1> QED  BY <1>1, <1>5, <1>7 DEF s

LEMMA PrefixesOfTwo ==
  ASSUME NEW T, NEW a \in T, NEW b \in T
  PROVE  /\ SubSeq(<<a, b>>, 1, 0) = <<>>
         /\ SubSeq(<<a, b>>, 1, 1) = Append(<<>>, a)
         /\ SubSeq(<<a, b>>, 1, 2) = Append(Append(<<>>, a), b)
<1> DEFINE s == <<a, b>>
<1>1. s \in Seq(T) /\ Len(s) = 2 /\ s[1] = a /\ s[2] = b
  OBVIOUS
<1> HIDE DEF s
<1>2. SubSeq(s, 1, 0) = <<>>
  BY <1>1, SubSeqEmpty
<1>3. SubSeq(s, 1, 1) = Append(SubSeq(s, 1, 1 - 1), s[1])
  BY <1>1, SubSeqRecursiveSecond
<1>4. SubSeq(s, 1, 2) = Append(SubSeq(s, 1, 2 - 1), s[2])
  BY <1>1, SubSeqRecursiveSecond
<1>5. 1 - 1 = 0 /\ 2 - 1 = 1
  OBVIOUS
<1> QED  BY <1>1, <1>2, <1>3, <1>4, <1>5 DEF s

LEMMA RowsRepeat ==
  ASSUME AuditTyped, Repeats(effects), NEW e \in Entries
  PROVE  effects \o AuditRows(e) \in Seq(AuditRecords) /\ Repeats(effects \o AuditRows(e))
<1>1. N \in Nat /\ effects \in Seq(AuditRecords)
  BY ScriptTyped DEF AuditTyped
<1>2. NoPresentation \in Presentations
  <2>1. <<>> \in Seq(Entries) /\ 0 \in 0 .. N
    BY <1>1
  <2> QED  BY <2>1 DEF NoPresentation, Presentations
<1>3. Presentation = Applied(NoPresentation, EffectsIn(effects))
  BY DEF Presentation, EffectsIn
<1>4. Presentation \in Presentations
  BY <1>1, <1>2, <1>3, AppliedTyped, EffectsInTyped
<1>5. CASE script.form[e] # "event"
  <2>1. EffectsOf(e) = <<>>
    BY <1>5 DEF EffectsOf
  <2>2. AuditRows(e) = <<>>
    BY <2>1 DEF AuditRows
  <2>3. effects \o <<>> = effects
    BY <1>1
  <2> QED  BY <1>1, <2>2, <2>3
<1>6. CASE script.form[e] = "event"
  <2> DEFINE a == [type |-> "message", of |-> e]
             b == [type |-> "theme", of |-> e]
             p == Presentation
             q == ApplyEffect(p, a)
             r == ApplyEffect(q, b)
             x == [entry |-> e, effect |-> a, before |-> p, after |-> q]
             y == [entry |-> e, effect |-> b, before |-> q, after |-> r]
  <2>1. a \in Effects /\ b \in Effects
    BY DEF Effects
  <2>2. q \in Presentations /\ r \in Presentations
    <3> HIDE DEF a, b, p, q
    <3>1. q \in Presentations
      BY <1>1, <1>4, <2>1, ApplyEffectTyped DEF p, q
    <3> QED  BY <1>1, <2>1, <3>1, ApplyEffectTyped
  <2>3. EffectsOf(e) = <<a, b>>
    BY <1>6 DEF EffectsOf
  <2>4. /\ Applied(p, SubSeq(<<a, b>>, 1, 0)) = p
        /\ Applied(p, SubSeq(<<a, b>>, 1, 1)) = q
        /\ Applied(p, SubSeq(<<a, b>>, 1, 2)) = r
    <3> HIDE DEF a, b, p
    <3>1. SubSeq(<<a, b>>, 1, 0) = <<>> /\ SubSeq(<<a, b>>, 1, 1) = Append(<<>>, a)
            /\ SubSeq(<<a, b>>, 1, 2) = Append(Append(<<>>, a), b)
      BY <2>1, PrefixesOfTwo
    <3> DEFINE none == <<>>
               one == Append(none, a)
    <3>2. none \in Seq(Effects) /\ one \in Seq(Effects)
      BY <2>1
    <3>3. Applied(p, none) = p
      BY AppliedNone
    <3> HIDE DEF none
    <3>4. Applied(p, one) = q
      BY <2>1, <3>2, <3>3, AppliedAppend
    <3> HIDE DEF one, q
    <3>5. Applied(p, Append(one, b)) = r
      BY <2>1, <3>2, <3>4, AppliedAppend
    <3> QED  BY <3>1, <3>3, <3>4, <3>5 DEF none, one
  <2>5. AuditRows(e) = <<x, y>>
    <3> DEFINE list == <<a, b>>
               upTo(i) == Applied(p, SubSeq(list, 1, i))
    <3>1. AuditRows(e) = [i \in DOMAIN list |-> [entry |-> e, effect |-> list[i],
                                                 before |-> upTo(i - 1), after |-> upTo(i)]]
      BY <2>3 DEF AuditRows
    <3>2. DOMAIN list = {1, 2} /\ list[1] = a /\ list[2] = b
      OBVIOUS
    <3>3. upTo(1 - 1) = p /\ upTo(1) = q /\ upTo(2 - 1) = q /\ upTo(2) = r
      BY <2>4
    <3> HIDE DEF a, b, p, q, r, list, upTo
    <3>4. AuditRows(e) = [i \in {1, 2} |-> IF i = 1 THEN x ELSE y]
      BY <3>1, <3>2, <3>3
    <3>5. <<x, y>> = [i \in {1, 2} |-> IF i = 1 THEN x ELSE y]
      <4> HIDE DEF x, y
      <4> QED  OBVIOUS
    <3> QED  BY <3>4, <3>5
  <2>6. x \in AuditRecords /\ y \in AuditRecords
    <3> HIDE DEF a, b, p, q, r
    <3> QED  BY <1>4, <2>1, <2>2 DEF AuditRecords, p
  <2>7. /\ x.before = p /\ x.after = q /\ x.effect = a
        /\ y.before = q /\ y.after = r /\ y.effect = b
    OBVIOUS
  <2> HIDE DEF x, y, a, b, p
  <2>8. /\ Append(effects, x) \in Seq(AuditRecords) /\ Repeats(Append(effects, x))
        /\ Applied(NoPresentation, EffectsIn(Append(effects, x))) = q
    BY <1>1, <1>3, <2>6, <2>7, RepeatsAppend DEF p
  <2> HIDE DEF q
  <2>9. /\ Append(Append(effects, x), y) \in Seq(AuditRecords)
        /\ Repeats(Append(Append(effects, x), y))
    BY <2>6, <2>7, <2>8, RepeatsAppend
  <2>10. effects \o <<x, y>> = Append(Append(effects, x), y)
    BY <1>1, <2>6
  <2> QED  BY <2>5, <2>9, <2>10
<1> QED  BY <1>5, <1>6

-----------------------------------------------------------------------------
(***************************************************************************)
(* The invariant holds initially and is kept by every action.              *)
(***************************************************************************)
LEMMA AuditInitially ==
  ASSUME AuditInit
  PROVE  AuditInv
<1> USE DEF AuditInit, AuditInitWith
<1>1. N \in Nat /\ Weeks \in Nat \ {0} /\ script \in Published
  BY ScriptTyped
<1>2. AuditTyped
  <2>1. Resolve(R!RunStarted, "start") \in Resolutions
    BY DEF Resolve, Resolutions, R!Checkpoints
  <2>2. agenda \in Seq(Resolutions) /\ effects \in Seq(AuditRecords)
    BY <2>1
  <2> QED  BY <1>1, <2>2 DEF AuditTyped
<1>3. AgendaInv
  <2>1. DOMAIN agenda = {1} /\ agenda[1].as = "start"
    BY DEF Resolve
  <2> QED  BY <1>1, <2>1 DEF AgendaInv
<1>4. DeliveryInv
  BY DEF DeliveryInv
<1>5. ~EffectsDiffer /\ ~ResponsesDiffer
  BY DEF EffectsDiffer, ResponsesDiffer
<1>6. FirmIsInTime
  BY DEF FirmIsInTime
<1> QED  BY <1>2, <1>3, <1>4, <1>5, <1>6 DEF AuditInv

\* What is in time stays so while entries only go on.
LEMMA FirmKept ==
  ASSUME FirmIsInTime, week' = week, script' = script,
         \A e \in Entries : status[e] = "completed" => status'[e] = "completed",
         \A e \in Entries : status[e] = "actionable" => status'[e] \in {"actionable", "completed"}
  PROVE  FirmIsInTime'
BY DEF FirmIsInTime, Firm, Due

\* What stays when an action leaves alone what it speaks of.
LEMMA DeliveryKept ==
  ASSUME DeliveryInv, UNCHANGED <<script, status, round>>
  PROVE  DeliveryInv'
BY DEF DeliveryInv, R!Completed

LEMMA RecordsKept ==
  ASSUME ~EffectsDiffer, ~ResponsesDiffer, UNCHANGED <<script, effects, responses>>
  PROVE  ~EffectsDiffer' /\ ~ResponsesDiffer'
BY DEF EffectsDiffer, ResponsesDiffer

LEMMA WeekTyped ==
  ASSUME AuditTyped, NEW w \in 1 .. Weeks
  PROVE  R!BeforeWeek(w) \in R!Checkpoints /\ R!AfterWeek(w) \in R!Checkpoints
BY DEF R!Checkpoints

LEMMA TurnKeeps ==
  ASSUME AuditInv, Turn
  PROVE  AuditInv'
<1> USE DEF AuditInv, Turn
<1> DEFINE a == Resolve(R!BeforeWeek(week + 1), "gate")
           b == Resolve(R!AfterWeek(week + 1), "close")
<1>1. week + 1 \in 1 .. Weeks
  BY ScriptTyped DEF AuditTyped, AgendaInv
<1>2. a \in Resolutions /\ b \in Resolutions
  BY <1>1, WeekTyped DEF Resolve, Resolutions
<1>3. AuditTyped'
  <2> HIDE DEF a, b
  <2>1. <<a, b>> \in Seq(Resolutions)
    BY <1>2
  <2>2. agenda' = <<a, b>>
    BY DEF a, b
  <2> QED  BY <2>1, <2>2 DEF AuditTyped
<1>4. AgendaInv'
  <2>1. DOMAIN agenda' = {1, 2} /\ agenda'[1] = a /\ agenda'[2] = b
    OBVIOUS
  <2>2. a.at = R!BeforeWeek(week + 1) /\ b.as # "gate"
    BY DEF Resolve
  <2> HIDE DEF a, b
  <2> QED  BY <2>1, <2>2 DEF AgendaInv
<1>5. DeliveryInv' /\ ~EffectsDiffer' /\ ~ResponsesDiffer' /\ FirmIsInTime'
  BY DeliveryKept, RecordsKept, FirmKept
<1> QED  BY <1>3, <1>4, <1>5

LEMMA SubmitKeeps ==
  ASSUME AuditInv, Submit
  PROVE  AuditInv'
<1> USE DEF AuditInv, Submit
<1> DEFINE a == Resolve(R!RunFinished, "end")
<1>1. a \in Resolutions /\ a.as # "gate"
  BY DEF Resolve, Resolutions, R!Checkpoints
<1>2. agenda' = <<a>>
  OBVIOUS
<1> HIDE DEF a
<1>3. AuditTyped'
  <2>1. <<a>> \in Seq(Resolutions)
    BY <1>1
  <2> QED  BY <1>2, <2>1 DEF AuditTyped
<1>4. AgendaInv'
  BY <1>1, <1>2 DEF AgendaInv
<1>5. DeliveryInv' /\ ~EffectsDiffer' /\ ~ResponsesDiffer' /\ FirmIsInTime'
  BY DeliveryKept, RecordsKept, FirmKept
<1> QED  BY <1>3, <1>4, <1>5

LEMMA OpenRoundKeeps ==
  ASSUME AuditInv, OpenRound
  PROVE  AuditInv'
<1> USE DEF AuditInv, OpenRound
<1> DEFINE at == Head(agenda).at
           as == Head(agenda).as
<1>1. FreshNow \subseteq Entries /\
        \A e \in FreshNow : status[e] = "pending" /\ script.dependsOn[e] \subseteq R!Completed(status)
  <2>1. FreshNow = R!Fresh(status, at, as = "end")
    BY DEF FreshNow
  <2> HIDE DEF at, as
  <2>2. FreshNow \subseteq Entries
    BY <2>1 DEF R!Fresh, R!Actionable, R!Candidates
  <2>3. \A e \in Entries : e \in R!Fresh(status, at, as = "end") => Waiting(e, at, as) /\ status[e] = "pending"
    BY FreshMeans
  <2> QED  BY <2>1, <2>2, <2>3 DEF Waiting
<1>2. AuditTyped' /\ AgendaInv'
  BY <1>1 DEF AuditTyped, AgendaInv
<1>3. DeliveryInv'
  BY <1>1 DEF DeliveryInv, R!Completed
<1>4. ~EffectsDiffer' /\ ~ResponsesDiffer' /\ FirmIsInTime'
  BY RecordsKept, FirmKept
<1> QED  BY <1>2, <1>3, <1>4

LEMMA PassKeeps ==
  ASSUME AuditInv, Pass
  PROVE  AuditInv'
<1> USE DEF AuditInv, Pass
<1>1. agenda \in Seq(Resolutions) /\ agenda # <<>>
  BY DEF AuditTyped, Resolved, Idle
<1>2. agenda' \in Seq(Resolutions) /\ Len(agenda') = Len(agenda) - 1
        /\ \A i \in 1 .. Len(agenda') : agenda'[i] = agenda[i + 1]
  BY <1>1, HeadTailProperties
<1>3. AuditTyped'
  BY <1>2 DEF AuditTyped
<1>4. AgendaInv'
  <2>1. ASSUME NEW i \in DOMAIN agenda' PROVE agenda'[i].as # "gate"
    <3>1. i \in 1 .. Len(agenda') /\ i + 1 \in DOMAIN agenda /\ i + 1 # 1
      BY <1>1, <1>2
    <3> QED  BY <1>2, <3>1 DEF AgendaInv
  <2> QED  BY <2>1 DEF AgendaInv
<1>5. DeliveryInv' /\ ~EffectsDiffer' /\ ~ResponsesDiffer' /\ FirmIsInTime'
  BY DeliveryKept, RecordsKept, FirmKept
<1> QED  BY <1>3, <1>4, <1>5

LEMMA GateKeeps ==
  ASSUME AuditInv, Gate
  PROVE  AuditInv'
<1> USE DEF AuditInv, Gate
<1> DEFINE last == Resolve(R!RunFinished, "end")
<1>1. agenda \in Seq(Resolutions) /\ agenda # <<>> /\ 1 \in DOMAIN agenda /\ Head(agenda) = agenda[1]
  BY DEF AuditTyped, Resolved, Idle
<1>2. ~ended /\ Head(agenda).at = R!BeforeWeek(week + 1) /\ Head(agenda).as = "gate"
  BY <1>1 DEF AgendaInv
<1>3. week \in Nat /\ Weeks \in Nat /\ week + 1 \in 1 .. Weeks
  BY <1>2, ScriptTyped DEF AuditTyped, AgendaInv
<1>4. last \in Resolutions /\ last.as # "gate"
  BY DEF Resolve, Resolutions, R!Checkpoints
<1> DEFINE rest == Tail(agenda)
<1>5. rest \in Seq(Resolutions) /\ \A i \in DOMAIN rest : rest[i].as # "gate"
  <2>1. rest \in Seq(Resolutions) /\ Len(rest) = Len(agenda) - 1
          /\ \A i \in 1 .. Len(rest) : rest[i] = agenda[i + 1]
    BY <1>1, HeadTailProperties
  <2> HIDE DEF rest
  <2>2. ASSUME NEW i \in DOMAIN rest PROVE rest[i].as # "gate"
    <3>1. i \in 1 .. Len(rest) /\ i + 1 \in DOMAIN agenda /\ i + 1 # 1
      BY <1>1, <2>1
    <3> QED  BY <2>1, <3>1 DEF AgendaInv
  <2> QED  BY <2>1, <2>2
<1> HIDE DEF rest, last
<1>6. DeliveryInv' /\ ~EffectsDiffer' /\ ~ResponsesDiffer'
  BY DeliveryKept, RecordsKept
<1>7. CASE R!Blocking(status) # {}
  <2>1. agenda' = <<>> /\ UNCHANGED <<week, ended>>
    BY <1>7
  <2>2. AuditTyped' /\ AgendaInv'
    BY <2>1 DEF AuditTyped, AgendaInv
  <2>3. FirmIsInTime'
    BY <2>1, FirmKept
  <2> QED  BY <1>6, <2>2, <2>3
<1>8. CASE R!Blocking(status) = {}
  <2>1. week' = week + 1 /\ week' \in Nat
    BY <1>3, <1>8
  <2>2. agenda' \in Seq(Resolutions) /\ (\A i \in DOMAIN agenda' : agenda'[i].as # "gate")
          /\ ended' \in BOOLEAN /\ (~ended' => week' < Weeks)
    <3>1. CASE agenda' = rest /\ week' < Weeks /\ ended' = FALSE
      BY <1>5, <3>1
    <3>2. CASE agenda' = Append(rest, last) /\ ended' = TRUE
      <4>1. Append(rest, last) \in Seq(Resolutions)
              /\ \A i \in DOMAIN Append(rest, last) :
                   Append(rest, last)[i] = last \/ (i \in DOMAIN rest /\ Append(rest, last)[i] = rest[i])
        BY <1>4, <1>5
      <4>2. \A i \in DOMAIN Append(rest, last) : Append(rest, last)[i].as # "gate"
        BY <1>4, <1>5, <4>1
      <4> QED  BY <3>2, <4>1, <4>2
    <3> QED  BY <1>8, <3>1, <3>2 DEF rest, last
  <2>3. AuditTyped' /\ AgendaInv'
    BY <2>1, <2>2 DEF AuditTyped, AgendaInv
  <2>4. FirmIsInTime'
    <3> DEFINE at == R!BeforeWeek(week + 1)
    <3>1. at \in R!Checkpoints
      BY <1>3, WeekTyped
    <3>2. R!Fresh(status, at, FALSE) = {}
      <4>1. (Head(agenda).as = "end") = FALSE
        BY <1>2
      <4> QED  BY <1>2, <4>1 DEF Resolved, FreshNow
    <3>3. \A F \in SUBSET Entries : Firm(F) =>
            \A e \in F \cap Due(at, "gate") :
              status[e] = "completed" \/ (status[e] = "actionable" /\ script.form[e] = "survey")
      BY <1>8, <3>1, <3>2, FirmIsComplete
    <3> QED  BY <2>1, <3>3 DEF FirmIsInTime, Firm, Due
  <2> QED  BY <1>6, <2>3, <2>4
<1> QED  BY <1>7, <1>8

\* The entry that is delivered next is one of the round.
LEMMA NextOfRound ==
  ASSUME AuditTyped, round # {}
  PROVE  (CHOOSE e \in round : \A f \in round : e <= f) \in round
<1>1. round \in SUBSET Nat
  BY ScriptTyped DEF AuditTyped, Entries
<1>2. \E e \in round : \A f \in round : e <= f
  BY <1>1, LeastNatural
<1> QED  BY <1>2

LEMMA DeliverNextKeeps ==
  ASSUME AuditInv, DeliverNext
  PROVE  AuditInv'
<1> USE DEF AuditInv
<1> DEFINE e == CHOOSE x \in round : \A f \in round : x <= f
<1>1. round # {}
  BY DEF DeliverNext
<1>2. e \in round
  BY <1>1, NextOfRound
<1>3. /\ status' = R!Deliver(status, {e})
      /\ effects' = effects \o AuditRows(e)
      /\ round' = round \ {e}
      /\ UNCHANGED <<script, week, ended, agenda, responses>>
  BY DEF DeliverNext
<1> HIDE DEF e
<1>4. e \in Entries /\ status[e] = "pending" /\ script.dependsOn[e] \subseteq R!Completed(status)
  BY <1>2 DEF AuditTyped, DeliveryInv
<1>5. status' \in [Entries -> {"pending", "actionable", "completed"}]
        /\ (\A f \in Entries : f # e => status'[f] = status[f])
        /\ status'[e] \in {"actionable", "completed"}
        /\ (status'[e] = "actionable" => script.form[e] \in {"fragment", "question", "survey"})
  <2>1. status' = [f \in Entries |-> IF f \notin {e} THEN status[f]
                                     ELSE IF R!Automatic(e) THEN "completed" ELSE "actionable"]
    BY <1>3 DEF R!Deliver
  <2>2. ~R!Automatic(e) => script.form[e] \in {"fragment", "question", "survey"}
    <3>1. script.form[e] \in Forms
      BY <1>4, ScriptTyped DEF AuditTyped
    <3> QED  BY <1>4, <3>1 DEF R!Automatic, Forms
  <2> QED  BY <1>4, <2>1, <2>2 DEF AuditTyped
<1>6. R!Completed(status) \subseteq R!Completed(status')
  BY <1>4, <1>5 DEF R!Completed
<1>7. effects' \in Seq(AuditRecords) /\ ~EffectsDiffer'
  <2>1. effects' \in Seq(AuditRecords) /\ Repeats(effects')
    BY <1>3, <1>4, RowsRepeat, RepeatsMeans
  <2> QED  BY <2>1 DEF EffectsDiffer, Repeats
<1>8. AuditTyped'
  BY <1>3, <1>5, <1>7 DEF AuditTyped
<1>9. AgendaInv'
  BY <1>3 DEF AgendaInv
<1>10. DeliveryInv'
  <2>1. \A f \in round' : status'[f] = "pending" /\ script.dependsOn[f] \subseteq R!Completed(status')
    BY <1>3, <1>5, <1>6 DEF DeliveryInv, AuditTyped
  <2>2. \A f \in Entries : status'[f] # "pending" => script.dependsOn[f] \subseteq R!Completed(status')
    BY <1>4, <1>5, <1>6 DEF DeliveryInv
  <2>3. \A f \in Entries : status'[f] = "actionable" => script.form[f] \in {"fragment", "question", "survey"}
    BY <1>5 DEF DeliveryInv
  <2> QED  BY <1>3, <2>1, <2>2, <2>3 DEF DeliveryInv, R!Completed
<1>11. ~ResponsesDiffer'
  BY <1>3 DEF ResponsesDiffer
<1>12. FirmIsInTime'
  BY <1>3, <1>4, <1>5, FirmKept
<1> QED  BY <1>7, <1>8, <1>9, <1>10, <1>11, <1>12

LEMMA RespondKeeps ==
  ASSUME AuditInv, NEW e \in Entries, Respond(e)
  PROVE  AuditInv'
<1> USE DEF AuditInv
<1>1. /\ status' = [status EXCEPT ![e] = "completed"] /\ status[e] = "actionable" /\ agenda = <<>>
      /\ agenda' = <<Resolve(script.trigger[e], "response")>>
      /\ UNCHANGED <<script, week, ended, round, effects>>
  BY DEF Respond, Idle
<1>2. PICK answer : responses' = responses \cup
        {[entry |-> e, value |-> IF script.form[e] = "fragment" THEN answer ELSE NormalizeAnswer(answer)]}
  BY DEF Respond
<1>3. status' \in [Entries -> {"pending", "actionable", "completed"}]
        /\ (\A f \in Entries : f # e => status'[f] = status[f]) /\ status'[e] = "completed"
  BY <1>1 DEF AuditTyped
<1>4. R!Completed(status) \subseteq R!Completed(status')
  BY <1>3 DEF R!Completed
<1> DEFINE a == Resolve(script.trigger[e], "response")
<1>5. a \in Resolutions /\ a.as # "gate"
  BY ScriptTyped DEF AuditTyped, Resolve, Resolutions
<1>6. agenda' = <<a>>
  BY <1>1
<1> HIDE DEF a
<1>7. AuditTyped'
  <2>1. <<a>> \in Seq(Resolutions)
    BY <1>5
  <2> QED  BY <1>1, <1>3, <1>6, <2>1 DEF AuditTyped
<1>8. AgendaInv'
  BY <1>1, <1>5, <1>6 DEF AgendaInv
<1>9. DeliveryInv'
  <2>1. \A f \in round' : status'[f] = "pending" /\ script.dependsOn[f] \subseteq R!Completed(status')
    BY <1>1, <1>3, <1>4 DEF DeliveryInv, AuditTyped
  <2>2. \A f \in Entries : status'[f] # "pending" => script.dependsOn[f] \subseteq R!Completed(status')
    BY <1>1, <1>3, <1>4 DEF DeliveryInv
  <2>3. \A f \in Entries : status'[f] = "actionable" => script.form[f] \in {"fragment", "question", "survey"}
    BY <1>3 DEF DeliveryInv
  <2> QED  BY <1>1, <2>1, <2>2, <2>3 DEF DeliveryInv, R!Completed
<1>10. ~EffectsDiffer'
  BY <1>1 DEF EffectsDiffer
<1>11. ~ResponsesDiffer'
  <2>1. ASSUME NEW r \in responses', script.form[r.entry] # "fragment"
        PROVE  NormalizeAnswer(r.value) = r.value
    <3>1. CASE r \in responses
      BY <2>1, <3>1 DEF ResponsesDiffer
    <3>2. CASE r = [entry |-> e, value |-> IF script.form[e] = "fragment" THEN answer ELSE NormalizeAnswer(answer)]
      <4>1. r.entry = e /\ r.value = NormalizeAnswer(answer)
        BY <2>1, <3>2
      <4> QED  BY <4>1, NormalizedOnce
    <3> QED  BY <1>2, <3>1, <3>2
  <2> QED  BY <1>1, <2>1 DEF ResponsesDiffer
<1>12. FirmIsInTime'
  BY <1>1, <1>3, FirmKept
<1> QED  BY <1>7, <1>8, <1>9, <1>10, <1>11, <1>12

LEMMA AuditInvariance ==
  ASSUME AuditInv, [AuditNext]_audit
  PROVE  AuditInv'
<1>1. CASE UNCHANGED audit
  <2>1. UNCHANGED <<script, status, week, ended, agenda, round, effects, responses>>
    BY <1>1 DEF audit
  <2>2. AuditTyped' /\ AgendaInv'
    BY <2>1 DEF AuditInv, AuditTyped, AgendaInv
  <2>3. DeliveryInv' /\ ~EffectsDiffer' /\ ~ResponsesDiffer'
    BY <2>1, DeliveryKept, RecordsKept DEF AuditInv
  <2>4. FirmIsInTime'
    BY <2>1, FirmKept DEF AuditInv
  <2> QED  BY <2>2, <2>3, <2>4 DEF AuditInv
<1>2. CASE AuditNext
  BY <1>2, TurnKeeps, SubmitKeeps, OpenRoundKeeps, DeliverNextKeeps, GateKeeps, PassKeeps,
     RespondKeeps DEF AuditNext
<1> QED  BY <1>1, <1>2

-----------------------------------------------------------------------------
(***************************************************************************)
(* The theorems.                                                           *)
(***************************************************************************)
\* Every state of every run of every script that can be published satisfies
\* the invariant (start_simulation_run, complete_simulation_turn,
\* content_command, submit_simulation_run).
THEOREM AuditInvariant == AuditSpec => []AuditInv
<1>1. AuditInit => AuditInv
  BY AuditInitially
<1>2. AuditInv /\ [AuditNext]_audit => AuditInv'
  BY AuditInvariance
<1> QED  BY <1>1, <1>2, PTL DEF AuditSpec

\* A sequence that is listed in order leaves the replay no order to miss.
LEMMA ListedIsReplayed ==
  ASSUME AuditInv, ListedInOrder
  PROVE  ~OutOfOrder /\ ~OutOfDependency
<1>1. ~OutOfOrder
  <2> SUFFICES ASSUME NEW e \in Entries, NEW f \in Entries, e < f, Ahead(f, e) PROVE FALSE
    BY DEF OutOfOrder, Deliveries, R!Delivered
  <2>1. Ahead(e, f)
    BY DEF ListedInOrder
  <2> DEFINE a == script.trigger[e]
             b == script.trigger[f]
             p == script.priority[e]
             q == script.priority[f]
  <2>2. e \in Int /\ f \in Int /\ p \in Int /\ q \in Int
    <3>1. script \in Published
      BY DEF AuditInv, AuditTyped
    <3>2. script.priority \in [Entries -> Int] /\ N \in Nat
      BY <3>1, ScriptTyped
    <3>3. e \in Int /\ f \in Int
      BY <3>2 DEF Entries
    <3> QED  BY <3>2, <3>3
  <2>3. a[1] \in Int /\ a[2] \in Int /\ b[1] \in Int /\ b[2] \in Int
    <3>1. a \in R!Checkpoints /\ b \in R!Checkpoints /\ Weeks \in Nat
      BY ScriptTyped DEF AuditInv, AuditTyped
    <3> QED  BY <3>1, CheckpointsTyped
  <2>4. Later(b, a) \/ (a = b /\ (p < q \/ (p = q /\ e < f)))
    BY <2>1 DEF Ahead
  <2>5. Later(a, b) \/ (b = a /\ (q < p \/ (q = p /\ f < e)))
    BY DEF Ahead
  <2> HIDE DEF a, b, p, q
  <2> QED  BY <2>2, <2>3, <2>4, <2>5 DEF Later
<1>2. ~OutOfDependency
  <2> SUFFICES ASSUME NEW e \in Entries, status[e] # "pending", NEW d \in script.dependsOn[e]
               PROVE  d < e /\ status[d] = "completed"
    BY DEF OutOfDependency, Deliveries, R!Delivered
  <2>1. d \in R!Completed(status)
    BY DEF AuditInv, DeliveryInv
  <2>2. d \in Entries /\ status[d] = "completed"
    BY <2>1 DEF R!Completed
  <2>3. d < e
    BY <2>2 DEF ListedInOrder
  <2> QED  BY <2>2, <2>3
<1> QED  BY <1>1, <1>2

\* The replay repeats every effect and every answer of a run, and finds nothing
\* at all when the script is listed in order (verify_replay).
THEOREM ReplayRepeats == AuditSpec => []OnlyOrderDiverges
<1>1. AuditInv => OnlyOrderDiverges
  <2> SUFFICES ASSUME AuditInv PROVE OnlyOrderDiverges
    OBVIOUS
  <2>1. ~EffectsDiffer /\ ~ResponsesDiffer
    BY DEF AuditInv
  <2>2. Divergences \subseteq {"ordering", "dependencies"}
    BY <2>1 DEF Divergences
  <2>3. ListedInOrder => Divergences = {}
    BY <2>1, ListedIsReplayed DEF Divergences
  <2> QED  BY <2>2, <2>3 DEF OnlyOrderDiverges
<1> QED  BY <1>1, AuditInvariant, PTL

\* What the author may publish is what the resolver takes for granted, so every
\* theorem about the runs of SimulationRuns holds of it: the validator's checks
\* and sort keys are enough (exactly_one_reference, validate_content_graph).
THEOREM PublishedIsValid == AuditSpec => []R!ValidScript
<1>1. AuditInv => R!ValidScript
  <2> SUFFICES ASSUME AuditInv PROVE R!ValidScript
    OBVIOUS
  <2>1. script \in Published
    BY DEF AuditInv, AuditTyped
  <2>2. Weeks \in Nat \ {0} /\ R!IsFiniteSet(Entries)
    <3>1. Weeks \in Nat \ {0} /\ IsFiniteSet(Entries)
      BY <2>1, ScriptTyped, FS_Interval DEF Entries
    <3> QED  BY <3>1 DEF IsFiniteSet, R!IsFiniteSet
  <2>3. /\ script.trigger \in [Entries -> R!Checkpoints]
        /\ script.priority \in [Entries -> Int]
        /\ script.form \in [Entries -> Forms]
        /\ script.dependsOn \in [Entries -> SUBSET Entries]
    BY <2>1, ScriptTyped
  <2>4. \A e \in Entries : e \in Nat
    BY DEF Entries
  <2>5. \A e \in Entries : \A d \in script.dependsOn[e] :
          R!NotAfter(script.trigger[d], script.trigger[e])
    BY <2>1, DependenciesNotAfter
  <2>6. \A S \in (SUBSET Entries) \ {{}} : \E e \in S : script.dependsOn[e] \cap S = {}
    BY <2>1, ScriptTyped DEF Acyclic
  <2> DEFINE required == [e \in Entries |-> script.form[e] \in {"fragment", "question"}]
             kind == [e \in Entries |-> CASE script.form[e] \in {"event", "hidden"} -> "event"
                                         [] script.form[e] \in {"note", "fragment"} -> "fragment"
                                         [] OTHER -> "question"]
  <2>7. kind \in [Entries -> {"question", "fragment", "event"}]
    <3>1. ASSUME NEW e \in Entries PROVE kind[e] \in {"question", "fragment", "event"}
      BY <2>3 DEF Forms
    <3> QED  BY <3>1
  <2>8. required \in [Entries -> BOOLEAN]
    OBVIOUS
  <2>9. ASSUME NEW e \in Entries, kind[e] = "event" PROVE ~required[e]
    <3>1. script.form[e] \in Forms
      BY <2>3
    <3>2. script.form[e] \in {"event", "hidden"}
      BY <2>9, <3>1 DEF Forms
    <3> QED  BY <3>2
  <2>10. LET ordinal == [e \in Entries |-> e]
         IN  ordinal \in [Entries -> Nat] /\ \A e, f \in Entries : e # f => ordinal[e] # ordinal[f]
    BY <2>4
  <2> HIDE DEF required, kind
  <2>11. \A e \in Entries : kind[e] = "event" => ~required[e]
    BY <2>9
  <2> QED
    BY <2>2, <2>3, <2>5, <2>6, <2>7, <2>8, <2>10, <2>11 DEF R!ValidScript, required, kind
<1> QED  BY <1>1, AuditInvariant, PTL

\* Whatever an author publishes and a student does, a checkpoint that is
\* resolved with nothing left to answer has given all that was due, and no
\* week is played before what it needs is complete (validate_content_graph,
\* resolve, complete_simulation_turn).
THEOREM PublishedIsDelivered == AuditSpec => []NothingIsLost
<1>1. AuditInv => NothingIsLost
  <2> SUFFICES ASSUME AuditInv PROVE ResolvedIsComplete /\ FirmIsInTime
    BY DEF NothingIsLost
  <2>1. SUFFICES ASSUME Resolved, Actionables = {}
                 PROVE  Due(Head(agenda).at, Head(agenda).as) \subseteq R!Completed(status)
    BY DEF ResolvedIsComplete, AuditInv
  <2> DEFINE at == Head(agenda).at
             as == Head(agenda).as
  <2>2. at \in R!Checkpoints
    <3>1. agenda \in Seq(Resolutions) /\ agenda # <<>>
      BY <2>1 DEF AuditInv, AuditTyped, Resolved, Idle
    <3>2. Head(agenda) \in Resolutions
      BY <3>1, HeadTailProperties
    <3> QED  BY <3>2 DEF Resolutions
  <2>3. R!Fresh(status, at, as = "end") = {}
    BY <2>1 DEF Resolved, FreshNow
  <2> HIDE DEF at, as
  <2>4. Due(at, as) \subseteq R!Completed(status)
    BY <2>1, <2>2, <2>3, DueIsComplete DEF AuditInv
  <2> QED  BY <2>4 DEF at, as
<1> QED  BY <1>1, AuditInvariant, PTL

=============================================================================
