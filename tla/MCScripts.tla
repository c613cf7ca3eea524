----------------------------- MODULE MCScripts -----------------------------
(***************************************************************************)
(* Scripts of three entries, the priority of the second one raised, each   *)
(* depending on at most one of them: events, required fragments and        *)
(* surveys at the start, before the first of two weeks or at the end; and  *)
(* fragments and surveys around the first week and before the second.      *)
(***************************************************************************)
EXTENDS Integers, FiniteSets

ScriptsOf(triggers, forms) ==
  [trigger : [1 .. 3 -> triggers], priority : {<<0, 1, 0>>}, form : [1 .. 3 -> forms],
   dependsOn : [1 .. 3 -> {S \in SUBSET (1 .. 3) : Cardinality(S) <= 1}]]

SmallScripts ==
  ScriptsOf({<<0, 0>>, <<1, 1>>, <<3, 0>>}, {"event", "fragment", "survey"})
    \cup ScriptsOf({<<1, 1>>, <<1, 2>>, <<2, 1>>}, {"fragment", "survey"})

TwoOptions == <<"a", "b">>

=============================================================================
