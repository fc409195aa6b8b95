---------------------------- MODULE MCQuarantine ----------------------------
(***************************************************************************)
(* An instance of Quarantine: three leaves, a rule over the first and one  *)
(* over the other two.  Four arguments, so that an attack dropped with its *)
(* target can delete an edge between two retained arguments.               *)
(***************************************************************************)
EXTENDS Quarantine

MCTerm   == {"a", "b", "c", "d", "e"}
MCSub    == [a |-> {"a"}, b |-> {"b"}, c |-> {"c"},
             d |-> {"d", "a"}, e |-> {"e", "b", "c"}]
MCMode   == [a |-> "leaf", b |-> "leaf", c |-> "leaf",
             d |-> "defeasible", e |-> "defeasible"]
MCConcl  == [a |-> "p", b |-> "n", c |-> "p", d |-> "q", e |-> "q"]
MCLeafOf == [a |-> "l1", b |-> "l2", c |-> "l3"]
MCLeafId == {"l1", "l2", "l3"}

MCArg   == 1..4
MCDecls == {<<"a", "b", "c", "d">>, <<"d", "b", "c", "e">>, <<"c", "b", "e", "e">>}

Attack(i, j, t) == [src |-> i, tgt |-> j, occ |-> t]

\* At the root of the target or inside it, mutual, at itself and off range.
MCCandidates ==
  {Attack(2, 1, "a"), Attack(2, 4, "a"), Attack(3, 2, "b"), Attack(2, 3, "c"),
   Attack(2, 1, "d"), Attack(1, 2, "b"), Attack(3, 4, "b"), Attack(4, 3, "c"),
   Attack(3, 3, "c"), Attack(2, 4, NoTerm), Attack(1, 4, "b")}

MaxAttacks == 3

MCAttacks == {K \in SUBSET MCCandidates : Cardinality(K) <= MaxAttacks}
MCGroups  == {{}, {{"l2"}, {"l1", "l3"}}}
MCGammas  ==
  {[l1 |-> "p", l2 |-> "n", l3 |-> "p"], [l1 |-> "p", l2 |-> "n", l3 |-> "none"]}
=============================================================================
