---------------------------- MODULE MCCheckUnit ----------------------------
(***************************************************************************)
(* An instance of CheckUnit: two leaves, a defeasible rule over the first  *)
(* and a strict wrapper around that, with the attacks that hit them at the *)
(* root, inside a wrapper, off range and of the wrong kind.                *)
(***************************************************************************)
EXTENDS CheckUnit

MCTerm  == {"a", "b", "d", "w"}
MCSub   == [a |-> {"a"}, b |-> {"b"}, d |-> {"d", "a"}, w |-> {"w", "d", "a"}]
MCMode  == [a |-> "leaf", b |-> "leaf", d |-> "defeasible", w |-> "strict"]
MCConcl == [a |-> "p", b |-> "n", d |-> "q", w |-> "r"]

Attack(kind, src, tgt, occ) == [kind |-> kind, src |-> src, tgt |-> tgt, occ |-> occ]

MCAttacks ==
  {Attack("rebut", "b", "d", "d"),        \* on the defeasible root
   Attack("undermine", "b", "w", "a"),    \* on a leaf inside the wrapper
   Attack("undercut", "b", "w", "d"),     \* on the rule inside the wrapper
   Attack("undermine", "d", "b", "b"),    \* back at the attacker
   Attack("undermine", "b", "b", "b"),    \* at itself
   Attack("rebut", "b", "w", "w"),        \* a strict target (R11)
   Attack("undermine", "b", "d", NoTerm)} \* an undefined position (R10)

MaxArgs    == 3
MaxAttacks == 2

Lists(S, n) == UNION {[1..k -> S] : k \in 0..n}

\* Every list of distinct arguments, and some with a structural duplicate.
MCArgLists ==
  {s \in Lists(Term, MaxArgs) : \A i, j \in DOMAIN s : s[i] = s[j] => i = j}
  \cup {<<"b", "d", "b">>, <<"w", "w", "w">>}
MCAttackLists == Lists(MCAttacks, MaxAttacks)

MCContraries ==
  {{<<"n", "q">>, <<"n", "p">>, <<"q", "n">>}, {<<"n", "n">>, <<"q", "p">>},
   {<<"n", "r">>}}
MCFlaws      == {{}, {"signature", "policy"}, {"rules", "policy"}}
MCExceptions == {{<<"n", "d">>}}
=============================================================================
