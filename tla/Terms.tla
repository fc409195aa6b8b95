-------------------------------- MODULE Terms --------------------------------
(***************************************************************************)
(* Support terms and the attacks on them, as far as compilation reads      *)
(* them: a term is a name with the terms that occur in it, the mode of its *)
(* root rule and its conclusion.  Props are compared up to equivalence, so *)
(* one value stands for a class of equivalent propositions.                *)
(***************************************************************************)

CONSTANTS
  Term,     \* the support terms of an instance
  Sub,      \* Sub[t]: the terms that occur in t, t itself included
  Mode,     \* the root of a term: a leaf, or a rule and its mode
  Concl,    \* the conclusion cached for a term
  NoTerm    \* subterm u pos off range

Modes == {"leaf", "strict", "defeasible", "missing"}

ASSUME TermAssumption ==
  /\ NoTerm \notin Term
  /\ Sub \in [Term -> SUBSET Term]
  /\ Mode \in [Term -> Modes]
  /\ \A t \in Term :
       /\ t \in Sub[t]
       /\ \A s \in Sub[t] : Sub[s] \subseteq Sub[t]
       /\ Mode[t] = "leaf" => Sub[t] = {t}

\* A raw attack after id resolution: its kind, the source and target terms,
\* and the occurrence in the target it attacks (the whole target for a rebut).
RAttack ==
  {k \in [kind : {"rebut", "undercut", "undermine"},
          src : Term, tgt : Term, occ : Term \cup {NoTerm}] :
     IF k.kind = "rebut" THEN k.occ = k.tgt
     ELSE k.occ \in Sub[k.tgt] \cup {NoTerm}}

\* containsB: t occurs in v.
ContainsRoot(v, t) == v = t
ContainsB(v, t)    == t \in Sub[v]

\* The attack's occurrence occurs in t; an undefined position occurs nowhere.
AttackClosure(k, t) == k.occ # NoTerm /\ ContainsB(t, k.occ)

\* Some attack sourced at s reaches t.
Covered(atts, s, t) == \E k \in atts : k.src = s /\ AttackClosure(k, t)

\* A conflict attack can be aimed at a leaf or at a defeasible root.
ConflictAttackable(t) == Mode[t] \in {"leaf", "defeasible"}

\* checkAttackTarget, given the declared contrary pairs and the exceptions
\* (source conclusion, undercut occurrence) the policy grants.
WrongOccurrence(k) ==
  IF k.kind = "rebut" THEN Mode[k.tgt] = "leaf"
  ELSE \/ k.occ = NoTerm
       \/ (k.kind = "undercut") = (Mode[k.occ] = "leaf")

Licensed(k, contrary, exception) ==
  CASE k.kind = "rebut" ->
         Mode[k.tgt] = "defeasible" /\ <<Concl[k.src], Concl[k.tgt]>> \in contrary
    [] k.kind = "undercut" ->
         Mode[k.occ] = "defeasible" /\ <<Concl[k.src], k.occ>> \in exception
    [] k.kind = "undermine" -> <<Concl[k.src], Concl[k.occ]>> \in contrary

AttackTargetClass(k, contrary, exception) ==
  IF WrongOccurrence(k) THEN "R10"
  ELSE IF Licensed(k, contrary, exception) THEN "ok" ELSE "R11"
=============================================================================
