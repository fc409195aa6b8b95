----------------------------- MODULE Frameworks -----------------------------
(***************************************************************************)
(* Argumentation frameworks and the pure functions over them: the          *)
(* characteristic operator and labelling of Lara.Grounded, the extension   *)
(* deciders of Lara.Semantics and one round of the forward closure of      *)
(* Lara.Blocked.                                                           *)
(*                                                                         *)
(* A framework is a carrier `args' (afArgs) and an attack relation `att',  *)
(* the set of pairs <<b, a>> for which afAttack b a is True.  The code's   *)
(* duplicate-free index lists are sets: no function here reads the order.  *)
(***************************************************************************)
EXTENDS FiniteSets

-----------------------------------------------------------------------------
(* The characteristic operator (Lara.Grounded). *)

\* Every attacker of a in the carrier is itself attacked from S.
Defended(args, att, S, a) ==
  \A b \in args : <<b, a>> \in att => \E c \in S : <<c, b>> \in att

\* One round of the characteristic operator.
CharStep(args, att, S) == {a \in args : Defended(args, att, S, a)}

LabelByAttack(args, att, g, a) ==
  IF a \in g THEN "in"
  ELSE IF \E c \in args : <<c, a>> \in att THEN "out" ELSE "undec"

\* The label of a, read off an extension g.
LabelWith(args, att, g, a) ==
  IF a \in g THEN "in"
  ELSE IF \E c \in args \cap g : <<c, a>> \in att THEN "out" ELSE "undec"

StatusCredulous(label, support) ==
  CASE support = {}                        -> "gap"
    [] \E a \in support : label[a] # "out" -> "justified"
    [] OTHER                               -> "defeated"

\* The four-state status of a claim whose complete support is `support'.
StatusWith(label, support) ==
  CASE support = {}                               -> "gap"
    [] \E a \in support : label[a] = "in"         -> "justified"
    [] /\ support # {}
       /\ \A a \in support : label[a] # "in"
       /\ \E a \in support : label[a] = "undec"   -> "contested"
    [] OTHER                                      -> "defeated"

Labels   == {"in", "out", "undec"}
Statuses == {"gap", "justified", "contested", "defeated"}

-----------------------------------------------------------------------------
(* The extension deciders (Lara.Semantics). *)

\* The candidate extensions: every subset of the carrier.
Candidates(args) == SUBSET args

ConflictFree(att, S) == \A a, b \in S : <<a, b>> \notin att

Admissible(args, att, S) ==
  /\ S \subseteq args
  /\ ConflictFree(att, S)
  /\ \A a \in S : Defended(args, att, S, a)

Complete(args, att, S) ==
  /\ Admissible(args, att, S)
  /\ \A a \in args : Defended(args, att, S, a) => a \in S

Stable(args, att, S) ==
  /\ S \subseteq args
  /\ ConflictFree(att, S)
  /\ \A a \in args \ S : \E b \in S : <<b, a>> \in att

LeastComplete(args, att, S) ==
  /\ Complete(args, att, S)
  /\ \A T \in Candidates(args) : Complete(args, att, T) => S \subseteq T

Preferred(args, att, S) ==
  /\ Admissible(args, att, S)
  /\ \A T \in Candidates(args) :
       Admissible(args, att, T) /\ S \subseteq T => T \subseteq S

\* The arguments S attacks, and the range of S.
Attacked(args, att, S) == {a \in args : \E b \in S : <<b, a>> \in att}
Reach(args, att, S)    == S \cup Attacked(args, att, S)

SemiStable(args, att, S) ==
  /\ Complete(args, att, S)
  /\ \A T \in Candidates(args) :
       /\ Complete(args, att, T)
       /\ Reach(args, att, S) \subseteq Reach(args, att, T)
       => Reach(args, att, T) \subseteq Reach(args, att, S)

-----------------------------------------------------------------------------
(* One round of forward closure (Lara.Blocked). *)

ClosureStep(args, att, blocked) ==
  {y \in args : y \in blocked \/ \E x \in blocked : <<x, y>> \in att}
=============================================================================
