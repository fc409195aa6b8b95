------------------------------ MODULE Grounded ------------------------------
(***************************************************************************)
(* From a compiled attack oracle to labels and claim statuses, the way an  *)
(* accepted unit is grounded: Lara.Runtime materialises the edge relation  *)
(* with one scan of the carrier, Lara.Grounded iterates the characteristic *)
(* operator |args| times from the empty set, reading the cached edges      *)
(* only, labels every argument off the result and aggregates the labels    *)
(* into one of four statuses per query.                                    *)
(*                                                                         *)
(* The iteration is bounded by a count and never tests for stability: that *)
(* |args| rounds are enough is a theorem about it, not a loop condition.   *)
(***************************************************************************)
EXTENDS Frameworks, Naturals

CONSTANTS
  Args,    \* afArgs: the carrier, the indices of the complete nodes
  Query    \* the queries whose status is reported

ASSUME ArgsAssumption == IsFiniteSet(Args)

VARIABLES
  attack,   \* afAttack of the source framework, before caching
  support,  \* claimSupport of each query
  stage,    \* which stage runs next
  adj,      \* adjEdges: the cached edges
  ext,      \* iter f round
  round,    \* how many rounds have been iterated
  label,    \* labelWithGrounded
  status    \* statusWithLabels

groundedVars == <<attack, support, stage, adj, ext, round, label, status>>
input        == <<attack, support>>

NoLabel == [a \in Args |-> "undec"]

GroundedInit ==
  /\ attack \in SUBSET (Args \X Args)
  /\ support \in [Query -> SUBSET Args]
  /\ stage = "scan"
  /\ adj = {}
  /\ ext = {}
  /\ round = 0
  /\ label = NoLabel
  /\ status = [q \in Query |-> "gap"]

\* The one scan of buildAdj.
CachedEdges         == {e \in Args \X Args : e \in attack}

\* One round of iter, over the cached framework.
NextExt      == CharStep(Args, adj, ext)

\* How many rounds grounded asks iter for.
RoundsOne     == 1
Rounds        == Cardinality(Args)

\* buildAdj: evaluate the oracle once over the carrier and keep the edges.
BuildAdj ==
  /\ stage = "scan"
  /\ adj' = CachedEdges
  /\ stage' = "iterate"
  /\ UNCHANGED <<input, ext, round, label, status>>

\* A round, while there are rounds left.
Iterate ==
  /\ stage = "iterate"
  /\ round < Rounds
  /\ ext' = NextExt
  /\ round' = round + 1
  /\ UNCHANGED <<input, stage, adj, label, status>>

\* grounded f is iter f |args|; every argument is labelled off it.
LabelAll ==
  /\ stage = "iterate"
  /\ round = Rounds
  /\ label' = [a \in Args |-> LabelWith(Args, adj, ext, a)]
  /\ stage' = "report"
  /\ UNCHANGED <<input, adj, ext, round, status>>

\* statusWithLabels, once per query.
Report ==
  /\ stage = "report"
  /\ status' = [q \in Query |-> StatusWith(label, support[q])]
  /\ stage' = "done"
  /\ UNCHANGED <<input, adj, ext, round, label>>

GroundedNext == BuildAdj \/ Iterate \/ LabelAll \/ Report

GroundedSpec == GroundedInit /\ [][GroundedNext]_groundedVars

-----------------------------------------------------------------------------
(* Properties. *)

TypeOK ==
  /\ attack \subseteq Args \X Args
  /\ support \in [Query -> SUBSET Args]
  /\ stage \in {"scan", "iterate", "report", "done"}
  /\ adj \subseteq Args \X Args
  /\ ext \subseteq Args
  /\ round \in 0..Cardinality(Args)
  /\ label \in [Args -> Labels]
  /\ status \in [Query -> Statuses]

\* What iterating promises at every round, stated over the uncached oracle:
\* the extension is admissible and inside every complete extension, so no
\* round ever accepts an argument that a later round would have to retract.
EveryRoundSound ==
  /\ Admissible(Args, attack, ext)
  /\ \A E \in SUBSET Args : Complete(Args, attack, E) => ext \subseteq E

\* |args| rounds reach the fixed point: what is labelled is the least complete
\* extension of the source framework, although no round tests for stability.
GroundedIsLeastComplete ==
  stage \in {"report", "done"} => LeastComplete(Args, attack, ext)

\* The published labels are a complete labelling of the source framework: an
\* argument is in iff all its attackers are out, out iff some attacker is in.
LabelsComplete ==
  stage \in {"report", "done"} =>
    \A a \in Args :
      LET attackers == {b \in Args : <<b, a>> \in attack}
      IN /\ label[a] = "in"  <=> \A b \in attackers : label[b] = "out"
         /\ label[a] = "out" <=> \E b \in attackers : label[b] = "in"

\* A published status is exactly what the complete extensions say, over all of
\* them: a claim is justified iff each holds some of its support, defeated iff
\* each attacks all of its support, contested iff some hold none of it and some
\* leave part of it unattacked, and a gap iff it has no support.
StatusSceptical ==
  stage = "done" =>
    \A q \in Query :
      LET complete  == {E \in Candidates(Args) : Complete(Args, attack, E)}
          Held(E)   == support[q] \cap E # {}
          Beaten(E) == support[q] \subseteq Attacked(Args, attack, E)
      IN /\ status[q] = "gap"       <=> support[q] = {}
         /\ status[q] = "justified" <=> \A E \in complete : Held(E)
         /\ status[q] = "defeated"  <=> support[q] # {} /\ \A E \in complete : Beaten(E)
         /\ status[q] = "contested" <=> /\ support[q] # {}
                                        /\ \E E \in complete : ~Held(E)
                                        /\ \E E \in complete : ~Beaten(E)

\* A round never withdraws an argument and never changes the cached edges.
Ascending == [][ext \subseteq ext' /\ (stage # "scan" => adj' = adj)]_groundedVars
=============================================================================
