------------------------------ MODULE Elaborator ------------------------------
(***************************************************************************)
(* The untrusted elaborator's derivation (elaborator/elaborate.py) and the *)
(* verdict the checker gives of what it emits.                             *)
(*                                                                         *)
(* A trace is a sequence of claims, each with its subject and its child    *)
(* nodes, each node with the topics of its evidence cells.  Everything is  *)
(* named by its place: a claim by c, a node by <<c, n>>, a cell, and the   *)
(* leaf it lowers to, by <<c, n, k>>.  A proposition is a predicate and    *)
(* what it is about: an experiment or the claim's subject (M, Q, D).       *)
(***************************************************************************)
EXTENDS Frameworks, Integers, Sequences

\* What parse_node and parse_cell make of a source: a tree, an ElabError, or
\* the TypeError of a value that cannot be looked up in a set.
Form  == {"good", "malformed", "misshapen"}

\* What parse_policy keeps: the questions in order, the predicates of the
\* exceptions, the contrary pairs, and how many rules have the one shape.
IsPolicy(p) ==
  /\ DOMAIN p = {"questions", "exceptions", "contraries", "matching"}
  /\ \A q \in DOMAIN p.questions : q \in Nat /\ DOMAIN p.questions[q] = {"asks", "mandatory"}
  /\ \A c \in p.contraries : c = <<c[1], c[2]>>

\* What is never a place.
Nowhere == <<0, 0, 0>>

Predicate == [report     |-> "reports",     randomization |-> "randomized",
              power      |-> "powered",     generalization |-> "generalizes",
              shift      |-> "distribution_shift",
              failure    |-> "not_generalizes"]
Topic == DOMAIN Predicate

\* The predicates with an experiment for argument, the others have the subject.
OfExperiment == {"reports", "randomized", "powered"}

-----------------------------------------------------------------------------
(* Places of a trace, in the order of the walk. *)

Claims(t)   == DOMAIN t.claims
Nodes(t, c) == DOMAIN t.claims[c].children
Cells(t, c) ==
  {x \in {c} \X Nodes(t, c) \X (1..9) :
     x[3] \in DOMAIN t.claims[c].children[x[2]].cells}

\* What load_source makes of a good source.
Node == [kind : {"experiment", "dead_end"}, cells : Seq(Topic)]
IsTrace(t) ==
  /\ Claims(t) \subseteq Nat
  /\ \A c \in Claims(t) : t.claims[c].children \in Seq(Node)

NodeAt(t, x)  == t.claims[x[1]].children[x[2]]
TopicAt(t, x) == NodeAt(t, x).cells[x[3]]

Before3(x, y) ==
  \/ x[1] < y[1]
  \/ x[1] = y[1] /\ x[2] < y[2]
  \/ x[1] = y[1] /\ x[2] = y[2] /\ x[3] <= y[3]
FirstOf(S) == CHOOSE x \in S : \A y \in S : Before3(x, y)

-----------------------------------------------------------------------------
(* Tasks 1 to 3: propositions, leaves and instances of the scheme. *)

\* The claim's supporting experiments: one instance of the rule each.
Supporting(t, c) ==
  {n \in Nodes(t, c) :
     LET node == t.claims[c].children[n]
     IN node.kind = "experiment" /\ \E k \in DOMAIN node.cells : node.cells[k] = "report"}
Instances(t, c) == {<<c, n>> : n \in Supporting(t, c)}
AllInstances(t) == UNION {Instances(t, c) : c \in Claims(t)}

\* A dead end's cell is about the one supporting experiment of its claim.
BoundTo(t, x) ==
  IF NodeAt(t, x).kind = "experiment" THEN <<x[1], x[2]>>
  ELSE CHOOSE e \in Instances(t, x[1]) : TRUE

About(t, pred, e) ==
  <<pred, IF pred \in OfExperiment THEN e ELSE t.claims[e[1]].subject>>

Prop(t, x) == About(t, Predicate[TopicAt(t, x)], BoundTo(t, x))

-----------------------------------------------------------------------------
(* Task 4: each question of an instance is discharged or left open. *)

Answers(t, p, e, q) ==
  {x \in Cells(t, e[1]) : Prop(t, x) = About(t, p.questions[q].asks, e)}
Discharge(t, p, e, q) ==
  IF Answers(t, p, e, q) = {} THEN Nowhere ELSE FirstOf(Answers(t, p, e, q))

-----------------------------------------------------------------------------
(* Task 6: the attacks of a cell. *)

\* A declaration's pattern, all variables, matches what has its predicate; two
\* patterns with the same variables match what is about the same thing.
Matches(pred, prop) == prop[1] = pred
ContraryPair(p, a, b) == <<a[1], b[1]>> \in p.contraries /\ a[2] = b[2]

\* An exception of the instantiated rule undercuts the first instance of the
\* claim and no other.
Undercuts(t, p, x) ==
  IF (\E pred \in p.exceptions : Matches(pred, Prop(t, x))) /\ Supporting(t, x[1]) # {}
  THEN {<<x[1], CHOOSE n \in Supporting(t, x[1]) : \A m \in Supporting(t, x[1]) : n <= m>>}
  ELSE {}

\* The discharges <<instance, question>> whose leaf the cell is contrary to.
Undermines(t, p, x) ==
  {d \in Instances(t, x[1]) \X DOMAIN p.questions :
     LET y == Discharge(t, p, d[1], d[2])
     IN y # Nowhere /\ ContraryPair(p, Prop(t, y), Prop(t, x))}

\* The first such discharge, instances first; an exception goes before it.
Attack(t, p, x) ==
  IF Undercuts(t, p, x) # {}
  THEN [kind |-> "undercut", on |-> (CHOOSE e \in Undercuts(t, p, x) : TRUE), q |-> 0]
  ELSE IF Undermines(t, p, x) # {}
  THEN LET d == CHOOSE d \in Undermines(t, p, x) :
                  \A f \in Undermines(t, p, x) :
                    Before3(<<d[1][1], d[1][2], d[2]>>, <<f[1][1], f[1][2], f[2]>>)
       IN [kind |-> "undermine", on |-> d[1], q |-> d[2]]
  ELSE [kind |-> "none", on |-> <<0, 0>>, q |-> 0]

AttackersInDeadEnds(t, p) ==
  {x \in UNION {Cells(t, c) : c \in Claims(t)} :
     NodeAt(t, x).kind = "dead_end" /\ Attack(t, p, x).kind # "none"}
Attackers(t, p) ==
  {x \in UNION {Cells(t, c) : c \in Claims(t)} : Attack(t, p, x).kind # "none"}

-----------------------------------------------------------------------------
(* What derive refuses (ElabError). *)

\* An exception attaches to the one question with the same variables.
AttachesTo(p, pred) ==
  {q \in DOMAIN p.questions :
     (p.questions[q].asks \in OfExperiment) = (pred \in OfExperiment)}

Derivable(t, p) ==
  \A c \in Claims(t) :
    /\ \A x \in Cells(t, c) :
         NodeAt(t, x).kind = "dead_end" => Cardinality(Supporting(t, c)) = 1
    /\ Supporting(t, c) # {} => p.matching = 1
    /\ \A x \in Cells(t, c) :
         Undercuts(t, p, x) # {} => Cardinality(AttachesTo(p, Prop(t, x)[1])) = 1

-----------------------------------------------------------------------------
(* The checker on the program emitted from t and p, under the policy `copy'
   that lies beside it. *)

LeavesOf(t, p, e) ==
  {Discharge(t, p, e, q) : q \in DOMAIN p.questions} \ {Nowhere}

\* An open mandatory question makes a located hole of the argument.
Hole(t, p, copy, e) ==
  \E q \in DOMAIN p.questions : copy.questions[q].mandatory /\ Discharge(t, p, e, q) = Nowhere

ProgramNodes(t, p, copy) ==
  {e \in AllInstances(t) : ~ Hole(t, p, copy, e)} \cup Attackers(t, p)

\* An undercut reaches the argument it names, an undermining every node with
\* the leaf in it.
ProgramAttacks(t, p, copy) ==
  {a \in Attackers(t, p) \X ProgramNodes(t, p, copy) :
     LET k == Attack(t, p, a[1])
     IN IF k.kind = "undercut" THEN a[2] = k.on
        ELSE LET leaf == Discharge(t, p, k.on, k.q)
             IN a[2] = leaf \/ (a[2] \in AllInstances(t) /\ leaf \in LeavesOf(t, p, a[2]))}

\* A premise two leaves answer is ambiguous to the checker's loader.
Ambiguous(t) ==
  \E e \in AllInstances(t) :
    Cardinality({x \in Cells(t, e[1]) : Prop(t, x) = <<"reports", e>>}) > 1

Licences(t, p, copy) ==
  \A x \in Attackers(t, p) :
    LET k == Attack(t, p, x)
    IN IF k.kind = "undercut" THEN Prop(t, x)[1] \in copy.exceptions
       ELSE <<Prop(t, Discharge(t, p, k.on, k.q))[1], Prop(t, x)[1]>> \in copy.contraries

StatusOf(t, p, copy, c) ==
  LET ns  == ProgramNodes(t, p, copy)
      att == ProgramAttacks(t, p, copy)
      g   == CHOOSE S \in SUBSET ns : LeastComplete(ns, att, S)
      support == {e \in AllInstances(t) \cap ns :
                    t.claims[e[1]].subject = t.claims[c].subject}
  IN StatusWith([n \in ns |-> LabelWith(ns, att, g, n)], support)

Verdict(t, p, copy) ==
  IF Ambiguous(t) THEN [exit |-> 2]
  ELSE IF ~ Licences(t, p, copy) THEN [exit |-> 1]
  ELSE [exit |-> 0,
        holes  |-> {e \in AllInstances(t) : Hole(t, p, copy, e)},
        status |-> [c \in Claims(t) |-> StatusOf(t, p, copy, c)]]
=============================================================================
