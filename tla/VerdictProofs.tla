---------------------------- MODULE VerdictProofs ----------------------------
(***************************************************************************)
(* Proofs about a verdict and the bundle it is kept in, for every finite   *)
(* carrier, attack relation, trace, policy and number of runs.             *)
(*                                                                         *)
(* 1. The bounded grounded iteration.  Its inductive invariant adds to the *)
(*    checked properties what the loop keeps: how many arguments `round'   *)
(*    rounds have found unless they already reached the fixed point.       *)
(* 2. A derivation: what a claim the checker justifies rests on in the     *)
(*    trace it was elaborated from.                                        *)
(* 3. The replay bundle.  Its inductive invariant says, place by place,    *)
(*    what a run has read, moved, installed and put back, of the runs no   *)
(*    other overlaps; that two runs under way have marked each other is a  *)
(*    part of it, so a run that is not marked makes every step itself.     *)
(***************************************************************************)
EXTENDS Grounded, ReplayBundle, FrameworkLemmas

-----------------------------------------------------------------------------
(* The inductive invariant of the grounded evaluation. *)

\* The cache holds exactly the source edges once it is built.
CacheExact == IF stage = "scan" THEN ext = {} /\ round = 0 ELSE adj = attack

\* Every round that changed the extension added an argument to it.
Progress == ext = CharStep(Args, attack, ext) \/ Cardinality(ext) >= round

\* What the last two stages computed, from what.
Computed ==
  /\ stage \in {"report", "done"} =>
       /\ round = Cardinality(Args)
       /\ label = [a \in Args |-> LabelWith(Args, attack, ext, a)]
  /\ stage = "done" => status = [q \in Query |-> StatusWith(label, support[q])]

GroundedInv == TypeOK /\ CacheExact /\ EveryRoundSound /\ Progress /\ Computed

-----------------------------------------------------------------------------
(* The steps of the evaluation. *)

\* The carrier has a size.
LEMMA ArgsCardinality == Cardinality(Args) \in Nat
BY FS_CardinalityType, ArgsAssumption

\* A label is one of the three.
LEMMA LabelType ==
  ASSUME NEW args, NEW att, NEW g, NEW a
  PROVE  LabelWith(args, att, g, a) \in Labels
BY DEF LabelWith, Labels

\* A status is one of the four.
LEMMA StatusType ==
  ASSUME NEW f, NEW s
  PROVE  StatusWith(f, s) \in Statuses
BY DEF StatusWith, Statuses

\* The evaluation starts in the invariant.
LEMMA InitGrounded == GroundedInit => GroundedInv
<1> SUFFICES ASSUME GroundedInit PROVE GroundedInv
  OBVIOUS
<1>1. TypeOK
  BY ArgsCardinality DEF GroundedInit, TypeOK, NoLabel, Labels, Statuses
<1>2. CacheExact /\ Computed
  BY DEF GroundedInit, CacheExact, Computed
<1>3. EveryRoundSound
  BY EmptyAdmissible DEF GroundedInit, EveryRoundSound
<1>4. Progress
  BY FS_EmptySet DEF GroundedInit, Progress
<1> QED
  BY <1>1, <1>2, <1>3, <1>4 DEF GroundedInv

\* Every step of it keeps the invariant, action by action.
LEMMA StepGrounded == GroundedInv /\ [GroundedNext]_groundedVars => GroundedInv'
<1> SUFFICES ASSUME GroundedInv, [GroundedNext]_groundedVars PROVE GroundedInv'
  OBVIOUS
<1> USE ArgsCardinality
<1>1. CASE BuildAdj
  <2>1. TypeOK'
    BY <1>1 DEF GroundedInv, TypeOK, BuildAdj, CachedEdges, input
  <2>2. CacheExact' /\ EveryRoundSound' /\ Progress' /\ Computed'
    BY <1>1 DEF GroundedInv, TypeOK, CacheExact, EveryRoundSound, Progress, Computed,
                BuildAdj, CachedEdges, input
  <2> QED
    BY <2>1, <2>2 DEF GroundedInv
<1>2. CASE Iterate
  <2>1. adj = attack /\ ext' = CharStep(Args, attack, ext) /\ attack' = attack
    BY <1>2 DEF GroundedInv, CacheExact, Iterate, NextExt, input
  <2>2. TypeOK'
    <3>1. ext' \subseteq Args
      BY <2>1 DEF CharStep
    <3>2. round' \in 0..Cardinality(Args)
      BY <1>2 DEF GroundedInv, TypeOK, Iterate, Rounds
    <3> QED
      BY <1>2, <3>1, <3>2 DEF GroundedInv, TypeOK, Iterate, input
  <2>3. CacheExact' /\ Computed'
    BY <1>2 DEF GroundedInv, CacheExact, Computed, Iterate, input
  <2>4. EveryRoundSound'
    BY <2>1, CharStepAdmissible, CharStepWithinComplete DEF GroundedInv, EveryRoundSound
  <2>5. Progress'
    <3>1. round \in Nat /\ round' = round + 1 /\ ext \in SUBSET Args
      BY <1>2 DEF GroundedInv, TypeOK, Iterate
    <3> QED
      BY <2>1, <3>1, RoundProgress, ArgsAssumption DEF GroundedInv, Progress, EveryRoundSound
  <2> QED
    BY <2>2, <2>3, <2>4, <2>5 DEF GroundedInv
<1>3. CASE LabelAll
  <2>1. adj = attack
    BY <1>3 DEF GroundedInv, CacheExact, LabelAll
  <2>2. TypeOK'
    BY <1>3, LabelType DEF GroundedInv, TypeOK, LabelAll, input
  <2>3. CacheExact' /\ EveryRoundSound' /\ Progress' /\ Computed'
    BY <1>3, <2>1 DEF GroundedInv, CacheExact, EveryRoundSound, Progress, Computed,
                      LabelAll, Rounds, input
  <2> QED
    BY <2>2, <2>3 DEF GroundedInv
<1>4. CASE Report
  <2>1. TypeOK'
    BY <1>4, StatusType DEF GroundedInv, TypeOK, Report, input
  <2>2. CacheExact' /\ EveryRoundSound' /\ Progress' /\ Computed'
    BY <1>4 DEF GroundedInv, CacheExact, EveryRoundSound, Progress, Computed, Report, input
  <2> QED
    BY <2>1, <2>2 DEF GroundedInv
<1>5. CASE UNCHANGED groundedVars
  BY <1>5 DEF GroundedInv, TypeOK, CacheExact, EveryRoundSound, Progress, Computed, groundedVars
<1> QED
  BY <1>1, <1>2, <1>3, <1>4, <1>5 DEF GroundedNext

\* The inductive invariant holds of every behaviour of the grounded evaluation.
THEOREM GroundedInvariant == GroundedSpec => []GroundedInv
BY InitGrounded, StepGrounded, PTL DEF GroundedSpec

-----------------------------------------------------------------------------
(* What its invariant gives. *)

\* After |args| rounds the extension is a fixed point, or it would have more
\* arguments than there are.
LEMMA LeastFromGrounded == GroundedInv => GroundedIsLeastComplete
<1> SUFFICES ASSUME GroundedInv, stage \in {"report", "done"}
             PROVE  LeastComplete(Args, attack, ext)
  BY DEF GroundedIsLeastComplete
<1>1. CharStep(Args, attack, ext) = ext
  BY BoundSuffices, ArgsAssumption DEF GroundedInv, TypeOK, Computed, Progress, EveryRoundSound
<1>2. Complete(Args, attack, ext)
  BY <1>1, FixedPointComplete DEF GroundedInv, EveryRoundSound
<1> QED
  BY <1>2 DEF GroundedInv, EveryRoundSound, LeastComplete, Candidates

\* Labelling off a complete extension gives a complete labelling.
LEMMA LabellingOfComplete ==
  ASSUME NEW args, NEW att, NEW S, Complete(args, att, S), NEW a \in args
  PROVE  LET L(b) == LabelWith(args, att, S, b)
         IN /\ L(a) = "in"  <=> a \in S
            /\ L(a) = "out" <=> \E b \in S : <<b, a>> \in att
            /\ L(a) = "in"  <=> \A b \in args : <<b, a>> \in att => L(b) = "out"
            /\ L(a) = "out" <=> \E b \in args : <<b, a>> \in att /\ L(b) = "in"
<1> DEFINE L(b) == LabelWith(args, att, S, b)
<1>1. S \subseteq args /\ ConflictFree(att, S)
  BY DEF Complete, Admissible
<1>2. \A b \in args : L(b) = "in" <=> b \in S
  BY DEF LabelWith
<1>3. \A b \in args : L(b) = "out" <=> \E c \in S : <<c, b>> \in att
  BY <1>1 DEF LabelWith, ConflictFree
<1>4. a \in S <=> Defended(args, att, S, a)
  BY DEF Complete, Admissible
<1> HIDE DEF L
<1>5. L(a) = "in" <=> \A b \in args : <<b, a>> \in att => L(b) = "out"
  BY <1>2, <1>3, <1>4 DEF Defended
<1>6. L(a) = "out" <=> \E b \in args : <<b, a>> \in att /\ L(b) = "in"
  BY <1>1, <1>2, <1>3
<1> QED
  BY <1>2, <1>3, <1>5, <1>6 DEF L

\* The labels are those of a complete extension.
LEMMA LabelsFromGrounded == GroundedInv => LabelsComplete
<1> SUFFICES ASSUME GroundedInv, stage \in {"report", "done"}, NEW a \in Args
             PROVE  LET attackers == {b \in Args : <<b, a>> \in attack}
                    IN /\ label[a] = "in"  <=> \A b \in attackers : label[b] = "out"
                       /\ label[a] = "out" <=> \E b \in attackers : label[b] = "in"
  BY DEF LabelsComplete
<1>1. Complete(Args, attack, ext)
  BY LeastFromGrounded DEF GroundedIsLeastComplete, LeastComplete
<1>2. \A b \in Args : label[b] = LabelWith(Args, attack, ext, b)
  BY DEF GroundedInv, Computed
<1> DEFINE L(b) == LabelWith(Args, attack, ext, b)
<1>3. L(a) = "in" <=> \A b \in Args : <<b, a>> \in attack => L(b) = "out"
  BY <1>1, LabellingOfComplete
<1>4. L(a) = "out" <=> \E b \in Args : <<b, a>> \in attack /\ L(b) = "in"
  BY <1>1, LabellingOfComplete
<1> QED
  BY <1>2, <1>3, <1>4

\* The statuses are those of the complete extensions: the extension is inside
\* every complete one and is one itself, so it witnesses what some of them do.
LEMMA StatusFromGrounded == GroundedInv => StatusSceptical
<1> SUFFICES ASSUME GroundedInv, stage = "done", NEW q \in Query
             PROVE  LET complete  == {E \in Candidates(Args) : Complete(Args, attack, E)}
                        Held(E)   == support[q] \cap E # {}
                        Beaten(E) == support[q] \subseteq Attacked(Args, attack, E)
                    IN /\ status[q] = "gap"       <=> support[q] = {}
                       /\ status[q] = "justified" <=> \A E \in complete : Held(E)
                       /\ status[q] = "defeated"  <=> support[q] # {} /\ \A E \in complete : Beaten(E)
                       /\ status[q] = "contested" <=> /\ support[q] # {}
                                                      /\ \E E \in complete : ~Held(E)
                                                      /\ \E E \in complete : ~Beaten(E)
  BY DEF StatusSceptical
<1> DEFINE complete  == {E \in Candidates(Args) : Complete(Args, attack, E)}
           Held(E)   == support[q] \cap E # {}
           Beaten(E) == support[q] \subseteq Attacked(Args, attack, E)
<1>1. Complete(Args, attack, ext) /\ ext \in complete
  BY LeastFromGrounded
  DEF GroundedIsLeastComplete, LeastComplete, Candidates, Complete, Admissible
<1>2. \A E \in complete : ext \subseteq E
  BY DEF GroundedInv, EveryRoundSound, Candidates
<1>3. \A b \in Args : label[b] = LabelWith(Args, attack, ext, b)
  BY DEF GroundedInv, Computed
<1>4. support[q] \subseteq Args /\ status[q] = StatusWith(label, support[q])
  BY DEF GroundedInv, TypeOK, Computed
<1>5. \A b \in Args : label[b] = "in" <=> b \in ext
  BY <1>3 DEF LabelWith
<1>6. \A b \in Args : label[b] = "out" <=> b \in Attacked(Args, attack, ext)
  <2>1. ext \subseteq Args /\ ConflictFree(attack, ext)
    BY <1>1 DEF Complete, Admissible
  <2> QED
    BY <1>3, <2>1 DEF LabelWith, Attacked, ConflictFree
<1>7. (\E b \in support[q] : label[b] = "in") <=> \A E \in complete : Held(E)
  <2>1. (\E b \in support[q] : label[b] = "in") <=> Held(ext)
    BY <1>4, <1>5
  <2> QED
    BY <1>1, <1>2, <2>1
<1>8. (\A b \in support[q] : label[b] = "out") <=> \A E \in complete : Beaten(E)
  <2>1. (\A b \in support[q] : label[b] = "out") <=> Beaten(ext)
    BY <1>4, <1>6
  <2>2. ASSUME NEW E \in complete, Beaten(ext) PROVE Beaten(E)
    BY <1>2, <2>2 DEF Attacked
  <2> QED
    BY <1>1, <2>1, <2>2
<1>9. \A b \in support[q] : label[b] \in Labels
  BY <1>4 DEF GroundedInv, TypeOK
<1> HIDE DEF complete, Held, Beaten
<1>10. /\ status[q] = "gap"       <=> support[q] = {}
       /\ status[q] = "justified" <=> \E b \in support[q] : label[b] = "in"
       /\ status[q] = "defeated"  <=> support[q] # {} /\ \A b \in support[q] : label[b] = "out"
       /\ status[q] = "contested" <=> /\ support[q] # {}
                                      /\ ~(\E b \in support[q] : label[b] = "in")
                                      /\ ~(\A b \in support[q] : label[b] = "out")
  <2>1. (\E b \in support[q] : label[b] = "in") => ~(\A b \in support[q] : label[b] = "out")
    OBVIOUS
  <2> QED
    BY <1>4, <1>9, <2>1 DEF StatusWith, Labels
<1>11. (\E E \in complete : ~Held(E)) <=> ~(\A E \in complete : Held(E))
  OBVIOUS
<1>12. (\E E \in complete : ~Beaten(E)) <=> ~(\A E \in complete : Beaten(E))
  OBVIOUS
<1>13. /\ status[q] = "gap"       <=> support[q] = {}
       /\ status[q] = "justified" <=> \A E \in complete : Held(E)
       /\ status[q] = "defeated"  <=> support[q] # {} /\ \A E \in complete : Beaten(E)
       /\ status[q] = "contested" <=> /\ support[q] # {}
                                      /\ \E E \in complete : ~Held(E)
                                      /\ \E E \in complete : ~Beaten(E)
  BY <1>7, <1>8, <1>10, <1>11, <1>12
<1> QED
  BY <1>13 DEF complete, Held, Beaten

-----------------------------------------------------------------------------
(* The theorems about it. *)

\* The variables keep their types: the carrier is never left.
THEOREM TypeCorrect == GroundedSpec => []TypeOK
BY GroundedInvariant, PTL DEF GroundedInv

\* No round of the iteration accepts an argument that some complete extension
\* rejects, or two arguments in conflict, whatever the attack relation.
THEOREM RoundsSound == GroundedSpec => []EveryRoundSound
BY GroundedInvariant, PTL DEF GroundedInv

\* grounded computes the least complete extension: iterating |args| times,
\* with no test for stability, always reaches the fixed point.
THEOREM BoundIsEnough == GroundedSpec => []GroundedIsLeastComplete
BY GroundedInvariant, LeastFromGrounded, PTL

\* labelWithGrounded yields a complete labelling of the uncached framework.
THEOREM LabelsAreComplete == GroundedSpec => []LabelsComplete
BY GroundedInvariant, LabelsFromGrounded, PTL

\* A published status is what all complete extensions together say of a claim,
\* each of the four exactly when they say so.
THEOREM StatusesSceptical == GroundedSpec => []StatusSceptical
BY GroundedInvariant, StatusFromGrounded, PTL

\* An argument that entered the extension stays in it.
THEOREM ExtensionAscends == GroundedSpec => Ascending
<1>1. GroundedInv /\ [GroundedNext]_groundedVars => [ext \subseteq ext' /\ (stage # "scan" => adj' = adj)]_groundedVars
  <2> SUFFICES ASSUME GroundedInv, GroundedNext
               PROVE  ext \subseteq ext' /\ (stage # "scan" => adj' = adj)
    BY DEF groundedVars
  <2>1. CASE BuildAdj
    BY <2>1 DEF BuildAdj
  <2>2. CASE Iterate
    <3>1. adj = attack
      BY <2>2 DEF GroundedInv, CacheExact, Iterate
    <3> QED
      BY <2>2, <3>1, AdmissibleAscends DEF GroundedInv, EveryRoundSound, Iterate, NextExt
  <2>3. CASE LabelAll \/ Report
    BY <2>3 DEF LabelAll, Report
  <2> QED
    BY <2>1, <2>2, <2>3 DEF GroundedNext
<1> QED
  BY <1>1, GroundedInvariant, PTL DEF GroundedSpec, Ascending

-----------------------------------------------------------------------------
(* First places. *)

\* A nonempty set of places has a first one.
LEMMA FirstExists ==
  ASSUME NEW S, S \subseteq Nat \X Nat \X Nat, S # {}
  PROVE  \E x \in S : \A y \in S : Before3(x, y)
<1> DEFINE A == {x[1] : x \in S}
<1>1. A \subseteq Nat /\ A # {}
  OBVIOUS
<1>2. PICK a \in A : \A b \in A : a <= b
  <2> HIDE DEF A
  <2> QED BY <1>1, LeastNatural
<1> DEFINE B == {x[2] : x \in {y \in S : y[1] = a}}
<1>3. B \subseteq Nat /\ B # {}
  BY <1>2
<1>4. PICK b \in B : \A c \in B : b <= c
  <2> HIDE DEF B
  <2> QED BY <1>3, LeastNatural
<1> DEFINE C == {x[3] : x \in {y \in S : y[1] = a /\ y[2] = b}}
<1>5. C \subseteq Nat /\ C # {}
  BY <1>4
<1>6. PICK c \in C : \A d \in C : c <= d
  <2> HIDE DEF C
  <2> QED BY <1>5, LeastNatural
<1>7. PICK x \in S : x[1] = a /\ x[2] = b /\ x[3] = c
  BY <1>6
<1>8. ASSUME NEW y \in S PROVE Before3(x, y)
  <2>1. /\ x[1] \in Nat /\ x[2] \in Nat /\ x[3] \in Nat
        /\ y[1] \in Nat /\ y[2] \in Nat /\ y[3] \in Nat
    OBVIOUS
  <2>2. x[1] <= y[1]
    BY <1>2, <1>7
  <2>3. y[1] = x[1] => x[2] <= y[2]
    BY <1>4, <1>7
  <2>4. y[1] = x[1] /\ y[2] = x[2] => x[3] <= y[3]
    BY <1>6, <1>7
  <2> HIDE DEF A, B, C
  <2> QED BY <2>1, <2>2, <2>3, <2>4 DEF Before3
<1> QED BY <1>7, <1>8

-----------------------------------------------------------------------------
(* What an accepted derivation knows of a cell. *)

\* The places of a trace are numbers.
LEMMA PlacesAreNumbers ==
  ASSUME NEW t, IsTrace(t), NEW c \in Claims(t)
  PROVE  /\ c \in Nat /\ Nodes(t, c) \subseteq Nat /\ Supporting(t, c) \subseteq Nat
         /\ IsFiniteSet(Supporting(t, c))
         /\ Cells(t, c) \subseteq Nat \X Nat \X Nat
         /\ \A x \in Cells(t, c) : /\ x[1] = c /\ x[2] \in Nodes(t, c) /\ x = <<x[1], x[2], x[3]>>
                                   /\ NodeAt(t, x).kind \in {"experiment", "dead_end"}
<1> DEFINE kids == t.claims[c].children
<1>1. c \in Nat /\ kids \in Seq(Node)
  BY DEF IsTrace
<1>2. Nodes(t, c) = 1..Len(kids) /\ Len(kids) \in Nat /\ \A n \in Nodes(t, c) : kids[n] \in Node
  BY <1>1 DEF Nodes
<1>3. Nodes(t, c) \subseteq Nat /\ Supporting(t, c) \subseteq Nodes(t, c)
  BY <1>2 DEF Supporting
<1>4. IsFiniteSet(Supporting(t, c))
  <2> DEFINE k == Len(kids)
  <2>1. k \in Int /\ Nodes(t, c) = 1..k
    BY <1>2
  <2> HIDE DEF k
  <2>2. IsFiniteSet(1..k)
    BY <2>1, FS_Interval
  <2> QED BY <1>3, <2>1, <2>2, FS_Subset
<1> HIDE DEF kids
<1>5. ASSUME NEW x \in Cells(t, c)
      PROVE  /\ x[1] = c /\ x[2] \in Nodes(t, c) /\ x = <<x[1], x[2], x[3]>> /\ x[3] \in Nat
             /\ NodeAt(t, x).kind \in {"experiment", "dead_end"}
  <2>1. x \in {c} \X Nodes(t, c) \X (1..9)
    BY DEF Cells
  <2>2. x[1] = c /\ x[2] \in Nodes(t, c) /\ x = <<x[1], x[2], x[3]>> /\ x[3] \in 1..9
    BY <2>1
  <2>3. NodeAt(t, x) = kids[x[2]]
    BY <2>2 DEF NodeAt, kids
  <2>4. NodeAt(t, x).kind \in {"experiment", "dead_end"}
    BY <1>2, <2>2, <2>3 DEF Node
  <2> QED BY <2>2, <2>4
<1>6. Cells(t, c) \subseteq Nat \X Nat \X Nat
  BY <1>1, <1>3, <1>5
<1> QED BY <1>1, <1>3, <1>4, <1>5, <1>6

\* The instances of a claim.
LEMMA InstanceShape ==
  ASSUME NEW t, NEW c
  PROVE  \A e : e \in Instances(t, c) <=> /\ e = <<e[1], e[2]>> /\ e[1] = c
                                          /\ e[2] \in Supporting(t, c)
<1>1. ASSUME NEW e \in Instances(t, c)
      PROVE  e = <<e[1], e[2]>> /\ e[1] = c /\ e[2] \in Supporting(t, c)
  BY DEF Instances
<1>2. ASSUME NEW e, e = <<e[1], e[2]>>, e[1] = c, e[2] \in Supporting(t, c)
      PROVE  e \in Instances(t, c)
  BY <1>2 DEF Instances
<1> QED BY <1>1, <1>2

\* An instance is one of its own claim.
LEMMA AnInstance ==
  ASSUME NEW t, NEW e \in AllInstances(t)
  PROVE  e[1] \in Claims(t) /\ e \in Instances(t, e[1])
BY InstanceShape DEF AllInstances

\* A cell with the predicate of a question or of evidence against one is about
\* the instance it is counted for.
LEMMA CellIsAbout ==
  ASSUME NEW t, IsTrace(t), NEW p, Derivable(t, p), NEW e \in AllInstances(t),
         NEW x \in Cells(t, e[1]),
         Predicate[TopicAt(t, x)] \in OfExperiment => NodeAt(t, x).kind = "dead_end" \/ x[2] = e[2]
  PROVE  Prop(t, x) = About(t, Predicate[TopicAt(t, x)], e)
<1> DEFINE c == e[1]
           pred == Predicate[TopicAt(t, x)]
<1>1. c \in Claims(t) /\ e \in Instances(t, c)
  BY AnInstance
<1>2. e = <<c, e[2]>> /\ e[2] \in Supporting(t, c)
  BY <1>1, InstanceShape
<1>3. x[1] = c /\ NodeAt(t, x).kind \in {"experiment", "dead_end"}
  BY <1>1, PlacesAreNumbers
<1>4. CASE NodeAt(t, x).kind = "dead_end"
  <2>1. Cardinality(Supporting(t, c)) = 1 /\ IsFiniteSet(Supporting(t, c))
    BY <1>1, <1>4, PlacesAreNumbers DEF Derivable
  <2>2. PICK n : Supporting(t, c) = {n}
    BY <2>1, FS_Singleton
  <2>3. \A f \in Instances(t, c) : f = e
    BY <1>2, <2>2, InstanceShape
  <2>4. BoundTo(t, x) = e
    BY <1>1, <1>3, <1>4, <2>3 DEF BoundTo
  <2> QED BY <2>4 DEF Prop
<1>5. CASE NodeAt(t, x).kind = "experiment"
  <2>1. BoundTo(t, x) = <<c, x[2]>>
    BY <1>3, <1>5 DEF BoundTo
  <2>2. pred \in OfExperiment => BoundTo(t, x) = e
    BY <1>2, <1>5, <2>1
  <2>3. BoundTo(t, x)[1] = e[1]
    BY <2>1
  <2>4. About(t, pred, BoundTo(t, x)) = About(t, pred, e)
    <3> HIDE DEF pred
    <3> QED BY <2>2, <2>3 DEF About
  <2> QED BY <2>4 DEF Prop
<1> QED BY <1>3, <1>4, <1>5

-----------------------------------------------------------------------------
(* The attacks of a cell. *)

\* The leaf that discharges a question answers it.
LEMMA DischargeAnswers ==
  ASSUME NEW t, IsTrace(t), NEW p, NEW e, e[1] \in Claims(t), NEW q
  PROVE  /\ Answers(t, p, e, q) # {} => Discharge(t, p, e, q) \in Answers(t, p, e, q)
         /\ Discharge(t, p, e, q) # Nowhere => Discharge(t, p, e, q) \in Answers(t, p, e, q)
<1> DEFINE S == Answers(t, p, e, q)
<1>1. S \subseteq Nat \X Nat \X Nat
  BY PlacesAreNumbers DEF Answers
<1> HIDE DEF S
<1>2. S # {} => FirstOf(S) \in S
  BY <1>1, FirstExists DEF FirstOf
<1>3. Discharge(t, p, e, q) = IF S = {} THEN Nowhere ELSE FirstOf(S)
  BY DEF Discharge, S
<1> QED BY <1>2, <1>3 DEF S

\* A cell undermines the first discharge it is contrary to.
LEMMA FirstUndermined ==
  ASSUME NEW t, IsTrace(t), NEW p, IsPolicy(p), NEW x, x[1] \in Claims(t),
         Undercuts(t, p, x) = {}, Undermines(t, p, x) # {}
  PROVE  \E d \in Undermines(t, p, x) :
           Attack(t, p, x) = [kind |-> "undermine", on |-> d[1], q |-> d[2]]
<1> DEFINE U == Undermines(t, p, x)
           key(d) == <<d[1][1], d[1][2], d[2]>>
           S == {key(d) : d \in U}
<1>1. \A d \in U : key(d) \in Nat \X Nat \X Nat
  <2> SUFFICES ASSUME NEW d \in U PROVE key(d) \in Nat \X Nat \X Nat
    OBVIOUS
  <2>1. d[1] \in Instances(t, x[1]) /\ d[2] \in DOMAIN p.questions
    BY DEF Undermines
  <2>2. d[1][1] = x[1] /\ d[1][2] \in Supporting(t, x[1])
    BY <2>1, InstanceShape
  <2>3. d[2] \in Nat
    BY <2>1 DEF IsPolicy
  <2>4. d[1][1] \in Nat /\ d[1][2] \in Nat
    BY <2>2, PlacesAreNumbers
  <2> QED BY <2>3, <2>4
<1> HIDE DEF U, key
<1>2. PICK y \in S : \A z \in S : Before3(y, z)
  <2>1. S \subseteq Nat \X Nat \X Nat /\ S # {}
    BY <1>1 DEF U
  <2> HIDE DEF S
  <2> QED BY <2>1, FirstExists
<1>3. PICK b \in U : \A f \in U : Before3(key(b), key(f))
  BY <1>2
<1> DEFINE d == CHOOSE d \in U : \A f \in U : Before3(key(d), key(f))
<1>4. d \in U
  BY <1>3
<1>5. Attack(t, p, x) = [kind |-> "undermine", on |-> d[1], q |-> d[2]]
  BY DEF Attack, U, key
<1> HIDE DEF d
<1> QED BY <1>4, <1>5 DEF U

\* What a cell that attacks attacks.
LEMMA AttackShape ==
  ASSUME NEW t, IsTrace(t), NEW p, IsPolicy(p), NEW x, x[1] \in Claims(t)
  PROVE  \/ /\ Attack(t, p, x).kind = "undercut"
            /\ Undercuts(t, p, x) # {} /\ Attack(t, p, x).on \in Undercuts(t, p, x)
         \/ /\ Attack(t, p, x).kind = "undermine" /\ Undercuts(t, p, x) = {}
            /\ Attack(t, p, x).on \in Instances(t, x[1])
            /\ Attack(t, p, x).q \in DOMAIN p.questions
            /\ LET y == Discharge(t, p, Attack(t, p, x).on, Attack(t, p, x).q)
               IN y # Nowhere /\ ContraryPair(p, Prop(t, y), Prop(t, x))
         \/ /\ Attack(t, p, x).kind = "none"
            /\ Undercuts(t, p, x) = {} /\ Undermines(t, p, x) = {}
<1>1. CASE Undercuts(t, p, x) # {}
  <2> DEFINE on == CHOOSE e \in Undercuts(t, p, x) : TRUE
  <2>1. on \in Undercuts(t, p, x)
    BY <1>1
  <2>2. Attack(t, p, x).kind = "undercut" /\ Attack(t, p, x).on = on
    BY <1>1 DEF Attack
  <2> QED BY <1>1, <2>1, <2>2
<1>2. CASE Undercuts(t, p, x) = {} /\ Undermines(t, p, x) # {}
  <2>1. PICK d \in Undermines(t, p, x) :
          Attack(t, p, x) = [kind |-> "undermine", on |-> d[1], q |-> d[2]]
    BY <1>2, FirstUndermined
  <2>2. /\ d[1] \in Instances(t, x[1]) /\ d[2] \in DOMAIN p.questions
        /\ LET y == Discharge(t, p, d[1], d[2])
           IN y # Nowhere /\ ContraryPair(p, Prop(t, y), Prop(t, x))
    BY DEF Undermines
  <2> QED BY <1>2, <2>1, <2>2
<1>3. CASE Undercuts(t, p, x) = {} /\ Undermines(t, p, x) = {}
  BY <1>3 DEF Attack
<1> QED BY <1>1, <1>2, <1>3

\* A policy under which evidence against an argument cannot answer a question
\* of one: no question asks for an exception or for the contrary of what
\* another asks, no such contrary is an exception, and contraries are about
\* the same thing.
Separates(p) ==
  /\ \A q \in DOMAIN p.questions : p.questions[q].asks \notin p.exceptions
  /\ \A c \in p.contraries, q \in DOMAIN p.questions :
       p.questions[q].asks = c[1] =>
         /\ c[2] \notin p.exceptions
         /\ \A r \in DOMAIN p.questions : p.questions[r].asks # c[2]
         /\ c[1] \in OfExperiment <=> c[2] \in OfExperiment

\* No cell attacks one that answers no question.
LEMMA OnlyAnswersAreAttacked ==
  ASSUME NEW t, IsTrace(t), NEW p, IsPolicy(p), NEW copy,
         NEW c \in Claims(t), NEW x \in Cells(t, c),
         \A q \in DOMAIN p.questions : p.questions[q].asks # Predicate[TopicAt(t, x)],
         NEW z, <<z, x>> \in ProgramAttacks(t, p, copy)
  PROVE  FALSE
<1>1. z \in Attackers(t, p) /\
      LET k == Attack(t, p, z)
      IN IF k.kind = "undercut" THEN x = k.on
         ELSE LET leaf == Discharge(t, p, k.on, k.q)
              IN x = leaf \/ (x \in AllInstances(t) /\ leaf \in LeavesOf(t, p, x))
  BY DEF ProgramAttacks
<1>2. x = <<x[1], x[2], x[3]>>
  BY PlacesAreNumbers
<1>3. \A a, b : x # <<a, b>>
  BY <1>2
<1>4. x \notin AllInstances(t)
  BY <1>3 DEF AllInstances, Instances
<1>5. Attack(t, p, z).kind # "none" /\ z[1] \in Claims(t)
  BY <1>1, PlacesAreNumbers DEF Attackers
<1>6. \A on \in Undercuts(t, p, z) : x # on
  BY <1>3 DEF Undercuts
<1>7. CASE Attack(t, p, z).kind = "undercut"
  BY <1>1, <1>5, <1>6, <1>7, AttackShape
<1>8. CASE Attack(t, p, z).kind # "undercut"
  <2> DEFINE on == Attack(t, p, z).on
             q  == Attack(t, p, z).q
  <2>1. on \in Instances(t, z[1]) /\ q \in DOMAIN p.questions /\ Discharge(t, p, on, q) # Nowhere
    BY <1>5, <1>8, AttackShape
  <2>2. x = Discharge(t, p, on, q)
    BY <1>1, <1>4, <1>8
  <2> HIDE DEF on, q
  <2>3. on[1] \in Claims(t)
    BY <1>5, <2>1, InstanceShape
  <2>4. x \in Answers(t, p, on, q)
    BY <2>1, <2>2, <2>3, DischargeAnswers
  <2>5. Prop(t, x)[1] = p.questions[q].asks
    BY <2>4 DEF Answers, About
  <2>6. Prop(t, x)[1] = Predicate[TopicAt(t, x)]
    BY DEF Prop, About
  <2> QED BY <2>1, <2>5, <2>6
<1> QED BY <1>7, <1>8

\* The second part of a proposition depends on its predicate's kind and the instance.
LEMMA SameAbout ==
  ASSUME NEW t, NEW a, NEW b, NEW e, a \in OfExperiment <=> b \in OfExperiment
  PROVE  About(t, a, e)[2] = About(t, b, e)[2] /\ About(t, a, e)[1] = a
BY DEF About

\* An exception undercuts the first instance of its claim.
LEMMA ExceptionAttacks ==
  ASSUME NEW t, IsTrace(t), NEW p, IsPolicy(p), Derivable(t, p), NEW copy,
         NEW e \in AllInstances(t), e \in ProgramNodes(t, p, copy),
         NEW x \in Cells(t, e[1]), Predicate[TopicAt(t, x)] \in p.exceptions,
         \A n \in Supporting(t, e[1]) : e[2] <= n
  PROVE  x \in ProgramNodes(t, p, copy) /\ <<x, e>> \in ProgramAttacks(t, p, copy)
<1> DEFINE c == e[1]
           first == CHOOSE n \in Supporting(t, c) : \A m \in Supporting(t, c) : n <= m
<1>1. c \in Claims(t) /\ e = <<c, e[2]>> /\ e[2] \in Supporting(t, c)
  BY AnInstance, InstanceShape
<1>2. x[1] = c /\ Supporting(t, c) \subseteq Nat
  BY <1>1, PlacesAreNumbers
<1>3. first \in Supporting(t, c) /\ \A m \in Supporting(t, c) : first <= m
  BY <1>1
<1>4. first = e[2]
  <2> HIDE DEF first
  <2> QED BY <1>1, <1>2, <1>3
<1> HIDE DEF first
<1>5. Matches(Predicate[TopicAt(t, x)], Prop(t, x))
  BY DEF Matches, Prop, About
<1>6. Undercuts(t, p, x) = {<<c, first>>}
  BY <1>1, <1>2, <1>5 DEF Undercuts, first
<1>7. Attack(t, p, x).kind = "undercut" /\ Attack(t, p, x).on = e
  <2>1. \A f \in Undercuts(t, p, x) : f = e
    BY <1>1, <1>4, <1>6
  <2>2. Undercuts(t, p, x) # {}
    BY <1>6
  <2>3. x[1] \in Claims(t)
    BY <1>1, <1>2
  <2> QED BY <2>1, <2>2, <2>3, AttackShape
<1>8. x \in Attackers(t, p)
  BY <1>1, <1>7 DEF Attackers
<1>9. x \in ProgramNodes(t, p, copy)
  BY <1>8 DEF ProgramNodes
<1>10. <<x, e>> \in ProgramAttacks(t, p, copy)
  BY <1>7, <1>8 DEF ProgramAttacks
<1> QED BY <1>9, <1>10

\* Evidence for the contrary of an answer undermines a leaf of the instance.
LEMMA ContraryAttacks ==
  ASSUME NEW t, IsTrace(t), NEW p, IsPolicy(p), Separates(p), Derivable(t, p), NEW copy,
         NEW e \in AllInstances(t), e \in ProgramNodes(t, p, copy),
         NEW c \in p.contraries, NEW q \in DOMAIN p.questions, p.questions[q].asks = c[1],
         NEW y \in Cells(t, e[1]), Predicate[TopicAt(t, y)] = c[1],
         c[1] \in OfExperiment => NodeAt(t, y).kind = "dead_end" \/ y[2] = e[2],
         NEW x \in Cells(t, e[1]), Predicate[TopicAt(t, x)] = c[2],
         c[2] \in OfExperiment => NodeAt(t, x).kind = "dead_end" \/ x[2] = e[2]
  PROVE  x \in ProgramNodes(t, p, copy) /\ <<x, e>> \in ProgramAttacks(t, p, copy)
<1>1. /\ e[1] \in Claims(t) /\ e \in Instances(t, e[1])
      /\ x[1] = e[1]
  BY AnInstance, PlacesAreNumbers
<1>2. Prop(t, y) = About(t, c[1], e) /\ Prop(t, x) = About(t, c[2], e)
  BY CellIsAbout
<1>3. c = <<c[1], c[2]>> /\ (c[1] \in OfExperiment <=> c[2] \in OfExperiment) /\ c[2] \notin p.exceptions
  BY DEF IsPolicy, Separates
<1> DEFINE leaf == Discharge(t, p, e, q)
<1>4. leaf # Nowhere /\ Prop(t, leaf) = About(t, c[1], e)
  <2>1. y \in Answers(t, p, e, q)
    BY <1>2 DEF Answers
  <2>2. leaf \in Answers(t, p, e, q)
    BY <1>1, <2>1, DischargeAnswers
  <2>3. leaf \in Nat \X Nat \X Nat
    BY <1>1, <2>2, PlacesAreNumbers DEF Answers
  <2>4. leaf[1] = e[1] /\ e[1] \in Claims(t) /\ leaf \in Cells(t, e[1])
    BY <1>1, <2>2, PlacesAreNumbers DEF Answers
  <2>5. leaf # Nowhere
    <3>1. leaf[3] \in 1..9
      <4> HIDE DEF leaf
      <4> QED BY <2>4 DEF Cells
    <3> HIDE DEF leaf
    <3>2. Nowhere[3] = 0
      BY DEF Nowhere
    <3> QED BY <3>1, <3>2
  <2> QED BY <2>2, <2>5 DEF Answers
<1>5. Undermines(t, p, x) # {}
  <2>1. ContraryPair(p, Prop(t, leaf), Prop(t, x))
    <3> HIDE DEF leaf
    <3> QED BY <1>2, <1>3, <1>4, SameAbout DEF ContraryPair
  <2>2. <<e, q>> \in Undermines(t, p, x)
    BY <1>1, <1>4, <2>1 DEF Undermines
  <2> QED BY <2>2
<1>6. Undercuts(t, p, x) = {}
  <2>1. Prop(t, x)[1] = c[2]
    BY <1>2 DEF About
  <2>2. ~ \E pred \in p.exceptions : Matches(pred, Prop(t, x))
    BY <1>3, <2>1 DEF Matches
  <2> QED BY <2>2 DEF Undercuts
<1> DEFINE on == Attack(t, p, x).on
           r  == Attack(t, p, x).q
           hit == Discharge(t, p, on, r)
<1>7. /\ Attack(t, p, x).kind = "undermine" /\ on \in Instances(t, e[1]) /\ r \in DOMAIN p.questions
      /\ hit # Nowhere /\ ContraryPair(p, Prop(t, hit), Prop(t, x))
  BY <1>1, <1>5, <1>6, AttackShape
<1> HIDE DEF on, r
<1>8. Prop(t, hit) = About(t, p.questions[r].asks, on)
  <2>1. on[1] \in Claims(t)
    BY <1>1, <1>7, InstanceShape
  <2> QED BY <1>7, <2>1, DischargeAnswers DEF Answers
<1> DEFINE asks == p.questions[r].asks
<1> HIDE DEF hit
<1>9. /\ <<asks, c[2]>> \in p.contraries
      /\ About(t, asks, on)[2] = About(t, c[2], e)[2]
  <2>1. About(t, asks, on)[1] = asks /\ About(t, c[2], e)[1] = c[2]
    BY DEF About
  <2> HIDE DEF asks
  <2> QED BY <1>2, <1>7, <1>8, <2>1 DEF ContraryPair, asks
<1>10. asks \in OfExperiment <=> c[2] \in OfExperiment
  BY <1>7, <1>9 DEF Separates
<1>11. hit \in LeavesOf(t, p, e)
  <2>1. on[1] = e[1]
    BY <1>7, InstanceShape
  <2>2. CASE asks \in OfExperiment
    <3>1. on = e
      BY <1>9, <1>10, <2>2 DEF About
    <3> QED BY <1>7, <3>1 DEF LeavesOf, hit
  <2>3. CASE asks \notin OfExperiment
    <3>1. About(t, asks, on) = About(t, asks, e)
      BY <2>1, <2>3 DEF About
    <3>2. Answers(t, p, on, r) = Answers(t, p, e, r)
      BY <2>1, <3>1 DEF Answers
    <3>3. hit = Discharge(t, p, e, r)
      BY <3>2 DEF Discharge, hit
    <3> QED BY <1>7, <3>3 DEF LeavesOf
  <2> QED BY <2>2, <2>3
<1>12. x \in Attackers(t, p)
  BY <1>1, <1>7 DEF Attackers
<1>13. x \in ProgramNodes(t, p, copy)
  BY <1>12 DEF ProgramNodes
<1>14. <<x, e>> \in ProgramAttacks(t, p, copy)
  <2>1. <<x, e>> \in Attackers(t, p) \X ProgramNodes(t, p, copy)
    BY <1>12
  <2> QED BY <1>7, <1>11, <2>1 DEF ProgramAttacks, on, r, hit
<1> QED BY <1>13, <1>14

\* No argument of the extension has evidence against it: what attacks it is not attacked.
LEMMA AcceptedIsUncountered ==
  ASSUME NEW t, IsTrace(t), NEW p, IsPolicy(p), Separates(p), Derivable(t, p), NEW copy, NEW g,
         LeastComplete(ProgramNodes(t, p, copy), ProgramAttacks(t, p, copy), g),
         NEW e \in AllInstances(t), e \in ProgramNodes(t, p, copy), e \in g
  PROVE  ~ Counter(t, p, e)
<1>1. SUFFICES ASSUME NEW x \in Cells(t, e[1]), x \in ProgramNodes(t, p, copy),
                      <<x, e>> \in ProgramAttacks(t, p, copy),
                      \A q \in DOMAIN p.questions : p.questions[q].asks # Predicate[TopicAt(t, x)]
               PROVE  FALSE
  <2> SUFFICES ASSUME Counter(t, p, e) PROVE FALSE
    OBVIOUS
  <2>1. CASE \E pred \in p.exceptions :
               HasCell(t, e, pred) /\ \A n \in Supporting(t, e[1]) : e[2] <= n
    <3>1. PICK x \in Cells(t, e[1]) : /\ Predicate[TopicAt(t, x)] \in p.exceptions
                                      /\ \A n \in Supporting(t, e[1]) : e[2] <= n
      BY <2>1 DEF HasCell
    <3>2. x \in ProgramNodes(t, p, copy) /\ <<x, e>> \in ProgramAttacks(t, p, copy)
      BY <3>1, ExceptionAttacks
    <3>3. \A q \in DOMAIN p.questions : p.questions[q].asks # Predicate[TopicAt(t, x)]
      BY <3>1 DEF Separates
    <3> QED BY <1>1, <3>2, <3>3
  <2>2. CASE \E c \in p.contraries, q \in DOMAIN p.questions :
               p.questions[q].asks = c[1] /\ HasCell(t, e, c[1]) /\ HasCell(t, e, c[2])
    <3>1. PICK c \in p.contraries, q \in DOMAIN p.questions :
            p.questions[q].asks = c[1] /\ HasCell(t, e, c[1]) /\ HasCell(t, e, c[2])
      BY <2>2
    <3>2. PICK y \in Cells(t, e[1]) :
            /\ Predicate[TopicAt(t, y)] = c[1]
            /\ c[1] \in OfExperiment => NodeAt(t, y).kind = "dead_end" \/ y[2] = e[2]
      BY <3>1 DEF HasCell
    <3>3. PICK x \in Cells(t, e[1]) :
            /\ Predicate[TopicAt(t, x)] = c[2]
            /\ c[2] \in OfExperiment => NodeAt(t, x).kind = "dead_end" \/ x[2] = e[2]
      BY <3>1 DEF HasCell
    <3>4. x \in ProgramNodes(t, p, copy) /\ <<x, e>> \in ProgramAttacks(t, p, copy)
      BY <3>1, <3>2, <3>3, ContraryAttacks
    <3>5. \A r \in DOMAIN p.questions : p.questions[r].asks # Predicate[TopicAt(t, x)]
      BY <3>1, <3>3 DEF Separates
    <3> QED BY <1>1, <3>4, <3>5
  <2> QED BY <2>1, <2>2 DEF Counter
<1>2. Defended(ProgramNodes(t, p, copy), ProgramAttacks(t, p, copy), g, e)
  BY DEF LeastComplete, Complete, Admissible
<1>3. PICK z \in g : <<z, x>> \in ProgramAttacks(t, p, copy)
  BY <1>1, <1>2 DEF Defended
<1>4. e[1] \in Claims(t)
  BY AnInstance
<1> QED BY <1>1, <1>3, <1>4, OnlyAnswersAreAttacked

\* An argument without a hole has a cell for every mandatory question.
LEMMA AcceptedIsAnswered ==
  ASSUME NEW t, IsTrace(t), NEW p, NEW copy,
         DOMAIN copy.questions = DOMAIN p.questions,
         \A q \in DOMAIN p.questions : copy.questions[q].asks = p.questions[q].asks,
         NEW e \in AllInstances(t), ~ Hole(t, p, copy, e),
         NEW q \in DOMAIN copy.questions, copy.questions[q].mandatory
  PROVE  HasCell(t, e, copy.questions[q].asks)
<1> DEFINE asks == copy.questions[q].asks
           x == Discharge(t, p, e, q)
<1>1. e[1] \in Claims(t) /\ e = <<e[1], e[2]>>
  BY AnInstance, InstanceShape
<1>2. x # Nowhere
  BY DEF Hole
<1>3. x \in Cells(t, e[1]) /\ Prop(t, x) = About(t, asks, e)
  BY <1>1, <1>2, DischargeAnswers DEF Answers
<1> HIDE DEF x, asks
<1>4. x[1] = e[1] /\ NodeAt(t, x).kind \in {"experiment", "dead_end"}
  BY <1>1, <1>3, PlacesAreNumbers
<1>5. Predicate[TopicAt(t, x)] = asks
  BY <1>3 DEF Prop, About
<1>6. ASSUME asks \in OfExperiment, NodeAt(t, x).kind = "experiment" PROVE x[2] = e[2]
  <2>1. BoundTo(t, x) = <<x[1], x[2]>>
    BY <1>6 DEF BoundTo
  <2>2. BoundTo(t, x) = e
    BY <1>3, <1>5, <1>6 DEF Prop, About
  <2> QED BY <2>1, <2>2
<1>7. HasCell(t, e, asks)
  BY <1>3, <1>4, <1>5, <1>6 DEF HasCell
<1> QED BY <1>7 DEF asks

\* What a justified claim rests on.
LEMMA JustifiedRests ==
  ASSUME NEW t, NEW p, NEW copy, NEW k, StatusOf(t, p, copy, k) = "justified"
  PROVE  \E g : \E e \in AllInstances(t) :
           /\ LeastComplete(ProgramNodes(t, p, copy), ProgramAttacks(t, p, copy), g)
           /\ e \in g /\ e \in ProgramNodes(t, p, copy)
           /\ t.claims[e[1]].subject = t.claims[k].subject
<1> DEFINE ns  == ProgramNodes(t, p, copy)
           att == ProgramAttacks(t, p, copy)
           g   == CHOOSE S \in SUBSET ns : LeastComplete(ns, att, S)
           own == {e \in AllInstances(t) \cap ns : t.claims[e[1]].subject = t.claims[k].subject}
           lab == [n \in ns |-> LabelWith(ns, att, g, n)]
<1>1. LeastComplete(ns, att, g)
  BY LeastCompleteExists
<1>2. StatusWith(lab, own) = "justified"
  BY DEF StatusOf
<1>3. \A n \in ns : lab[n] = "in" => n \in g
  BY DEF LabelWith
<1> HIDE DEF ns, att, g, own, lab
<1>4. PICK e \in own : lab[e] = "in"
  BY <1>2 DEF StatusWith
<1>5. e \in g /\ e \in ns /\ e \in AllInstances(t) /\ t.claims[e[1]].subject = t.claims[k].subject
  BY <1>3, <1>4 DEF own
<1> QED BY <1>1, <1>5 DEF ns, att

\* The derivation's own promise: a claim the checker justifies of what the
\* elaborator emits for s under p has its evidence in the trace.
LEMMA EvidenceStands ==
  ASSUME NEW s \in Sources, NEW p \in Policies, NEW c \in Policies, Separates(PolicyOf[p])
  PROVE  Evidenced[s][p][c]
<1> DEFINE t == TraceOf[s]
           P == PolicyOf[p]
           C == PolicyOf[c]
<1>1. IsTrace(t) /\ IsPolicy(P)
  BY BundleAssumption DEF Sources
<1>2. /\ DOMAIN C.questions = DOMAIN P.questions
      /\ \A q \in DOMAIN P.questions : C.questions[q].asks = P.questions[q].asks
  BY BundleAssumption
<1>3. SUFFICES ASSUME VerdictOn[s][p][c].exit = 0, NEW k \in Claims(t),
                      VerdictOn[s][p][c].status[k] = "justified"
               PROVE  \E e \in AllInstances(t) :
                        /\ t.claims[e[1]].subject = t.claims[k].subject
                        /\ \A q \in DOMAIN C.questions :
                             C.questions[q].mandatory => HasCell(t, e, C.questions[q].asks)
                        /\ ~ Counter(t, P, e)
  BY DEF Evidenced
<1>4. CanDerive[s][p] /\ VerdictOn[s][p][c] = Verdict(t, P, C)
  <2>1. VerdictOn[s][p][c] = IF CanDerive[s][p] THEN Verdict(t, P, C) ELSE [exit |-> 2]
    BY DEF VerdictOn
  <2> QED BY <1>3, <2>1
<1>5. Derivable(t, P)
  BY <1>4 DEF CanDerive
<1>6. StatusOf(t, P, C, k) = "justified"
  <2> DEFINE holes  == {e \in AllInstances(t) : Hole(t, P, C, e)}
             states == [j \in Claims(t) |-> StatusOf(t, P, C, j)]
  <2>1. Verdict(t, P, C) = IF Ambiguous(t) THEN [exit |-> 2]
                           ELSE IF ~ Licences(t, P, C) THEN [exit |-> 1]
                           ELSE [exit |-> 0, holes |-> holes, status |-> states]
    BY DEF Verdict
  <2> HIDE DEF holes, states
  <2>2. Verdict(t, P, C).status = states
    BY <1>3, <1>4, <2>1
  <2> QED BY <1>3, <1>4, <2>2 DEF states
<1> HIDE DEF t, P, C
<1>7. PICK g, e :
        /\ e \in AllInstances(t)
        /\ LeastComplete(ProgramNodes(t, P, C), ProgramAttacks(t, P, C), g)
        /\ e \in g /\ e \in ProgramNodes(t, P, C)
        /\ t.claims[e[1]].subject = t.claims[k].subject
  BY <1>6, JustifiedRests
<1>8. ~ Counter(t, P, e)
  BY <1>1, <1>5, <1>7, AcceptedIsUncountered DEF P
<1>9. ~ Hole(t, P, C, e)
  <2>1. e \notin Attackers(t, P)
    <3>1. e = <<e[1], e[2]>>
      BY <1>7, AnInstance, InstanceShape
    <3>2. \A x \in Attackers(t, P) : x = <<x[1], x[2], x[3]>>
      BY <1>1, PlacesAreNumbers DEF Attackers
    <3> QED BY <3>1, <3>2
  <2> QED BY <1>7, <2>1 DEF ProgramNodes
<1> QED BY <1>1, <1>2, <1>7, <1>8, <1>9, AcceptedIsAnswered

-----------------------------------------------------------------------------
(* The inductive invariant of the bundle. *)

Names == {"copy", "emitted", "prov", "core", "verdict", "manifest"}

\* The places an elaborator and a freezer can be at.
Elaborating == {"derive", "stage", "put1", "put2", "put3", "leave"}
Cleaning    == {"clean1", "clean2", "clean3"}
Preparing   == {"hash", "copy", "check"}
BackingUp   == {"backup1", "backup2", "backup3"}
Installing  == {"install1", "install2", "install3", "drop"}
RollingBack == {"back1", "back2", "back3", "fail"}

Placed ==
  /\ DOMAIN file = Names
  /\ DOMAIN pc = Runs /\ DOMAIN exit = Runs /\ DOMAIN mem = Runs
  /\ \A r \in Runs : DOMAIN mem[r] = {"t", "p", "old"}
  /\ \A e \in Elabs : pc[e] \in {"idle", "done"} \cup Elaborating \cup Cleaning
  /\ \A f \in Freezes : pc[f] \in {"idle", "done"} \cup Preparing \cup BackingUp \cup Installing \cup RollingBack

\* What is on disk and in hand was derived from traces and policies there were.
FromInputs ==
  /\ source \in Traces \cup Edits /\ canon \in Policies
  /\ file.copy \in Policies \cup {NoFile}
  /\ file.emitted \in (Sources \X Policies) \cup {NoFile}
  /\ \A e \in Elabs :
       /\ pc[e] \in Elaborating => mem[e].t \in Sources
       /\ pc[e] \in Elaborating \ {"derive"} => mem[e].p \in Policies

\* Two runs under way are both marked, and one freeze is under way at a time.
Overlaps ==
  /\ \A r, s \in Runs : r # s /\ Active(r) /\ Active(s) => r \in beside
  /\ \A f, g \in Freezes : Active(f) /\ Active(g) => f = g

\* What an elaborator that no other run overlaps has done to its three files.
ElaboratedOf(e) ==
  /\ pc[e] \in {"put2", "put3", "leave"} => file.copy = mem[e].p
  /\ pc[e] \in {"put3", "leave"} => file.emitted = <<mem[e].t, mem[e].p>>
  /\ pc[e] = "leave" => file.prov = <<mem[e].t, mem[e].p>>
  /\ e \notin stuck =>
       /\ pc[e] \in {"clean2", "clean3"} => file.emitted = NoFile
       /\ pc[e] = "clean3" => file.prov = NoFile
Elaborated == \A e \in Elabs \ beside : ElaboratedOf(e)

\* What a freeze has moved away, installed and put back.
IsOld(f, i) == file[Frozen[i]] = mem[f].old[Frozen[i]]
IsNew(f, i) == file[Frozen[i]] = mem[f].t[Frozen[i]]
IsAway(i)   == file[Frozen[i]] = NoFile

MovedOf(f) ==
  /\ pc[f] \in {"idle"} \cup Preparing => mem[f].old = NoFile
  /\ pc[f] = "backup1" => IsOld(f, 1) /\ IsOld(f, 2) /\ IsOld(f, 3)
  /\ pc[f] = "backup2" => IsAway(1) /\ IsOld(f, 2) /\ IsOld(f, 3)
  /\ pc[f] = "backup3" => IsAway(1) /\ IsAway(2) /\ IsOld(f, 3)
  /\ pc[f] = "install1" => IsAway(1) /\ IsAway(2) /\ IsAway(3)
  /\ pc[f] = "install2" => IsNew(f, 1) /\ IsAway(2) /\ IsAway(3)
  /\ pc[f] = "install3" => IsNew(f, 1) /\ IsNew(f, 2) /\ IsAway(3)
  /\ pc[f] = "drop" => IsNew(f, 1) /\ IsNew(f, 2) /\ IsNew(f, 3)
  /\ f \notin stuck =>
       /\ pc[f] \in {"back2", "back1", "fail"} => IsOld(f, 3)
       /\ pc[f] \in {"back1", "fail"} => IsOld(f, 2)
       /\ pc[f] = "fail" => IsOld(f, 1)
Moved == \A f \in Freezes : MovedOf(f)

\* Three frozen files of one freeze, or with none for their manifest.
Coherent(core, verdict, manifest) ==
  manifest # NoFile =>
    /\ core # NoFile => core.by = manifest.by
    /\ verdict # NoFile => verdict.by = manifest.by

OutputsOf(f) == mem[f].t.core.by = f /\ mem[f].t.verdict.by = f /\ mem[f].t.manifest.by = f
FoundOf(f)   == Coherent(mem[f].old.core, mem[f].old.verdict, mem[f].old.manifest)
Moving       == BackingUp \cup Installing \cup RollingBack

OfOne ==
  /\ \A f \in Freezes : pc[f] \in Moving => OutputsOf(f)
  /\ Freezes \cap stuck = {} =>
       /\ (\A f \in Freezes : pc[f] \notin DOMAIN BackAt) =>
            Coherent(file.core, file.verdict, file.manifest)
       /\ \A f \in Freezes : pc[f] \in Moving => FoundOf(f)

\* What a freeze that no other run overlaps has read is what is there.
Pair == <<file.emitted, file.copy>>
AsReadOf(f) ==
  /\ pc[f] \in Preparing \cup BackingUp \cup Installing =>
       file.copy # NoFile /\ file.emitted # NoFile /\ file.prov # NoFile
  /\ pc[f] \in (Preparing \ {"hash"}) => mem[f].p = file.copy
  /\ pc[f] = "check" => mem[f].t.core = Pair
  /\ pc[f] \in BackingUp \cup Installing =>
       /\ mem[f].t.core = [by |-> f, of |-> Pair]
       /\ mem[f].t.verdict = [by |-> f, of |-> Pair]
       /\ mem[f].t.manifest = [by |-> f, sha |-> file.copy, exit |-> CheckOf(Pair).exit]
AsRead == \A f \in Freezes \ beside : AsReadOf(f)

BundleInv == Placed /\ FromInputs /\ Overlaps /\ Elaborated /\ Moved /\ OfOne /\ AsRead

-----------------------------------------------------------------------------
(* The steps of a run. *)

\* The tables a run steps through.
LEMMA Tables ==
  /\ DOMAIN PutAt = {"put1", "put2", "put3"}
  /\ PutAt["put1"] = 1 /\ PutAt["put2"] = 2 /\ PutAt["put3"] = 3
  /\ DOMAIN CleanAt = {"clean1", "clean2", "clean3"}
  /\ CleanAt["clean1"] = {"emitted"} /\ CleanAt["clean2"] = {"prov"} /\ CleanAt["clean3"] = {"copy"}
  /\ DOMAIN BackupAt = {"backup1", "backup2", "backup3"}
  /\ BackupAt["backup1"] = 1 /\ BackupAt["backup2"] = 2 /\ BackupAt["backup3"] = 3
  /\ DOMAIN InstallAt = {"install1", "install2", "install3"}
  /\ InstallAt["install1"] = 1 /\ InstallAt["install2"] = 2 /\ InstallAt["install3"] = 3
  /\ DOMAIN BackAt = {"back1", "back2", "back3"}
  /\ BackAt["back1"] = 1 /\ BackAt["back2"] = 2 /\ BackAt["back3"] = 3
  /\ AfterPut[1] = "put2" /\ AfterPut[2] = "put3" /\ AfterPut[3] = "leave"
  /\ AfterBackup[1] = "backup2" /\ AfterBackup[2] = "backup3" /\ AfterBackup[3] = "install1"
  /\ AfterInstall[1] = "install2" /\ AfterInstall[2] = "install3" /\ AfterInstall[3] = "drop"
  /\ AfterBack[1] = "fail" /\ AfterBack[2] = "back1" /\ AfterBack[3] = "back2"
  /\ Written[1] = "copy" /\ Written[2] = "emitted" /\ Written[3] = "prov"
  /\ Frozen[1] = "core" /\ Frozen[2] = "verdict" /\ Frozen[3] = "manifest"
BY DEF PutAt, CleanAt, BackupAt, InstallAt, BackAt, AfterPut, AfterBackup, AfterInstall,
       AfterBack, Written, Frozen

\* The step an installation of the three derived files makes.
LEMMA PutStep ==
  ASSUME NEW e, Put(e)
  PROVE  /\ UNCHANGED <<world, stages, mem, exit, faults, beside, stuck, cut>>
         /\ \/ /\ e \notin stages /\ pc[e] \in {"put1", "put2", "put3"}
               /\ pc' = [pc EXCEPT ![e] = "clean1"] /\ UNCHANGED file
            \/ /\ e \in stages /\ pc[e] = "put1" /\ pc' = [pc EXCEPT ![e] = "put2"]
               /\ file' = [file EXCEPT !["copy"] = mem[e].p]
            \/ /\ e \in stages /\ pc[e] = "put2" /\ pc' = [pc EXCEPT ![e] = "put3"]
               /\ file' = [file EXCEPT !["emitted"] = <<mem[e].t, mem[e].p>>]
            \/ /\ e \in stages /\ pc[e] = "put3" /\ pc' = [pc EXCEPT ![e] = "leave"]
               /\ file' = [file EXCEPT !["prov"] = <<mem[e].t, mem[e].p>>]
<1>1. UNCHANGED <<world, stages, mem, exit, faults, beside, stuck, cut>>
  BY DEF Put, Goto
<1>2. pc[e] \in {"put1", "put2", "put3"}
  BY Tables DEF Put
<1>3. CASE e \notin stages
  BY <1>1, <1>2, <1>3 DEF Put, Goto
<1>4. CASE e \in stages
  <2>1. ASSUME NEW i, i = PutAt[pc[e]]
        PROVE  /\ file' = [file EXCEPT ![Written[i]] = Content(e, Written[i])]
               /\ pc' = [pc EXCEPT ![e] = AfterPut[i]]
    BY <1>4, <2>1 DEF Put, Goto
  <2> QED BY <1>1, <1>2, <1>4, <2>1, Tables DEF Content
<1> QED BY <1>3, <1>4

\* A step of a clean-up.
LEMMA CleanUp ==
  ASSUME NEW e, Clean(e) \/ CleanFails(e)
  PROVE  /\ UNCHANGED <<world, mem, beside, cut>>
         /\ \/ pc[e] = "clean1" /\ pc' = [pc EXCEPT ![e] = "clean2"] /\ UNCHANGED exit
            \/ pc[e] = "clean2" /\ pc' = [pc EXCEPT ![e] = "clean3"] /\ UNCHANGED exit
            \/ pc[e] = "clean3" /\ pc' = [pc EXCEPT ![e] = "done"] /\ exit' = [exit EXCEPT ![e] = "2"]
         /\ \/ CleanFails(e) /\ UNCHANGED <<file, stages>> /\ stuck' = stuck \cup {e}
            \/ /\ Clean(e) /\ file' = Removed(CleanAt[pc[e]]) /\ UNCHANGED stuck
               /\ stages' = IF pc[e] = "clean3" THEN stages \ Elabs ELSE stages
<1>1. CleanStep(e) /\ pc[e] \in {"clean1", "clean2", "clean3"}
  BY Tables DEF Clean, CleanFails
<1>2. /\ UNCHANGED <<world, mem, beside, cut>>
      /\ \/ pc[e] = "clean1" /\ pc' = [pc EXCEPT ![e] = "clean2"] /\ UNCHANGED exit
         \/ pc[e] = "clean2" /\ pc' = [pc EXCEPT ![e] = "clean3"] /\ UNCHANGED exit
         \/ pc[e] = "clean3" /\ pc' = [pc EXCEPT ![e] = "done"] /\ exit' = [exit EXCEPT ![e] = "2"]
  BY <1>1 DEF CleanStep, Goto, End
<1>3. \/ CleanFails(e) /\ UNCHANGED <<file, stages>> /\ stuck' = stuck \cup {e}
      \/ /\ Clean(e) /\ file' = Removed(CleanAt[pc[e]]) /\ UNCHANGED stuck
         /\ stages' = IF pc[e] = "clean3" THEN stages \ Elabs ELSE stages
  BY DEF Clean, CleanFails
<1> QED BY <1>2, <1>3

\* A step of an installation of the frozen files.
LEMMA MoveStep ==
  ASSUME NEW f, Backup(f) \/ Install(f)
  PROVE  /\ UNCHANGED <<world, stages, mem, exit, faults, beside, stuck, cut>>
         /\ \/ /\ pc[f] = "backup1" /\ pc' = [pc EXCEPT ![f] = "backup2"]
               /\ file' = [file EXCEPT !["core"] = NoFile]
            \/ /\ pc[f] = "backup2" /\ pc' = [pc EXCEPT ![f] = "backup3"]
               /\ file' = [file EXCEPT !["verdict"] = NoFile]
            \/ /\ pc[f] = "backup3" /\ pc' = [pc EXCEPT ![f] = "install1"]
               /\ file' = [file EXCEPT !["manifest"] = NoFile]
            \/ /\ pc[f] = "install1" /\ pc' = [pc EXCEPT ![f] = "install2"]
               /\ file' = [file EXCEPT !["core"] = mem[f].t.core]
            \/ /\ pc[f] = "install2" /\ pc' = [pc EXCEPT ![f] = "install3"]
               /\ file' = [file EXCEPT !["verdict"] = mem[f].t.verdict]
            \/ /\ pc[f] = "install3" /\ pc' = [pc EXCEPT ![f] = "drop"]
               /\ file' = [file EXCEPT !["manifest"] = mem[f].t.manifest]
<1>1. UNCHANGED <<world, stages, mem, exit, faults, beside, stuck, cut>>
  BY DEF Backup, Install, Goto
<1>2. CASE Backup(f)
  <2>1. pc[f] \in {"backup1", "backup2", "backup3"}
    BY <1>2, Tables DEF Backup
  <2>2. ASSUME NEW i, i = BackupAt[pc[f]]
        PROVE  file' = [file EXCEPT ![Frozen[i]] = NoFile] /\ pc' = [pc EXCEPT ![f] = AfterBackup[i]]
    BY <1>2, <2>2 DEF Backup, Goto
  <2> QED BY <1>1, <2>1, <2>2, Tables
<1>3. CASE Install(f)
  <2>1. pc[f] \in {"install1", "install2", "install3"}
    BY <1>3, Tables DEF Install
  <2>2. ASSUME NEW i, i = InstallAt[pc[f]]
        PROVE  /\ file' = [file EXCEPT ![Frozen[i]] = mem[f].t[Frozen[i]]]
               /\ pc' = [pc EXCEPT ![f] = AfterInstall[i]]
    BY <1>3, <2>2 DEF Install, Goto
  <2> QED BY <1>1, <2>1, <2>2, Tables
<1> QED BY <1>2, <1>3

\* A step of a roll-back.
LEMMA BackStep ==
  ASSUME NEW f, Back(f) \/ BackFails(f)
  PROVE  /\ UNCHANGED <<world, stages, mem, exit, beside, cut>>
         /\ \/ pc[f] = "back3" /\ pc' = [pc EXCEPT ![f] = "back2"]
            \/ pc[f] = "back2" /\ pc' = [pc EXCEPT ![f] = "back1"]
            \/ pc[f] = "back1" /\ pc' = [pc EXCEPT ![f] = "fail"]
         /\ \/ stuck' = stuck \cup {f} /\ UNCHANGED file
            \/ /\ UNCHANGED stuck
               /\ pc[f] = "back3" => file' = [file EXCEPT !["manifest"] = mem[f].old["manifest"]]
               /\ pc[f] = "back2" => file' = [file EXCEPT !["verdict"] = mem[f].old["verdict"]]
               /\ pc[f] = "back1" => file' = [file EXCEPT !["core"] = mem[f].old["core"]]
<1>1. UNCHANGED <<world, stages, mem, exit, beside, cut>>
  BY DEF Back, BackFails, Goto
<1>2. pc[f] \in {"back1", "back2", "back3"}
  BY Tables DEF Back, BackFails
<1>3. ASSUME NEW i, i = BackAt[pc[f]] PROVE pc' = [pc EXCEPT ![f] = AfterBack[i]]
  BY <1>3 DEF Back, BackFails, Goto
<1>4. ASSUME Back(f), NEW i, i = BackAt[pc[f]]
      PROVE  file' = [file EXCEPT ![Frozen[i]] = mem[f].old[Frozen[i]]] /\ UNCHANGED stuck
  BY <1>4 DEF Back, Restored
<1>5. BackFails(f) => stuck' = stuck \cup {f} /\ UNCHANGED file
  BY DEF BackFails
<1>6. CASE pc[f] = "back1"
  <2>1. BackAt[pc[f]] = 1 /\ AfterBack[1] = "fail" /\ Frozen[1] = "core"
    BY <1>6, Tables
  <2>2. pc' = [pc EXCEPT ![f] = "fail"]
    BY <1>3, <2>1
  <2>3. Back(f) => file' = [file EXCEPT !["core"] = mem[f].old["core"]] /\ UNCHANGED stuck
    BY <1>4, <2>1
  <2> QED BY <1>1, <1>5, <1>6, <2>2, <2>3
<1>7. CASE pc[f] = "back2"
  <2>1. BackAt[pc[f]] = 2 /\ AfterBack[2] = "back1" /\ Frozen[2] = "verdict"
    BY <1>7, Tables
  <2>2. pc' = [pc EXCEPT ![f] = "back1"]
    BY <1>3, <2>1
  <2>3. Back(f) => file' = [file EXCEPT !["verdict"] = mem[f].old["verdict"]] /\ UNCHANGED stuck
    BY <1>4, <2>1
  <2> QED BY <1>1, <1>5, <1>7, <2>2, <2>3
<1>8. CASE pc[f] = "back3"
  <2>1. BackAt[pc[f]] = 3 /\ AfterBack[3] = "back2" /\ Frozen[3] = "manifest"
    BY <1>8, Tables
  <2>2. pc' = [pc EXCEPT ![f] = "back2"]
    BY <1>3, <2>1
  <2>3. Back(f) => file' = [file EXCEPT !["manifest"] = mem[f].old["manifest"]] /\ UNCHANGED stuck
    BY <1>4, <2>1
  <2> QED BY <1>1, <1>5, <1>8, <2>2, <2>3
<1> QED BY <1>2, <1>6, <1>7, <1>8

\* The steps of one run.
ElabStep(e) ==
  \/ Load(e) \/ Derive(e) \/ Stage(e) \/ Put(e) \/ Leave(e)
  \/ DiskError(e) \/ Clean(e) \/ CleanFails(e)
FreezeStep(f) ==
  \/ Identify(f) \/ Hash(f) \/ Copy(f) \/ Check(f) \/ ToolFails(f)
  \/ Backup(f) \/ Install(f) \/ InstallFails(f)
  \/ Back(f) \/ BackFails(f) \/ Drop(f) \/ DropFails(f)
RunStep(r) ==
  \/ r \in Elabs /\ ElabStep(r)
  \/ r \in Freezes /\ FreezeStep(r)
  \/ Stop(r)

\* A step is an edit or of one run.
LEMMA StepIsOfOne ==
  ASSUME Next PROVE (EditSource \/ EditPolicy) \/ (\E r \in Runs : RunStep(r))
BY Zenon DEF Next, RunStep, ElabStep, FreezeStep, Runs

\* What a step of the run r leaves alone: the inputs, the other runs, and the
\* files of the other program.
OwnPlaces(r) ==
  /\ DOMAIN pc' = DOMAIN pc /\ DOMAIN mem' = DOMAIN mem /\ DOMAIN exit' = DOMAIN exit
  /\ \A s \in Runs \ {r} : pc'[s] = pc[s] /\ mem'[s] = mem[s] /\ exit'[s] = exit[s]
  /\ pc[r] # "done" /\ (pc[r] = "idle" => Begin(r))
OwnMarks(r) ==
  /\ source' = source /\ canon' = canon
  /\ beside \subseteq beside' /\ stuck \subseteq stuck' /\ stuck' \subseteq stuck \cup {r}
  /\ pc[r] = "idle" \/ beside' = beside
OwnFiles(r) ==
  /\ DOMAIN file' = DOMAIN file
  /\ r \in Elabs => \A n \in {"core", "verdict", "manifest"} : file'[n] = file[n]
  /\ r \in Freezes => \A n \in {"copy", "emitted", "prov"} : file'[n] = file[n]

\* A step of an elaborator is its own.
LEMMA ElabStepIsOwn ==
  ASSUME Placed, FromInputs, NEW e \in Elabs, ElabStep(e)
  PROVE  OwnPlaces(e) /\ OwnMarks(e) /\ OwnFiles(e)
<1> USE DEF world
<1>1. /\ e \in Runs /\ e \notin Freezes /\ DOMAIN file = Names
      /\ DOMAIN pc = Runs /\ DOMAIN mem = Runs /\ DOMAIN exit = Runs
  BY BundleAssumption DEF Placed, Runs
<1>2. CASE Load(e)
  <2>1. pc[e] = "idle" /\ Begin(e) /\ beside \subseteq beside'
    BY <1>2 DEF Load, Begin
  <2>2. \/ pc' = [pc EXCEPT ![e] = "derive"] /\ UNCHANGED exit
        \/ pc' = [pc EXCEPT ![e] = "clean1"] /\ UNCHANGED exit
        \/ pc' = [pc EXCEPT ![e] = "done"] /\ exit' = [exit EXCEPT ![e] = "crash"]
    <3>1. TraceOf[source].form \in Form
      BY BundleAssumption DEF FromInputs
    <3> QED BY <1>2, <3>1 DEF Load, Goto, End, Form
  <2>3. mem' = [mem EXCEPT ![e].t = source] /\ UNCHANGED <<source, canon, file, stuck>>
    BY <1>2 DEF Load
  <2> QED BY <1>1, <2>1, <2>2, <2>3 DEF OwnPlaces, OwnMarks, OwnFiles
<1>3. CASE Derive(e) \/ Stage(e) \/ Leave(e) \/ DiskError(e)
  <2>1. UNCHANGED <<source, canon, file, beside, stuck>> /\ pc[e] \notin {"idle", "done"}
    BY <1>3, Tables DEF Derive, Stage, Leave, DiskError
  <2>2. \E l : pc' = [pc EXCEPT ![e] = l]
    BY <1>3 DEF Derive, Stage, Leave, DiskError, Goto, End
  <2>3. mem' = mem \/ mem' = [mem EXCEPT ![e].p = canon]
    BY <1>3 DEF Derive, Stage, Leave, DiskError
  <2>4. exit' = exit \/ exit' = [exit EXCEPT ![e] = "0"]
    BY <1>3 DEF Derive, Stage, Leave, DiskError, Goto, End
  <2> QED BY <1>1, <2>1, <2>2, <2>3, <2>4 DEF OwnPlaces, OwnMarks, OwnFiles
<1>4. CASE Put(e)
  <2>1. UNCHANGED <<source, canon, mem, exit, beside, stuck>>
    BY <1>4, PutStep
  <2>2. pc[e] \notin {"idle", "done"} /\ \E l : pc' = [pc EXCEPT ![e] = l]
    BY <1>4, PutStep
  <2>3. DOMAIN file' = Names /\ \A n \in {"core", "verdict", "manifest"} : file'[n] = file[n]
    <3>1. file' = file \/ \E n \in {"copy", "emitted", "prov"} : \E v : file' = [file EXCEPT ![n] = v]
      BY <1>4, PutStep
    <3> QED BY <1>1, <3>1 DEF Names
  <2> QED BY <1>1, <2>1, <2>2, <2>3 DEF OwnPlaces, OwnMarks, OwnFiles
<1>5. CASE Clean(e) \/ CleanFails(e)
  <2>1. UNCHANGED <<source, canon, mem, beside>> /\ pc[e] \notin {"idle", "done"}
    BY <1>5, CleanUp
  <2>2. \E l : pc' = [pc EXCEPT ![e] = l]
    BY <1>5, CleanUp
  <2>3. exit' = exit \/ exit' = [exit EXCEPT ![e] = "2"]
    BY <1>5, CleanUp
  <2>4. stuck \subseteq stuck' /\ stuck' \subseteq stuck \cup {e}
    BY <1>5, CleanUp
  <2>5. DOMAIN file' = Names /\ \A n \in {"core", "verdict", "manifest"} : file'[n] = file[n]
    <3>1. pc[e] \in {"clean1", "clean2", "clean3"}
      BY <1>5, CleanUp
    <3>2. CleanAt[pc[e]] \subseteq {"emitted", "prov", "copy"}
      BY <3>1, Tables
    <3>3. file' = file \/ file' = Removed(CleanAt[pc[e]])
      BY <1>5, CleanUp
    <3>4. file' = Removed(CleanAt[pc[e]]) =>
            DOMAIN file' = Names /\ \A n \in {"core", "verdict", "manifest"} : file'[n] = file[n]
      BY <1>1, <3>2 DEF Removed, Names
    <3> QED BY <1>1, <3>3, <3>4
  <2> QED BY <1>1, <2>1, <2>2, <2>3, <2>4, <2>5 DEF OwnPlaces, OwnMarks, OwnFiles
<1> QED BY <1>2, <1>3, <1>4, <1>5 DEF ElabStep

\* A step of a freezer is its own.
LEMMA FreezeStepIsOwn ==
  ASSUME Placed, NEW f \in Freezes, FreezeStep(f)
  PROVE  OwnPlaces(f) /\ OwnMarks(f) /\ OwnFiles(f)
<1> USE DEF world
<1>1. /\ f \in Runs /\ f \notin Elabs /\ DOMAIN file = Names
      /\ DOMAIN pc = Runs /\ DOMAIN mem = Runs /\ DOMAIN exit = Runs
  BY BundleAssumption DEF Placed, Runs
<1>2. CASE Identify(f)
  <2>1. pc[f] = "idle" /\ Begin(f) /\ beside \subseteq beside'
    BY <1>2 DEF Identify, Begin
  <2>2. \/ pc' = [pc EXCEPT ![f] = "hash"] /\ UNCHANGED exit
        \/ pc' = [pc EXCEPT ![f] = "done"] /\ exit' = [exit EXCEPT ![f] = "2"]
    BY <1>2 DEF Identify, Goto, End
  <2>3. UNCHANGED <<source, canon, file, mem, stuck>>
    BY <1>2 DEF Identify
  <2> QED BY <1>1, <2>1, <2>2, <2>3 DEF OwnPlaces, OwnMarks, OwnFiles
<1>3. CASE Hash(f) \/ Copy(f) \/ Check(f) \/ ToolFails(f) \/ InstallFails(f) \/ Drop(f) \/ DropFails(f)
  <2>1. UNCHANGED <<source, canon, file, beside, stuck>> /\ pc[f] \notin {"idle", "done"}
    BY <1>3, Tables DEF Hash, Copy, Check, ToolFails, InstallFails, Drop, DropFails
  <2>2. \E l : pc' = [pc EXCEPT ![f] = l]
    BY <1>3 DEF Hash, Copy, Check, ToolFails, InstallFails, Drop, DropFails, Goto, End
  <2>3. mem' = mem \/ \E m : mem' = [mem EXCEPT ![f] = m]
    BY <1>3 DEF Hash, Copy, Check, ToolFails, InstallFails, Drop, DropFails
  <2>4. exit' = exit \/ \E x : exit' = [exit EXCEPT ![f] = x]
    BY <1>3 DEF Hash, Copy, Check, ToolFails, InstallFails, Drop, DropFails, Goto, End
  <2> QED BY <1>1, <2>1, <2>2, <2>3, <2>4 DEF OwnPlaces, OwnMarks, OwnFiles
<1>4. CASE Backup(f) \/ Install(f)
  <2>1. UNCHANGED <<source, canon, mem, exit, beside, stuck>>
    BY <1>4, MoveStep
  <2>2. pc[f] \notin {"idle", "done"} /\ \E l : pc' = [pc EXCEPT ![f] = l]
    BY <1>4, MoveStep
  <2>3. DOMAIN file' = Names /\ \A n \in {"copy", "emitted", "prov"} : file'[n] = file[n]
    <3>1. \E n \in {"core", "verdict", "manifest"} : \E v : file' = [file EXCEPT ![n] = v]
      BY <1>4, MoveStep
    <3> QED BY <1>1, <3>1 DEF Names
  <2> QED BY <1>1, <2>1, <2>2, <2>3 DEF OwnPlaces, OwnMarks, OwnFiles
<1>5. CASE Back(f) \/ BackFails(f)
  <2>1. UNCHANGED <<source, canon, mem, exit, beside>>
    BY <1>5, BackStep
  <2>2. pc[f] \notin {"idle", "done"} /\ \E l : pc' = [pc EXCEPT ![f] = l]
    BY <1>5, BackStep
  <2>3. stuck \subseteq stuck' /\ stuck' \subseteq stuck \cup {f}
    BY <1>5, BackStep
  <2>4. DOMAIN file' = Names /\ \A n \in {"copy", "emitted", "prov"} : file'[n] = file[n]
    <3>1. file' = file \/ \E n \in {"core", "verdict", "manifest"} : \E v : file' = [file EXCEPT ![n] = v]
      BY <1>5, BackStep
    <3> QED BY <1>1, <3>1 DEF Names
  <2> QED BY <1>1, <2>1, <2>2, <2>3, <2>4 DEF OwnPlaces, OwnMarks, OwnFiles
<1> QED BY <1>2, <1>3, <1>4, <1>5 DEF FreezeStep

\* An interrupt is of one run.
LEMMA StopIsOwn ==
  ASSUME Placed, NEW r \in Runs, Stop(r)
  PROVE  OwnPlaces(r) /\ OwnMarks(r) /\ OwnFiles(r)
<1> USE DEF world
<1>1. DOMAIN pc = Runs /\ DOMAIN mem = Runs /\ DOMAIN exit = Runs
  BY DEF Placed
<1>2. /\ UNCHANGED <<source, canon, mem, file, beside>> /\ pc[r] \notin {"idle", "done"}
      /\ pc' = [pc EXCEPT ![r] = "done"] /\ exit' = [exit EXCEPT ![r] = "stopped"]
      /\ stuck' = stuck \/ stuck' = stuck \cup {r}
  BY DEF Stop, Active, End
<1> QED BY <1>1, <1>2 DEF OwnPlaces, OwnMarks, OwnFiles

\* Every step of a run is its own.
LEMMA StepIsOwn ==
  ASSUME Placed, FromInputs, NEW r \in Runs, RunStep(r)
  PROVE  OwnPlaces(r) /\ OwnMarks(r) /\ OwnFiles(r)
BY ElabStepIsOwn, FreezeStepIsOwn, StopIsOwn DEF RunStep

\* What nobody runs beside changes only by its own steps.
LEMMA Alone ==
  ASSUME Placed, FromInputs, Overlaps, NEW r \in Runs, RunStep(r),
         NEW s \in Runs, Active(s), s \notin beside'
  PROVE  s = r
<1>1. OwnPlaces(r) /\ OwnMarks(r)
  BY StepIsOwn
<1>2. CASE pc[r] = "idle"
  <2>1. Begin(r)
    BY <1>1, <1>2 DEF OwnPlaces
  <2> QED BY <2>1 DEF Begin
<1>3. CASE pc[r] # "idle"
  <2>1. Active(r) /\ s \notin beside
    BY <1>1, <1>3 DEF OwnPlaces, OwnMarks, Active
  <2> QED BY <2>1 DEF Overlaps
<1> QED BY <1>2, <1>3

\* The moves of an elaborator, seen from its own place.
Ended(r, code) == pc'[r] = "done" /\ exit'[r] = code
Stays(r)       == mem'[r] = mem[r] /\ file' = file
Loaded(e) ==
  /\ pc[e] = "idle" /\ file' = file
  /\ \/ pc'[e] = "derive" /\ mem'[e].t = source /\ TraceOf[source].form = "good"
     \/ pc'[e] = "clean1"
     \/ Ended(e, "crash")
Derived(e) ==
  /\ pc[e] = "derive" /\ pc'[e] \in {"stage", "clean1"} /\ file' = file
  /\ mem'[e].t = mem[e].t /\ mem'[e].p = canon
Wrote(e) ==
  /\ mem'[e] = mem[e]
  /\ \/ /\ pc[e] = "put1" /\ pc'[e] = "put2"
        /\ file' = [file EXCEPT !["copy"] = mem[e].p]
     \/ /\ pc[e] = "put2" /\ pc'[e] = "put3"
        /\ file' = [file EXCEPT !["emitted"] = <<mem[e].t, mem[e].p>>]
     \/ /\ pc[e] = "put3" /\ pc'[e] = "leave"
        /\ file' = [file EXCEPT !["prov"] = <<mem[e].t, mem[e].p>>]
Cleaned(e) ==
  /\ mem'[e] = mem[e]
  /\ \/ pc[e] = "clean1" /\ pc'[e] = "clean2" /\ (e \notin stuck' => file' = Removed({"emitted"}))
     \/ pc[e] = "clean2" /\ pc'[e] = "clean3" /\ (e \notin stuck' => file' = Removed({"prov"}))
     \/ /\ pc[e] = "clean3" /\ Ended(e, "2")
        /\ e \notin stuck' => file' = Removed({"copy"}) /\ stages' = stages \ Elabs
  /\ file' = file \/ \E N \in SUBSET Names : file' = Removed(N)
Stopped(r) ==
  /\ Active(r) /\ Ended(r, "stopped") /\ Stays(r)
  /\ pc[r] \in DOMAIN CleanAt \cup DOMAIN BackAt => r \in stuck'

ElabMove(e) ==
  \/ Loaded(e) \/ Derived(e) \/ Wrote(e) \/ Cleaned(e)
  \/ pc[e] = "stage" /\ pc'[e] = "put1" /\ Stays(e)
  \/ pc[e] = "leave" /\ Ended(e, "0") /\ Stays(e) /\ e \notin stages'
  \/ pc[e] \in {"stage", "put1", "put2", "put3"} /\ pc'[e] = "clean1" /\ Stays(e)
  \/ Stopped(e)

\* Every step of an elaborator is one of them.
LEMMA ElabMoves ==
  ASSUME Placed, FromInputs, NEW e \in Elabs, ElabStep(e) \/ Stop(e)
  PROVE  ElabMove(e) /\ DOMAIN mem'[e] = {"t", "p", "old"}
<1>1. /\ e \in Runs /\ DOMAIN mem[e] = {"t", "p", "old"}
      /\ DOMAIN pc = Runs /\ DOMAIN mem = Runs /\ DOMAIN exit = Runs
  BY DEF Placed, Runs
<1>2. CASE Load(e)
  <2>1. TraceOf[source].form \in Form
    BY BundleAssumption DEF FromInputs
  <2>2. \/ pc' = [pc EXCEPT ![e] = "derive"] /\ TraceOf[source].form = "good"
        \/ pc' = [pc EXCEPT ![e] = "clean1"]
        \/ pc' = [pc EXCEPT ![e] = "done"] /\ exit' = [exit EXCEPT ![e] = "crash"]
    BY <1>2, <2>1 DEF Load, Goto, End, Form
  <2>3. mem' = [mem EXCEPT ![e].t = source] /\ file' = file /\ pc[e] = "idle"
    BY <1>2 DEF Load
  <2>4. mem'[e].t = source /\ DOMAIN mem'[e] = {"t", "p", "old"}
    BY <1>1, <2>3
  <2> QED BY <1>1, <2>2, <2>3, <2>4 DEF ElabMove, Loaded, Ended
<1>3. CASE Derive(e)
  <2>1. \/ pc' = [pc EXCEPT ![e] = "stage"]
        \/ pc' = [pc EXCEPT ![e] = "clean1"]
    BY <1>3 DEF Derive, Goto
  <2>2. mem' = [mem EXCEPT ![e].p = canon] /\ file' = file /\ pc[e] = "derive"
    BY <1>3 DEF Derive
  <2>3. mem'[e].t = mem[e].t /\ mem'[e].p = canon /\ DOMAIN mem'[e] = {"t", "p", "old"}
    BY <1>1, <2>2
  <2> QED BY <1>1, <2>1, <2>2, <2>3 DEF ElabMove, Derived
<1>4. CASE Stage(e) \/ Leave(e)
  <2>1. mem' = mem /\ file' = file
    BY <1>4 DEF Stage, Leave
  <2>2. \/ pc[e] = "stage" /\ pc' = [pc EXCEPT ![e] = "put1"]
        \/ /\ pc[e] = "leave" /\ pc' = [pc EXCEPT ![e] = "done"] /\ exit' = [exit EXCEPT ![e] = "0"]
           /\ e \notin stages'
    BY <1>4 DEF Stage, Leave, Goto, End
  <2> QED BY <1>1, <2>1, <2>2 DEF ElabMove, Ended, Stays
<1>5. CASE DiskError(e)
  <2>1. mem' = mem /\ file' = file
    BY <1>5 DEF DiskError
  <2>2. pc[e] \in {"stage", "put1", "put2", "put3"} /\ pc' = [pc EXCEPT ![e] = "clean1"]
    BY <1>5, Tables DEF DiskError, Goto
  <2> QED BY <1>1, <2>1, <2>2 DEF ElabMove, Stays
<1>6. CASE Put(e)
  <2>1. mem' = mem
    BY <1>6, PutStep
  <2>2. \/ /\ pc[e] \in {"put1", "put2", "put3"}
           /\ pc' = [pc EXCEPT ![e] = "clean1"] /\ file' = file
        \/ /\ pc[e] = "put1" /\ pc' = [pc EXCEPT ![e] = "put2"]
           /\ file' = [file EXCEPT !["copy"] = mem[e].p]
        \/ /\ pc[e] = "put2" /\ pc' = [pc EXCEPT ![e] = "put3"]
           /\ file' = [file EXCEPT !["emitted"] = <<mem[e].t, mem[e].p>>]
        \/ /\ pc[e] = "put3" /\ pc' = [pc EXCEPT ![e] = "leave"]
           /\ file' = [file EXCEPT !["prov"] = <<mem[e].t, mem[e].p>>]
    BY <1>6, PutStep
  <2> QED BY <1>1, <2>1, <2>2 DEF ElabMove, Wrote, Stays
<1>7. CASE Clean(e) \/ CleanFails(e)
  <2>1. mem' = mem
    BY <1>7, CleanUp
  <2>2. \/ pc[e] = "clean1" /\ pc' = [pc EXCEPT ![e] = "clean2"]
        \/ pc[e] = "clean2" /\ pc' = [pc EXCEPT ![e] = "clean3"]
        \/ pc[e] = "clean3" /\ pc' = [pc EXCEPT ![e] = "done"] /\ exit' = [exit EXCEPT ![e] = "2"]
    BY <1>7, CleanUp
  <2>3. \/ e \in stuck' /\ file' = file
        \/ /\ file' = Removed(CleanAt[pc[e]])
           /\ stages' = IF pc[e] = "clean3" THEN stages \ Elabs ELSE stages
    BY <1>7, CleanUp
  <2>4. /\ CleanAt["clean1"] = {"emitted"} /\ CleanAt["clean2"] = {"prov"}
        /\ CleanAt["clean3"] = {"copy"} /\ {"emitted", "prov", "copy"} \subseteq Names
    BY Tables DEF Names
  <2>5. file' = file \/ \E N \in SUBSET Names : file' = Removed(N)
    <3> HIDE DEF CleanAt, Removed, Names
    <3>1. CleanAt[pc[e]] \in SUBSET Names
      BY <2>2, <2>4
    <3> QED BY <2>3, <3>1
  <2>6. Cleaned(e)
    <3> HIDE DEF Removed
    <3> QED BY <1>1, <2>1, <2>2, <2>3, <2>4, <2>5 DEF Cleaned, Ended
  <2> QED BY <1>1, <2>1, <2>6 DEF ElabMove
<1>8. CASE Stop(e)
  <2>1. mem' = mem /\ file' = file /\ Active(e)
    BY <1>8 DEF Stop
  <2>2. pc' = [pc EXCEPT ![e] = "done"] /\ exit' = [exit EXCEPT ![e] = "stopped"]
    BY <1>8 DEF Stop, End
  <2>3. pc[e] \in DOMAIN CleanAt \cup DOMAIN BackAt => e \in stuck'
    BY <1>8 DEF Stop
  <2>4. Stopped(e)
    BY <1>1, <2>1, <2>2, <2>3 DEF Stopped, Ended, Stays
  <2> QED BY <1>1, <2>1, <2>4 DEF ElabMove
<1> QED BY <1>2, <1>3, <1>4, <1>5, <1>6, <1>7, <1>8 DEF ElabStep

\* The moves of a freezer.
Prepared(f) ==
  \/ /\ pc[f] = "idle" /\ Stays(f)
     /\ \A g \in Freezes : ~ Active(g)
     /\ \/ pc'[f] = "hash" /\ NoFile \notin {file.copy, file.emitted, file.prov}
        \/ Ended(f, "2")
  \/ /\ pc[f] = "hash" /\ file' = file /\ mem'[f].t = mem[f].t /\ mem'[f].old = mem[f].old
     /\ (pc'[f] = "copy" /\ mem'[f].p = file.copy) \/ Ended(f, "2")
  \/ /\ pc[f] = "copy" /\ file' = file /\ mem'[f].p = mem[f].p /\ mem'[f].old = mem[f].old
     /\ \/ pc'[f] = "check" /\ mem'[f].t.core = <<file.emitted, file.copy>>
        \/ Ended(f, "2")
  \/ pc[f] \in Preparing /\ Ended(f, "2") /\ Stays(f)
Checked(f) ==
  /\ pc[f] = "check" /\ pc'[f] = "backup1" /\ file' = file
  /\ mem'[f].t = Outputs(f, CheckNow)
  /\ mem'[f].old = [n \in {Frozen[i] : i \in 1..3} |-> file[n]]
Replaced(f) ==
  /\ mem'[f] = mem[f]
  /\ \/ pc[f] = "backup1" /\ pc'[f] = "backup2" /\ file' = [file EXCEPT !["core"] = NoFile]
     \/ pc[f] = "backup2" /\ pc'[f] = "backup3" /\ file' = [file EXCEPT !["verdict"] = NoFile]
     \/ pc[f] = "backup3" /\ pc'[f] = "install1" /\ file' = [file EXCEPT !["manifest"] = NoFile]
     \/ pc[f] = "install1" /\ pc'[f] = "install2" /\ file' = [file EXCEPT !["core"] = mem[f].t.core]
     \/ pc[f] = "install2" /\ pc'[f] = "install3" /\ file' = [file EXCEPT !["verdict"] = mem[f].t.verdict]
     \/ pc[f] = "install3" /\ pc'[f] = "drop" /\ file' = [file EXCEPT !["manifest"] = mem[f].t.manifest]
RolledBack(f) ==
  /\ mem'[f] = mem[f]
  /\ \/ /\ pc[f] = "back3" /\ pc'[f] = "back2"
        /\ f \notin stuck' => file' = [file EXCEPT !["manifest"] = mem[f].old["manifest"]]
     \/ /\ pc[f] = "back2" /\ pc'[f] = "back1"
        /\ f \notin stuck' => file' = [file EXCEPT !["verdict"] = mem[f].old["verdict"]]
     \/ /\ pc[f] = "back1" /\ pc'[f] = "fail"
        /\ f \notin stuck' => file' = [file EXCEPT !["core"] = mem[f].old["core"]]
GaveUp(f) ==
  /\ pc[f] \in {"backup1", "backup2", "backup3", "install1", "install2", "install3"}
  /\ pc'[f] = "back3" /\ Stays(f)
Left(f) ==
  /\ pc[f] \in {"drop", "fail"} /\ Stays(f) /\ pc'[f] = "done"
  /\ \/ exit'[f] = IF pc[f] = "drop" THEN "0" ELSE "2"
     \/ exit'[f] = "2" /\ f \in cut'

FreezeMove(f) ==
  \/ Prepared(f) \/ Checked(f) \/ Replaced(f) \/ RolledBack(f) \/ GaveUp(f) \/ Left(f)
  \/ Stopped(f)

\* Every step of a freezer is one of them.
LEMMA FreezeMoves ==
  ASSUME Placed, NEW f \in Freezes, FreezeStep(f) \/ Stop(f)
  PROVE  FreezeMove(f) /\ DOMAIN mem'[f] = {"t", "p", "old"}
<1>1. /\ f \in Runs /\ DOMAIN mem[f] = {"t", "p", "old"}
      /\ DOMAIN pc = Runs /\ DOMAIN mem = Runs /\ DOMAIN exit = Runs
  BY DEF Placed, Runs
<1>2. CASE Identify(f)
  <2>1. {file[Written[i]] : i \in 1..3} = {file.copy, file.emitted, file.prov}
    <3>1. \A x : x \in {file[Written[i]] : i \in 1..3} <=> x \in {file.copy, file.emitted, file.prov}
      <4>1. 1..3 = {1, 2, 3}
        OBVIOUS
      <4>2. Written[1] = "copy" /\ Written[2] = "emitted" /\ Written[3] = "prov"
        BY Tables
      <4> HIDE DEF Written
      <4> QED BY <4>1, <4>2
    <3> QED BY <3>1
  <2>2. /\ pc[f] = "idle" /\ mem' = mem /\ file' = file
        /\ \A g \in Freezes : ~ Active(g)
    BY <1>2 DEF Identify
  <2>3. \/ /\ pc' = [pc EXCEPT ![f] = "hash"]
           /\ NoFile \notin {file.copy, file.emitted, file.prov}
        \/ pc' = [pc EXCEPT ![f] = "done"] /\ exit' = [exit EXCEPT ![f] = "2"]
    BY <1>2, <2>1 DEF Identify, Goto, End
  <2> QED BY <1>1, <2>2, <2>3 DEF FreezeMove, Prepared, Ended, Stays
<1>3. CASE Hash(f)
  <2>1. pc[f] = "hash" /\ mem' = [mem EXCEPT ![f].p = file.copy] /\ file' = file
    BY <1>3 DEF Hash
  <2>2. \/ pc' = [pc EXCEPT ![f] = "copy"]
        \/ pc' = [pc EXCEPT ![f] = "done"] /\ exit' = [exit EXCEPT ![f] = "2"]
    BY <1>3 DEF Hash, Goto, End
  <2>3. /\ mem'[f].p = file.copy /\ mem'[f].t = mem[f].t /\ mem'[f].old = mem[f].old
        /\ DOMAIN mem'[f] = {"t", "p", "old"}
    BY <1>1, <2>1
  <2> QED BY <1>1, <2>1, <2>2, <2>3 DEF FreezeMove, Prepared, Ended
<1>4. CASE Copy(f)
  <2>1. pc[f] = "copy" /\ file' = file
    BY <1>4 DEF Copy
  <2>2. \/ /\ mem' = [mem EXCEPT ![f].t = [core |-> <<file.emitted, file.copy>>]]
           /\ pc' = [pc EXCEPT ![f] = "check"]
        \/ mem' = mem /\ pc' = [pc EXCEPT ![f] = "done"] /\ exit' = [exit EXCEPT ![f] = "2"]
    BY <1>4 DEF Copy, Goto, End
  <2>3. CASE /\ mem' = [mem EXCEPT ![f].t = [core |-> <<file.emitted, file.copy>>]]
             /\ pc' = [pc EXCEPT ![f] = "check"]
    <3>1. /\ mem'[f].t.core = <<file.emitted, file.copy>> /\ mem'[f].p = mem[f].p
          /\ mem'[f].old = mem[f].old /\ DOMAIN mem'[f] = {"t", "p", "old"}
      BY <1>1, <2>3
    <3> QED BY <1>1, <2>1, <2>3, <3>1 DEF FreezeMove, Prepared
  <2>4. CASE mem' = mem /\ pc' = [pc EXCEPT ![f] = "done"] /\ exit' = [exit EXCEPT ![f] = "2"]
    BY <1>1, <2>1, <2>4 DEF FreezeMove, Prepared, Ended
  <2> QED BY <2>2, <2>3, <2>4
<1>5. CASE Check(f)
  <2>1. pc[f] = "check" /\ file' = file /\ pc' = [pc EXCEPT ![f] = "backup1"]
    BY <1>5 DEF Check, Goto
  <2>2. mem'[f] = [t |-> Outputs(f, CheckNow), p |-> mem[f].p,
                   old |-> [n \in {Frozen[i] : i \in 1..3} |-> file[n]]]
    <3> HIDE DEF Outputs, CheckNow, Frozen
    <3> QED BY <1>1, <1>5 DEF Check
  <2>3. /\ mem'[f].t = Outputs(f, CheckNow)
        /\ mem'[f].old = [n \in {Frozen[i] : i \in 1..3} |-> file[n]]
        /\ DOMAIN mem'[f] = {"t", "p", "old"}
    <3> HIDE DEF Outputs, CheckNow, Frozen
    <3> QED BY <2>2
  <2> QED BY <1>1, <2>1, <2>3 DEF FreezeMove, Checked
<1>6. CASE ToolFails(f)
  <2>1. /\ pc[f] \in Preparing /\ file' = file /\ mem' = mem
        /\ pc' = [pc EXCEPT ![f] = "done"] /\ exit' = [exit EXCEPT ![f] = "2"]
    BY <1>6 DEF ToolFails, End, Preparing
  <2> QED BY <1>1, <2>1 DEF FreezeMove, Prepared, Ended, Stays
<1>7. CASE Backup(f) \/ Install(f)
  <2>1. mem' = mem
    BY <1>7, MoveStep
  <2>2. Replaced(f)
    BY <1>1, <1>7, <2>1, MoveStep DEF Replaced
  <2> QED BY <1>1, <2>1, <2>2 DEF FreezeMove
<1>8. CASE InstallFails(f)
  <2>1. /\ pc[f] \in {"backup1", "backup2", "backup3", "install1", "install2", "install3"}
        /\ file' = file /\ mem' = mem /\ pc' = [pc EXCEPT ![f] = "back3"]
    BY <1>8, Tables DEF InstallFails, Goto
  <2> QED BY <1>1, <2>1 DEF FreezeMove, GaveUp, Stays
<1>9. CASE Back(f) \/ BackFails(f)
  <2>1. mem' = mem
    BY <1>9, BackStep
  <2>2. RolledBack(f)
    <3>1. \/ pc[f] = "back3" /\ pc'[f] = "back2"
          \/ pc[f] = "back2" /\ pc'[f] = "back1"
          \/ pc[f] = "back1" /\ pc'[f] = "fail"
      BY <1>1, <1>9, BackStep
    <3>2. f \in stuck' \/
          (/\ pc[f] = "back3" => file' = [file EXCEPT !["manifest"] = mem[f].old["manifest"]]
           /\ pc[f] = "back2" => file' = [file EXCEPT !["verdict"] = mem[f].old["verdict"]]
           /\ pc[f] = "back1" => file' = [file EXCEPT !["core"] = mem[f].old["core"]])
      BY <1>9, BackStep
    <3> QED BY <2>1, <3>1, <3>2 DEF RolledBack
  <2> QED BY <1>1, <2>1, <2>2 DEF FreezeMove
<1>10. CASE Drop(f) \/ DropFails(f)
  <2>1. /\ pc[f] \in {"drop", "fail"} /\ file' = file /\ mem' = mem
        /\ pc' = [pc EXCEPT ![f] = "done"]
        /\ \/ exit' = [exit EXCEPT ![f] = IF pc[f] = "drop" THEN "0" ELSE "2"]
           \/ exit' = [exit EXCEPT ![f] = "2"] /\ f \in cut'
    BY <1>10 DEF Drop, DropFails, End
  <2> QED BY <1>1, <2>1 DEF FreezeMove, Left, Stays
<1>11. CASE Stop(f)
  <2>1. mem' = mem /\ file' = file /\ Active(f)
    BY <1>11 DEF Stop
  <2>2. pc' = [pc EXCEPT ![f] = "done"] /\ exit' = [exit EXCEPT ![f] = "stopped"]
    BY <1>11 DEF Stop, End
  <2>3. pc[f] \in DOMAIN CleanAt \cup DOMAIN BackAt => f \in stuck'
    BY <1>11 DEF Stop
  <2>4. Stopped(f)
    BY <1>1, <2>1, <2>2, <2>3 DEF Stopped, Ended, Stays
  <2> QED BY <1>1, <2>1, <2>4 DEF FreezeMove
<1> QED BY <1>2, <1>3, <1>4, <1>5, <1>6, <1>7, <1>8, <1>9, <1>10, <1>11 DEF FreezeStep

-----------------------------------------------------------------------------
(* Every step of a run keeps every part of the invariant. *)

\* Whose moves they are.
LEMMA MovesOf ==
  ASSUME Placed, FromInputs, NEW r \in Runs, RunStep(r)
  PROVE  /\ DOMAIN mem'[r] = {"t", "p", "old"}
         /\ r \in Elabs => r \notin Freezes /\ ElabMove(r)
         /\ r \in Freezes => r \notin Elabs /\ FreezeMove(r)
<1>1. Elabs \cap Freezes = {}
  BY BundleAssumption
<1>2. r \in Elabs => ElabStep(r) \/ Stop(r)
  BY <1>1 DEF RunStep
<1>3. r \in Freezes => FreezeStep(r) \/ Stop(r)
  BY <1>1 DEF RunStep
<1>4. r \in Elabs \/ r \in Freezes
  BY DEF Runs
<1> QED BY <1>1, <1>2, <1>3, <1>4, ElabMoves, FreezeMoves

\* No run leaves its program, and the bundle keeps its six files.
LEMMA PlacedKept ==
  ASSUME Placed, FromInputs, NEW r \in Runs, RunStep(r)
  PROVE  Placed'
<1>1. OwnPlaces(r) /\ OwnFiles(r)
  BY StepIsOwn
<1>2. /\ DOMAIN file' = Names /\ DOMAIN pc' = Runs /\ DOMAIN exit' = Runs /\ DOMAIN mem' = Runs
      /\ \A s \in Runs : DOMAIN mem'[s] = {"t", "p", "old"}
  BY <1>1, MovesOf DEF Placed, OwnPlaces, OwnFiles
<1>3. ASSUME NEW e \in Elabs PROVE pc'[e] \in {"idle", "done"} \cup Elaborating \cup Cleaning
  <2>1. e \in Runs /\ pc[e] \in {"idle", "done"} \cup Elaborating \cup Cleaning
    BY DEF Placed, Runs
  <2>2. CASE e # r
    BY <1>1, <2>1, <2>2 DEF OwnPlaces
  <2>3. CASE e = r
    <3>1. ElabMove(e)
      BY <2>3, MovesOf
    <3> QED BY <3>1 DEF ElabMove, Loaded, Derived, Wrote, Cleaned, Stopped, Ended,
                        Elaborating, Cleaning
  <2> QED BY <2>2, <2>3
<1>4. ASSUME NEW f \in Freezes
      PROVE  pc'[f] \in {"idle", "done"} \cup Preparing \cup BackingUp \cup Installing \cup RollingBack
  <2>1. f \in Runs /\ pc[f] \in {"idle", "done"} \cup Preparing \cup BackingUp \cup Installing \cup RollingBack
    BY DEF Placed, Runs
  <2>2. CASE f # r
    BY <1>1, <2>1, <2>2 DEF OwnPlaces
  <2>3. CASE f = r
    <3>1. FreezeMove(f)
      BY <2>3, MovesOf
    <3> QED BY <3>1 DEF FreezeMove, Prepared, Checked, Replaced, RolledBack, GaveUp, Left, Stopped,
                        Ended, Preparing, BackingUp, Installing, RollingBack
  <2> QED BY <2>2, <2>3
<1> QED BY <1>2, <1>3, <1>4 DEF Placed

\* What is written was read.
LEMMA FromInputsKept ==
  ASSUME Placed, FromInputs, NEW r \in Runs, RunStep(r)
  PROVE  FromInputs'
<1>1. OwnPlaces(r) /\ OwnMarks(r) /\ OwnFiles(r)
  BY StepIsOwn
<1>2. source' = source /\ canon' = canon
  BY <1>1 DEF OwnMarks
<1>3. /\ file'.copy \in Policies \cup {NoFile}
      /\ file'.emitted \in (Sources \X Policies) \cup {NoFile}
  <2>1. CASE r \in Freezes
    BY <1>1, <2>1 DEF OwnFiles, FromInputs
  <2>2. CASE r \in Elabs
    <3>1. ElabMove(r) /\ DOMAIN file = Names
      BY <2>2, MovesOf DEF Placed
    <3>2. CASE Wrote(r)
      <4>1. mem[r].t \in Sources /\ mem[r].p \in Policies
        BY <2>2, <3>2 DEF Wrote, FromInputs, Elaborating
      <4> QED BY <3>1, <3>2, <4>1 DEF Wrote, FromInputs, Names
    <3>3. CASE Cleaned(r)
      <4>1. file' = file \/ \E N \in SUBSET Names : file' = Removed(N)
        BY <3>3 DEF Cleaned
      <4>2. /\ file'.copy = file.copy \/ file'.copy = NoFile
            /\ file'.emitted = file.emitted \/ file'.emitted = NoFile
        BY <3>1, <4>1 DEF Removed, Names
      <4> QED BY <4>2 DEF FromInputs
    <3>4. CASE ~ Wrote(r) /\ ~ Cleaned(r)
      <4>1. file' = file
        BY <3>1, <3>4 DEF ElabMove, Loaded, Derived, Stopped, Stays
      <4> QED BY <4>1 DEF FromInputs
    <3> QED BY <3>2, <3>3, <3>4
  <2> QED BY <2>1, <2>2 DEF Runs
<1>4. ASSUME NEW e \in Elabs
      PROVE  /\ pc'[e] \in Elaborating => mem'[e].t \in Sources
             /\ pc'[e] \in Elaborating \ {"derive"} => mem'[e].p \in Policies
  <2>1. e \in Runs
    BY DEF Runs
  <2>2. CASE e # r
    BY <1>1, <2>1, <2>2 DEF OwnPlaces, FromInputs
  <2>3. CASE e = r
    <3>1. ElabMove(e)
      BY <2>3, MovesOf
    <3>2. source \in Traces \cup Edits /\ canon \in Policies
      BY DEF FromInputs
    <3>3. TraceOf[source].form = "good" => source \in Sources
      BY <3>2 DEF Sources
    <3> HIDE DEF Sources
    <3> QED BY <3>1, <3>2, <3>3 DEF ElabMove, Loaded, Derived, Wrote, Cleaned, Stopped, Stays,
                                    Ended, Elaborating, FromInputs
  <2> QED BY <2>2, <2>3
<1> QED BY <1>2, <1>3, <1>4 DEF FromInputs

\* A run that starts beside another marks both.
LEMMA OverlapsKept ==
  ASSUME Placed, FromInputs, Overlaps, NEW q \in Runs, RunStep(q)
  PROVE  Overlaps'
<1>1. OwnPlaces(q) /\ OwnMarks(q)
  BY StepIsOwn
<1>2. \A s \in Runs \ {q} : Active(s)' <=> Active(s)
  BY <1>1 DEF OwnPlaces, Active
<1>3. pc[q] = "idle" \/ Active(q)
  BY <1>1 DEF OwnPlaces, Active
<1>4. ASSUME NEW r \in Runs, NEW s \in Runs, r # s, Active(r)', Active(s)'
      PROVE  r \in beside'
  <2>1. CASE Active(q)
    <3>1. Active(r) /\ Active(s)
      BY <1>2, <1>4, <2>1
    <3> QED BY <1>1, <1>4, <3>1 DEF Overlaps, OwnMarks
  <2>2. CASE pc[q] = "idle"
    <3>1. Begin(q) /\ beside \subseteq beside'
      BY <1>1, <2>2 DEF OwnPlaces, OwnMarks
    <3>2. CASE r = q
      <4>1. s \in {x \in Runs \ {q} : Active(x)}
        BY <1>2, <1>4, <3>2
      <4> QED BY <3>1, <3>2, <4>1 DEF Begin
    <3>3. CASE r # q
      <4>1. r \in {x \in Runs \ {q} : Active(x)}
        BY <1>2, <1>4, <3>3
      <4> QED BY <3>1, <4>1 DEF Begin
    <3> QED BY <3>2, <3>3
  <2> QED BY <1>3, <2>1, <2>2
<1>5. ASSUME NEW f \in Freezes, NEW g \in Freezes, Active(f)', Active(g)'
      PROVE  f = g
  <2>1. f \in Runs /\ g \in Runs
    BY DEF Runs
  <2>2. CASE Active(q) \/ q \notin Freezes
    <3>1. Active(f) /\ Active(g)
      BY <1>2, <1>5, <2>1, <2>2
    <3> QED BY <3>1 DEF Overlaps
  <2>3. CASE pc[q] = "idle" /\ q \in Freezes
    <3>1. Prepared(q)
      BY <2>3, MovesOf DEF FreezeMove, Checked, Replaced, RolledBack, GaveUp, Left, Stopped, Active
    <3>2. \A h \in Freezes : ~ Active(h)
      BY <2>3, <3>1 DEF Prepared, Preparing
    <3>3. \A h \in Freezes \ {q} : ~ Active(h)'
      BY <1>2, <3>2 DEF Runs
    <3> QED BY <1>5, <3>3
  <2> QED BY <1>3, <2>2, <2>3
<1> QED BY <1>4, <1>5 DEF Overlaps

\* An elaborator nobody runs beside keeps what it has done to its files.
LEMMA ElaboratedKept ==
  ASSUME Placed, FromInputs, Overlaps, Elaborated, NEW r \in Runs, RunStep(r)
  PROVE  Elaborated'
<1>1. OwnPlaces(r) /\ OwnMarks(r) /\ DOMAIN file = Names
  BY StepIsOwn DEF Placed
<1> SUFFICES ASSUME NEW e \in Elabs, e \notin beside' PROVE ElaboratedOf(e)'
  BY DEF Elaborated
<1>2. e \in Runs /\ e \notin beside /\ (e \notin stuck' => e \notin stuck)
  BY <1>1 DEF Runs, OwnMarks
<1>3. CASE e # r
  <2>1. pc'[e] = pc[e] /\ ~ Active(e)
    BY <1>1, <1>2, <1>3, Alone DEF OwnPlaces
  <2> QED BY <2>1 DEF Active, ElaboratedOf
<1>4. CASE e = r
  <2>1. ElabMove(e)
    BY <1>4, MovesOf
  <2>2. CASE Wrote(e)
    BY <1>1, <1>2, <2>2 DEF Wrote, Elaborated, ElaboratedOf, Names
  <2>3. CASE Cleaned(e)
    <3>1. pc[e] = "clean1" /\ e \notin stuck' => file'.emitted = NoFile
      BY <1>1, <2>3 DEF Cleaned, Removed, Names
    <3>2. pc[e] = "clean2" /\ e \notin stuck' => file'.emitted = file.emitted /\ file'.prov = NoFile
      BY <1>1, <2>3 DEF Cleaned, Removed, Names
    <3>3. \/ pc[e] = "clean1" /\ pc'[e] = "clean2"
          \/ pc[e] = "clean2" /\ pc'[e] = "clean3"
          \/ pc'[e] = "done"
      BY <2>3 DEF Cleaned, Ended
    <3> QED BY <1>2, <3>1, <3>2, <3>3 DEF Elaborated, ElaboratedOf
  <2>4. CASE ~ Wrote(e) /\ ~ Cleaned(e)
    BY <2>1, <2>4 DEF ElabMove, Loaded, Derived, Stopped, Ended, ElaboratedOf
  <2> QED BY <2>2, <2>3, <2>4
<1> QED BY <1>3, <1>4

\* Only a freeze's own steps touch what it is moving.
LEMMA FreezesAlone ==
  ASSUME Placed, FromInputs, Overlaps, NEW r \in Runs, RunStep(r), NEW f \in Freezes, f # r
  PROVE  /\ pc'[f] = pc[f] /\ mem'[f] = mem[f]
         /\ f \notin stuck' => f \notin stuck
         /\ Active(f) => /\ file'.core = file.core /\ file'.verdict = file.verdict
                         /\ file'.manifest = file.manifest
<1>1. OwnPlaces(r) /\ OwnMarks(r) /\ OwnFiles(r) /\ f \in Runs
  BY StepIsOwn DEF Runs
<1>2. CASE r \in Elabs
  BY <1>1, <1>2 DEF OwnPlaces, OwnMarks, OwnFiles
<1>3. CASE r \in Freezes
  <2>1. CASE Active(r)
    BY <1>1, <1>3, <2>1 DEF Overlaps, OwnPlaces, OwnMarks
  <2>2. CASE ~ Active(r)
    <3>1. pc[r] = "idle"
      BY <1>1, <2>2 DEF OwnPlaces, Active
    <3>2. Prepared(r)
      BY <1>3, <3>1, MovesOf DEF FreezeMove, Checked, Replaced, RolledBack, GaveUp, Left, Stopped, Active
    <3>3. ~ Active(f)
      BY <1>3, <3>1, <3>2 DEF Prepared, Preparing
    <3> QED BY <1>1, <3>3 DEF OwnPlaces, OwnMarks
  <2> QED BY <2>1, <2>2
<1> QED BY <1>2, <1>3 DEF Runs

\* The three frozen files, one by one.
LEMMA ThreeFiles ==
  ASSUME NEW f
  PROVE  /\ IsOld(f, 1) <=> file.core = mem[f].old.core
         /\ IsOld(f, 2) <=> file.verdict = mem[f].old.verdict
         /\ IsOld(f, 3) <=> file.manifest = mem[f].old.manifest
         /\ IsNew(f, 1) <=> file.core = mem[f].t.core
         /\ IsNew(f, 2) <=> file.verdict = mem[f].t.verdict
         /\ IsNew(f, 3) <=> file.manifest = mem[f].t.manifest
         /\ IsAway(1) <=> file.core = NoFile
         /\ IsAway(2) <=> file.verdict = NoFile
         /\ IsAway(3) <=> file.manifest = NoFile
         /\ IsOld(f, 1)' <=> file'.core = mem'[f].old.core
         /\ IsOld(f, 2)' <=> file'.verdict = mem'[f].old.verdict
         /\ IsOld(f, 3)' <=> file'.manifest = mem'[f].old.manifest
         /\ IsNew(f, 1)' <=> file'.core = mem'[f].t.core
         /\ IsNew(f, 2)' <=> file'.verdict = mem'[f].t.verdict
         /\ IsNew(f, 3)' <=> file'.manifest = mem'[f].t.manifest
         /\ IsAway(1)' <=> file'.core = NoFile
         /\ IsAway(2)' <=> file'.verdict = NoFile
         /\ IsAway(3)' <=> file'.manifest = NoFile
BY Tables DEF IsOld, IsNew, IsAway

\* A freeze keeps what it has moved away, installed and put back.
LEMMA MovedKept ==
  ASSUME Placed, FromInputs, Overlaps, Moved, NEW r \in Runs, RunStep(r)
  PROVE  Moved'
<1>1. OwnMarks(r) /\ DOMAIN file = Names
  BY StepIsOwn DEF Placed
<1> SUFFICES ASSUME NEW f \in Freezes PROVE MovedOf(f)'
  BY DEF Moved
<1>2. CASE f # r
  <2>1. /\ pc'[f] = pc[f] /\ mem'[f] = mem[f]
        /\ f \notin stuck' => f \notin stuck
        /\ Active(f) => /\ file'.core = file.core /\ file'.verdict = file.verdict
                        /\ file'.manifest = file.manifest
    BY <1>2, FreezesAlone
  <2>2. CASE ~ Active(f)
    BY <2>1, <2>2 DEF Active, Moved, MovedOf, Preparing
  <2>3. CASE Active(f)
    BY <2>1, <2>3, ThreeFiles DEF Moved, MovedOf, Preparing, Active
  <2> QED BY <2>2, <2>3
<1>3. CASE f = r
  <2>1. FreezeMove(f) /\ (f \notin stuck' => f \notin stuck)
    BY <1>1, <1>3, MovesOf DEF OwnMarks
  <2>2. CASE Prepared(f)
    <3>1. mem[f].old = NoFile
      BY <2>2 DEF Prepared, Moved, MovedOf, Preparing
    <3>2. pc'[f] \in {"hash", "copy", "check", "done"} /\ (pc'[f] # "done" => mem'[f].old = NoFile)
      BY <2>2, <3>1 DEF Prepared, Ended, Stays
    <3> QED BY <3>2 DEF MovedOf, Preparing
  <2>3. CASE Checked(f)
    <3>1. /\ mem'[f].old.core = file.core /\ mem'[f].old.verdict = file.verdict
          /\ mem'[f].old.manifest = file.manifest
      <4>1. mem'[f].old = [n \in {Frozen[i] : i \in 1..3} |-> file[n]]
        BY <2>3 DEF Checked
      <4>2. /\ "core" \in {Frozen[i] : i \in 1..3} /\ "verdict" \in {Frozen[i] : i \in 1..3}
            /\ "manifest" \in {Frozen[i] : i \in 1..3}
        BY Tables
      <4> QED BY <4>1, <4>2
    <3>2. pc'[f] = "backup1" /\ file' = file
      BY <2>3 DEF Checked
    <3> QED BY <3>1, <3>2, ThreeFiles DEF MovedOf, Preparing
  <2>4. CASE Replaced(f)
    <3>1. /\ pc[f] = "backup1" => IsOld(f, 2) /\ IsOld(f, 3)
          /\ pc[f] = "backup2" => IsAway(1) /\ IsOld(f, 3)
          /\ pc[f] = "backup3" => IsAway(1) /\ IsAway(2)
          /\ pc[f] = "install1" => IsAway(2) /\ IsAway(3)
          /\ pc[f] = "install2" => IsNew(f, 1) /\ IsAway(3)
          /\ pc[f] = "install3" => IsNew(f, 1) /\ IsNew(f, 2)
      BY DEF Moved, MovedOf
    <3> QED BY <1>1, <2>4, <3>1, ThreeFiles DEF Replaced, Names, MovedOf, Preparing
  <2>5. CASE RolledBack(f)
    <3>1. f \notin stuck' => /\ pc[f] \in {"back2", "back1"} => IsOld(f, 3)
                             /\ pc[f] = "back1" => IsOld(f, 2)
      BY <2>1 DEF Moved, MovedOf
    <3> QED BY <1>1, <2>5, <3>1, ThreeFiles DEF RolledBack, Names, MovedOf, Preparing
  <2>6. CASE GaveUp(f)
    BY <2>6 DEF GaveUp, MovedOf, Preparing
  <2>7. CASE Left(f) \/ Stopped(f)
    BY <2>7 DEF Left, Stopped, Ended, MovedOf, Preparing
  <2> QED BY <2>1, <2>2, <2>3, <2>4, <2>5, <2>6, <2>7 DEF FreezeMove
<1> QED BY <1>2, <1>3

\* The frozen files stay of one freeze, or without their manifest.
LEMMA OfOneKept ==
  ASSUME Placed, FromInputs, Overlaps, Moved, OfOne, NEW r \in Runs, RunStep(r)
  PROVE  OfOne'
<1>1. OwnPlaces(r) /\ OwnMarks(r) /\ OwnFiles(r) /\ DOMAIN file = Names
  BY StepIsOwn DEF Placed
<1>2. ASSUME NEW f \in Freezes, pc'[f] \in Moving
      PROVE  OutputsOf(f)' /\ (Freezes \cap stuck' = {} => FoundOf(f)')
  <2>1. CASE f # r
    <3>1. pc'[f] = pc[f] /\ mem'[f] = mem[f]
      BY <2>1, FreezesAlone
    <3>2. Freezes \cap stuck' = {} => Freezes \cap stuck = {}
      BY <1>1 DEF OwnMarks
    <3> QED BY <1>2, <3>1, <3>2 DEF OfOne, OutputsOf, FoundOf
  <2>2. CASE f = r
    <3>1. FreezeMove(f)
      BY <2>2, MovesOf
    <3>2. Freezes \cap stuck' = {} => Freezes \cap stuck = {}
      BY <1>1 DEF OwnMarks
    <3>3. CASE Checked(f)
      <4>1. OutputsOf(f)'
        BY <3>3 DEF Checked, Outputs, OutputsOf
      <4>2. /\ mem'[f].old.core = file.core /\ mem'[f].old.verdict = file.verdict
            /\ mem'[f].old.manifest = file.manifest
        <5>1. mem'[f].old = [n \in {Frozen[i] : i \in 1..3} |-> file[n]]
          BY <3>3 DEF Checked
        <5>2. /\ "core" \in {Frozen[i] : i \in 1..3} /\ "verdict" \in {Frozen[i] : i \in 1..3}
              /\ "manifest" \in {Frozen[i] : i \in 1..3}
          BY Tables
        <5> QED BY <5>1, <5>2
      <4>3. pc[f] = "check" /\ Active(f)
        BY <3>3 DEF Checked, Active
      <4>4. ASSUME NEW g \in Freezes PROVE pc[g] \notin DOMAIN BackAt
        <5>1. g # f => ~ Active(g)
          BY <4>3 DEF Overlaps
        <5> QED BY <4>3, <5>1, Tables DEF Active
      <4> QED BY <3>2, <4>1, <4>2, <4>4 DEF OfOne, FoundOf
    <3>4. CASE ~ Checked(f)
      <4>1. mem'[f] = mem[f] /\ pc[f] \in Moving
        BY <1>2, <3>1, <3>4 DEF FreezeMove, Prepared, Replaced, RolledBack, GaveUp, Left, Stopped,
                                 Ended, Stays, Moving, BackingUp, Installing, RollingBack
      <4> QED BY <3>2, <4>1 DEF OfOne, OutputsOf, FoundOf
    <3> QED BY <3>3, <3>4
  <2> QED BY <2>1, <2>2
<1>3. ASSUME Freezes \cap stuck' = {}, \A f \in Freezes : pc'[f] \notin DOMAIN BackAt
      PROVE  Coherent(file'.core, file'.verdict, file'.manifest)
  <2>1. Freezes \cap stuck = {}
    BY <1>1, <1>3 DEF OwnMarks
  <2>2. \A f \in Freezes \ {r} : pc[f] \notin DOMAIN BackAt
    BY <1>1, <1>3 DEF OwnPlaces, Runs
  <2>3. CASE r \in Elabs
    <3>1. r \notin Freezes
      BY <2>3, MovesOf
    <3> QED BY <1>1, <2>1, <2>2, <2>3, <3>1 DEF OfOne, OwnFiles
  <2>4. CASE r \in Freezes
    <3>1. FreezeMove(r)
      BY <2>4, MovesOf
    <3>2. pc[r] \notin DOMAIN BackAt => Coherent(file.core, file.verdict, file.manifest)
      BY <2>1, <2>2, <2>4 DEF OfOne
    <3>3. CASE Replaced(r)
      <4>1. Coherent(file.core, file.verdict, file.manifest)
        BY <3>2, <3>3, Tables DEF Replaced
      <4>2. /\ pc[r] \in {"install1", "install2"} => file.manifest = NoFile
            /\ pc[r] = "install3" => file.core = mem[r].t.core /\ file.verdict = mem[r].t.verdict
        BY <2>4, ThreeFiles DEF Moved, MovedOf
      <4>3. pc[r] = "install3" => OutputsOf(r)
        BY <2>4 DEF OfOne, Moving, Installing
      <4> QED BY <1>1, <3>3, <4>1, <4>2, <4>3 DEF Replaced, Coherent, OutputsOf, Names
    <3>4. CASE RolledBack(r)
      <4>1. r \notin stuck'
        BY <1>3, <2>4
      <4>2. pc[r] = "back1" /\ file' = [file EXCEPT !["core"] = mem[r].old["core"]]
        BY <1>3, <2>4, <3>4, <4>1, Tables DEF RolledBack
      <4>3. file.verdict = mem[r].old.verdict /\ file.manifest = mem[r].old.manifest
        BY <2>1, <2>4, <4>2, ThreeFiles DEF Moved, MovedOf
      <4>4. FoundOf(r)
        BY <2>1, <2>4, <4>2 DEF OfOne, Moving, RollingBack
      <4> QED BY <1>1, <4>2, <4>3, <4>4 DEF FoundOf, Names
    <3>5. CASE ~ Replaced(r) /\ ~ RolledBack(r)
      <4>1. file' = file
        BY <3>1, <3>5 DEF FreezeMove, Prepared, Checked, GaveUp, Left, Stopped, Stays
      <4>2. pc[r] \notin DOMAIN BackAt
        BY <1>3, <2>4, <3>1, <3>5, Tables
           DEF FreezeMove, Prepared, Checked, GaveUp, Left, Stopped, Preparing
      <4> QED BY <3>2, <4>1, <4>2
    <3> QED BY <3>3, <3>4, <3>5
  <2> QED BY <2>3, <2>4 DEF Runs
<1> QED BY <1>2, <1>3 DEF OfOne, Coherent, FoundOf, OutputsOf

\* What a freeze nobody runs beside has read stays what is there.
LEMMA AsReadKept ==
  ASSUME Placed, FromInputs, Overlaps, AsRead, NEW r \in Runs, RunStep(r)
  PROVE  AsRead'
<1>1. OwnPlaces(r) /\ OwnMarks(r) /\ OwnFiles(r) /\ DOMAIN file = Names
  BY StepIsOwn DEF Placed
<1> SUFFICES ASSUME NEW f \in Freezes, f \notin beside' PROVE AsReadOf(f)'
  BY DEF AsRead
<1>2. f \in Runs /\ f \notin beside
  BY <1>1 DEF Runs, OwnMarks
<1>3. CASE f # r
  <2>1. pc'[f] = pc[f] /\ ~ Active(f)
    BY <1>1, <1>2, <1>3, Alone DEF OwnPlaces
  <2> QED BY <2>1 DEF Active, AsReadOf, Preparing, BackingUp, Installing
<1>4. CASE f = r
  <2>1. FreezeMove(f) /\ AsReadOf(f)
    BY <1>2, <1>4, MovesOf DEF AsRead
  <2>2. file'.copy = file.copy /\ file'.emitted = file.emitted /\ file'.prov = file.prov
    BY <1>1, <1>4 DEF OwnFiles
  <2>3. Pair' = Pair
    BY <2>2 DEF Pair
  <2>4. CASE Prepared(f)
    BY <2>1, <2>2, <2>4 DEF Prepared, Ended, Stays, AsReadOf, Pair, Preparing, BackingUp, Installing
  <2>5. CASE Checked(f)
    <3>1. /\ mem[f].p = file.copy /\ mem[f].t.core = Pair
          /\ file.copy # NoFile /\ file.emitted # NoFile /\ file.prov # NoFile
      BY <2>1, <2>5 DEF Checked, AsReadOf, Preparing
    <3>2. CheckNow = CheckOf(Pair)
      BY DEF CheckNow, Pair
    <3>3. /\ mem'[f].t.core = [by |-> f, of |-> Pair]
          /\ mem'[f].t.verdict = [by |-> f, of |-> Pair]
          /\ mem'[f].t.manifest = [by |-> f, sha |-> file.copy, exit |-> CheckOf(Pair).exit]
      <4> HIDE DEF CheckOf
      <4> QED BY <2>5, <3>1, <3>2 DEF Checked, Outputs, Pair
    <3>4. CheckOf(Pair)' = CheckOf(Pair)
      BY <2>3 DEF CheckOf
    <3>5. pc'[f] = "backup1"
      BY <2>5 DEF Checked
    <3> HIDE DEF Pair, CheckOf
    <3> QED BY <2>2, <2>3, <3>1, <3>3, <3>4, <3>5 DEF AsReadOf, Preparing, BackingUp, Installing
  <2>6. CASE Replaced(f)
    <3>1. CheckOf(Pair)' = CheckOf(Pair)
      BY <2>3 DEF CheckOf
    <3> HIDE DEF Pair, CheckOf
    <3>2. mem'[f] = mem[f] /\ pc[f] \in BackingUp \cup Installing /\ pc'[f] \in BackingUp \cup Installing
      BY <2>6 DEF Replaced, BackingUp, Installing
    <3> QED BY <2>1, <2>2, <2>3, <3>1, <3>2 DEF AsReadOf, Preparing, BackingUp, Installing
  <2>7. CASE RolledBack(f) \/ GaveUp(f) \/ Left(f) \/ Stopped(f)
    BY <2>7 DEF RolledBack, GaveUp, Left, Stopped, Ended, AsReadOf, Preparing, BackingUp, Installing
  <2> QED BY <2>1, <2>4, <2>5, <2>6, <2>7 DEF FreezeMove
<1> QED BY <1>3, <1>4

\* The names of the six files.
LEMMA SixNames ==
  /\ DOMAIN NoBundle = Names /\ \A n \in Names : NoBundle[n] = NoFile
  /\ \A t, p : DOMAIN Committed(t, p) = Names
<1>1. 1..3 = {1, 2, 3}
  OBVIOUS
<1>2. {Written[i] : i \in 1..3} \cup {Frozen[i] : i \in 1..3} = Names
  <2> HIDE DEF Written, Frozen
  <2> QED BY <1>1, Tables DEF Names
<1> QED BY <1>2 DEF NoBundle, Committed

\* The committed bundle, and the empty one, satisfy the invariant.
LEMMA BundleInit ==
  ASSUME Init PROVE BundleInv
<1>1. \A r \in Runs : pc[r] = "idle" /\ ~ Active(r) /\ mem[r] = [t |-> NoFile, p |-> NoFile, old |-> NoFile]
  BY DEF Init, Active, Blank
<1>2. /\ DOMAIN file = Names
      /\ file.copy \in Policies \cup {NoFile}
      /\ file.emitted \in (Sources \X Policies) \cup {NoFile}
      /\ Coherent(file.core, file.verdict, file.manifest)
  <2>1. canon \in Policies
    BY BundleAssumption DEF Init
  <2>2. CASE file = NoBundle
    BY <2>2, SixNames DEF Coherent, Names
  <2>3. CASE source \in Sources /\ file = Committed(source, canon)
    <3>1. /\ "copy" \in Names /\ "emitted" \in Names /\ "prov" \in Names
          /\ "core" \in Names /\ "verdict" \in Names /\ "manifest" \in Names
      BY DEF Names
    <3>2. /\ file.copy = canon /\ file.emitted = <<source, canon>>
          /\ file.core.by = "commit" /\ file.verdict.by = "commit" /\ file.manifest.by = "commit"
      BY <2>3, <3>1, SixNames DEF Committed
    <3> QED BY <2>1, <2>3, <3>2, SixNames DEF Coherent
  <2> QED BY <2>2, <2>3 DEF Init
<1>3. Elabs \subseteq Runs /\ Freezes \subseteq Runs
  BY DEF Runs
<1>4. Placed
  <2>1. DOMAIN pc = Runs /\ DOMAIN exit = Runs /\ DOMAIN mem = Runs
    BY DEF Init
  <2> QED BY <1>1, <1>2, <1>3, <2>1 DEF Placed
<1>5. FromInputs
  <2>1. source \in Traces \cup Edits /\ canon \in Policies
    BY BundleAssumption DEF Init
  <2> QED BY <1>1, <1>2, <1>3, <2>1 DEF FromInputs, Elaborating
<1>6. Overlaps
  BY <1>1, <1>3 DEF Overlaps
<1>7. Elaborated /\ Moved
  BY <1>1, <1>3 DEF Elaborated, ElaboratedOf, Moved, MovedOf
<1>8. OfOne
  BY <1>1, <1>2, <1>3 DEF OfOne, Moving, BackingUp, Installing, RollingBack
<1>9. AsRead
  BY <1>1, <1>3 DEF AsRead, AsReadOf, Preparing, BackingUp, Installing
<1> QED BY <1>4, <1>5, <1>6, <1>7, <1>8, <1>9 DEF BundleInv

\* An edit leaves the files and the runs alone.
LEMMA EditKeeps ==
  ASSUME BundleInv, EditSource \/ EditPolicy \/ UNCHANGED vars
  PROVE  BundleInv'
<1>1. /\ file' = file /\ pc' = pc /\ mem' = mem /\ exit' = exit
      /\ beside' = beside /\ stuck' = stuck
  BY DEF EditSource, EditPolicy, vars
<1>2. source' \in Traces \cup Edits /\ canon' \in Policies
  BY DEF EditSource, EditPolicy, vars, BundleInv, FromInputs
<1>3. Placed'
  BY <1>1 DEF BundleInv, Placed
<1>4. FromInputs'
  BY <1>1, <1>2 DEF BundleInv, FromInputs
<1>5. Overlaps'
  BY <1>1 DEF BundleInv, Overlaps, Active
<1>6. Elaborated' /\ Moved'
  BY <1>1 DEF BundleInv, Elaborated, ElaboratedOf, Moved, MovedOf, IsOld, IsNew, IsAway
<1>7. OfOne'
  BY <1>1 DEF BundleInv, OfOne, OutputsOf, FoundOf
<1>8. AsRead'
  <2>1. Pair' = Pair /\ CheckOf(Pair)' = CheckOf(Pair)
    BY <1>1 DEF Pair, CheckOf
  <2> HIDE DEF Pair, CheckOf
  <2> QED BY <1>1, <2>1 DEF BundleInv, AsRead, AsReadOf
<1> QED BY <1>3, <1>4, <1>5, <1>6, <1>7, <1>8 DEF BundleInv

\* Every step keeps it.
LEMMA BundleStep ==
  ASSUME BundleInv, [Next]_vars
  PROVE  BundleInv'
<1>1. CASE EditSource \/ EditPolicy \/ UNCHANGED vars
  BY <1>1, EditKeeps
<1>2. ASSUME NEW r \in Runs, RunStep(r) PROVE BundleInv'
  <2>1. Placed /\ FromInputs /\ Overlaps /\ Elaborated /\ Moved /\ OfOne /\ AsRead
    BY DEF BundleInv
  <2> QED BY <1>2, <2>1, PlacedKept, FromInputsKept, OverlapsKept, ElaboratedKept, MovedKept,
             OfOneKept, AsReadKept DEF BundleInv
<1> QED BY <1>1, <1>2, StepIsOfOne

\* The inductive invariant of the bundle holds of every behaviour.
THEOREM BundleInvariant == Spec => []BundleInv
<1>1. Init => BundleInv
  BY BundleInit
<1>2. BundleInv /\ [Next]_vars => BundleInv'
  BY BundleStep
<1> QED BY <1>1, <1>2, PTL DEF Spec

-----------------------------------------------------------------------------
(* The theorems about the bundle. *)

\* What a checker justifies is evidenced: in every bundle an elaborator and a
\* freezer leave, however they are interleaved, interrupted or fail, a claim
\* the emitted program justifies under the policy beside it has an experiment
\* with evidence for every mandatory question and none against.  No question
\* of a policy asks for evidence against an answer.
THEOREM JustifiedClaimsAreEvidenced ==
  ASSUME \A p \in Policies : Separates(PolicyOf[p])
  PROVE  Spec => []JustifiedIsEvidenced
<1>1. BundleInv => JustifiedIsEvidenced
  <2> SUFFICES ASSUME BundleInv, file.emitted # NoFile, file.copy # NoFile
               PROVE  Evidenced[file.emitted[1]][file.emitted[2]][file.copy]
    BY DEF JustifiedIsEvidenced
  <2>1. file.emitted \in Sources \X Policies /\ file.copy \in Policies
    BY DEF BundleInv, FromInputs
  <2>2. file.emitted[1] \in Sources /\ file.emitted[2] \in Policies
    BY <2>1
  <2> HIDE DEF Evidenced, Sources
  <2> QED BY <2>1, <2>2, EvidenceStands
<1> QED BY <1>1, BundleInvariant, PTL

\* An elaborator no other run overlaps leaves, when it exits 0, its three files
\* of one derivation and, when it exits 2 with its clean-up whole, none of them,
\* and in either case no staging directory of its own.  Runs that are killed,
\* interrupted or end in an uncaught TypeError are not covered.
THEOREM ElaboratorIsTransactional == Spec => ElaborateIsTransactional
<1> DEFINE Step ==
      \A e \in Elabs \ (beside \cup stuck') :
        /\ Ends(e, "0") =>
             /\ file'.emitted = <<mem[e].t, mem[e].p>>
             /\ file'.prov = file'.emitted
             /\ file'.copy = mem[e].p
        /\ Ends(e, "2") => \A i \in 1..3 : file'[Written[i]] = NoFile
        /\ Ends(e, "0") \/ Ends(e, "2") => e \notin stages'
<1>1. ASSUME BundleInv, [Next]_vars PROVE [Step]_vars
  <2> SUFFICES ASSUME Next, NEW e \in Elabs, e \notin beside, e \notin stuck',
                      Ends(e, "0") \/ Ends(e, "2")
               PROVE  /\ Ends(e, "0") =>
                           /\ file'.emitted = <<mem[e].t, mem[e].p>>
                           /\ file'.prov = file'.emitted
                           /\ file'.copy = mem[e].p
                      /\ Ends(e, "2") => \A i \in 1..3 : file'[Written[i]] = NoFile
                      /\ e \notin stages'
    BY <1>1
  <2>1. Placed /\ FromInputs /\ ElaboratedOf(e) /\ e \in Runs
    BY <1>1 DEF BundleInv, Elaborated, Runs
  <2>2. pc[e] # "done" /\ pc'[e] = "done" /\ exit'[e] \in {"0", "2"}
    BY DEF Ends
  <2>3. PICK r \in Runs : RunStep(r)
    <3>1. ~ (EditSource \/ EditPolicy)
      BY <2>2 DEF EditSource, EditPolicy
    <3> QED BY <3>1, StepIsOfOne
  <2>4. r = e
    BY <2>1, <2>2, <2>3, StepIsOwn DEF OwnPlaces
  <2>5. ElabMove(e) /\ OwnMarks(e)
    BY <2>1, <2>3, <2>4, MovesOf, StepIsOwn
  <2>6. e \notin stuck
    BY <2>5 DEF OwnMarks
  <2>7. CASE pc[e] = "leave" /\ Ended(e, "0") /\ Stays(e) /\ e \notin stages'
    BY <2>1, <2>7 DEF ElaboratedOf, Ends, Ended, Stays
  <2>8. CASE Cleaned(e)
    <3>1. pc[e] = "clean3" /\ exit'[e] = "2" /\ file' = Removed({"copy"}) /\ stages' = stages \ Elabs
      BY <2>2, <2>8 DEF Cleaned, Ended
    <3>2. file.emitted = NoFile /\ file.prov = NoFile /\ DOMAIN file = Names
      BY <2>1, <2>6, <3>1 DEF ElaboratedOf, Placed
    <3>3. file'.emitted = NoFile /\ file'.prov = NoFile /\ file'.copy = NoFile
      BY <3>1, <3>2 DEF Removed, Names
    <3>4. \A i \in 1..3 : file'[Written[i]] = NoFile
      <4>1. 1..3 = {1, 2, 3} /\ Written[1] = "copy" /\ Written[2] = "emitted" /\ Written[3] = "prov"
        BY Tables
      <4> HIDE DEF Written
      <4> QED BY <3>3, <4>1
    <3> QED BY <3>1, <3>4 DEF Ends
  <2> QED BY <2>2, <2>5, <2>7, <2>8 DEF ElabMove, Loaded, Derived, Wrote, Stopped, Ended
<1>2. Spec => [][Step]_vars
  <2> HIDE DEF Step
  <2> QED BY <1>1, BundleInvariant, PTL DEF Spec
<1> QED BY <1>2 DEF ElaborateIsTransactional

\* A step that ends a freeze is its own.
LEMMA EndOfFreeze ==
  ASSUME BundleInv, Next, NEW f \in Freezes, NEW code, Ends(f, code)
  PROVE  FreezeMove(f) /\ OwnMarks(f) /\ OwnFiles(f)
<1>1. Placed /\ FromInputs /\ f \in Runs
  BY DEF BundleInv, Runs
<1>2. pc[f] # "done" /\ pc'[f] = "done"
  BY DEF Ends
<1>3. PICK r \in Runs : RunStep(r)
  <2>1. ~ (EditSource \/ EditPolicy)
    BY <1>2 DEF EditSource, EditPolicy
  <2> QED BY <2>1, StepIsOfOne
<1>4. r = f
  BY <1>1, <1>2, <1>3, StepIsOwn DEF OwnPlaces
<1> QED BY <1>1, <1>3, <1>4, MovesOf, StepIsOwn

\* A freeze that is interrupted, killed or fails anywhere but in its roll-back
\* never leaves a manifest over a file of another freeze, and one that reports
\* failure with its roll-back whole has put back what it found or, when only the
\* removal of its staging directory failed, leaves all it has installed.  One
\* freeze is under way at a time (Identify).
THEOREM FreezerIsTransactional == Spec => FreezeIsTransactional
<1>1. BundleInv => ManifestCommits
  <2> SUFFICES ASSUME BundleInv, file.manifest # NoFile,
                      \A f \in Freezes : pc[f] \notin DOMAIN BackAt /\ f \notin stuck
               PROVE  \A n \in {"core", "verdict"} :
                        file[n] # NoFile => file[n].by = file.manifest.by
    BY DEF ManifestCommits
  <2>1. Coherent(file.core, file.verdict, file.manifest)
    BY DEF BundleInv, OfOne
  <2> QED BY <2>1 DEF Coherent
<1> DEFINE Step ==
      \A f \in Freezes \ stuck' :
        Ends(f, "2") /\ mem[f].old # NoFile =>
          LET Holds(bundle) == \A i \in 1..3 : file'[Frozen[i]] = bundle[Frozen[i]]
          IN Holds(mem[f].old) \/ (f \in cut' /\ Holds(mem[f].t))
<1>2. ASSUME BundleInv, [Next]_vars PROVE [Step]_vars
  <2> SUFFICES ASSUME Next, NEW f \in Freezes, f \notin stuck', Ends(f, "2"), mem[f].old # NoFile
               PROVE  \/ \A i \in 1..3 : file'[Frozen[i]] = mem[f].old[Frozen[i]]
                      \/ /\ f \in cut'
                         /\ \A i \in 1..3 : file'[Frozen[i]] = mem[f].t[Frozen[i]]
    BY <1>2
  <2>1. FreezeMove(f) /\ OwnMarks(f) /\ MovedOf(f)
    BY <1>2, EndOfFreeze DEF BundleInv, Moved
  <2>2. pc'[f] = "done" /\ exit'[f] = "2" /\ f \notin stuck
    BY <2>1 DEF Ends, OwnMarks
  <2>3. pc[f] \notin {"idle"} \cup Preparing
    BY <2>1 DEF MovedOf
  <2>4. file' = file /\ (pc[f] = "fail" \/ (pc[f] = "drop" /\ f \in cut'))
    BY <2>1, <2>2, <2>3 DEF FreezeMove, Prepared, Checked, Replaced, RolledBack, GaveUp, Left,
                            Stopped, Ended, Stays, Preparing
  <2>5. CASE pc[f] = "fail"
    <3>1. IsOld(f, 1) /\ IsOld(f, 2) /\ IsOld(f, 3)
      BY <2>1, <2>2, <2>5 DEF MovedOf
    <3> QED BY <2>4, <3>1 DEF IsOld
  <2>6. CASE pc[f] = "drop" /\ f \in cut'
    <3>1. IsNew(f, 1) /\ IsNew(f, 2) /\ IsNew(f, 3)
      BY <2>1, <2>6 DEF MovedOf
    <3> QED BY <2>4, <2>6, <3>1 DEF IsNew
  <2> QED BY <2>4, <2>5, <2>6
<1>3. Spec => []ManifestCommits
  BY <1>1, BundleInvariant, PTL
<1>4. Spec => [][Step]_vars
  <2> HIDE DEF Step
  <2> QED BY <1>2, BundleInvariant, PTL DEF Spec
<1>5. Spec => FreezeRestores
  BY <1>4 DEF FreezeRestores
<1> QED BY <1>3, <1>5 DEF FreezeIsTransactional

\* The checker's verdicts have the three exit codes.
LEMMA ThreeExits ==
  ASSUME NEW s \in Sources, NEW p \in Policies, NEW c \in Policies
  PROVE  VerdictOn[s][p][c].exit \in 0..2
<1>1. VerdictOn[s][p][c] = IF CanDerive[s][p] THEN Verdict(TraceOf[s], PolicyOf[p], PolicyOf[c])
                           ELSE [exit |-> 2]
  BY DEF VerdictOn
<1>2. Verdict(TraceOf[s], PolicyOf[p], PolicyOf[c]).exit \in 0..2
  <2> DEFINE holes == {e \in AllInstances(TraceOf[s]) : Hole(TraceOf[s], PolicyOf[p], PolicyOf[c], e)}
             states == [k \in Claims(TraceOf[s]) |-> StatusOf(TraceOf[s], PolicyOf[p], PolicyOf[c], k)]
  <2>1. Verdict(TraceOf[s], PolicyOf[p], PolicyOf[c]) \in
          {[exit |-> 2], [exit |-> 1], [exit |-> 0, holes |-> holes, status |-> states]}
    BY DEF Verdict
  <2> HIDE DEF holes, states
  <2> QED BY <2>1
<1> QED BY <1>1, <1>2

\* What a freeze has frozen replays with exit 0, and its core is of the program
\* that was checked, unless another run overlapped it.
THEOREM FrozenBundlesReplay == Spec => FrozenBundleReplays
<1> DEFINE Step ==
      \A f \in Freezes \ beside :
        Ends(f, "0") =>
          /\ ReplayExit' = 0
          /\ file'.core.of = file'.verdict.of
<1>1. ASSUME BundleInv, [Next]_vars PROVE [Step]_vars
  <2> SUFFICES ASSUME Next, NEW f \in Freezes, f \notin beside, Ends(f, "0")
               PROVE  ReplayExit' = 0 /\ file'.core.of = file'.verdict.of
    BY <1>1
  <2>1. FreezeMove(f) /\ MovedOf(f) /\ AsReadOf(f) /\ FromInputs /\ DOMAIN file = Names
    BY <1>1, EndOfFreeze DEF BundleInv, Moved, AsRead, Placed
  <2>2. pc'[f] = "done" /\ exit'[f] = "0"
    BY DEF Ends
  <2>3. pc[f] = "drop" /\ file' = file
    BY <2>1, <2>2 DEF FreezeMove, Prepared, Checked, Replaced, RolledBack, GaveUp, Left,
                      Stopped, Ended, Stays
  <2>4. /\ file.core = [by |-> f, of |-> Pair]
        /\ file.verdict = [by |-> f, of |-> Pair]
        /\ file.manifest = [by |-> f, sha |-> file.copy, exit |-> CheckOf(Pair).exit]
        /\ file.copy # NoFile /\ file.emitted # NoFile /\ file.prov # NoFile
    <3> HIDE DEF Pair, CheckOf
    <3> QED BY <2>1, <2>3, ThreeFiles DEF MovedOf, AsReadOf, Preparing, BackingUp, Installing
  <2>5. Pair \in (Sources \X Policies) \X Policies /\ CheckOf(Pair).exit \in 0..2
    <3>1. file.emitted \in Sources \X Policies /\ file.copy \in Policies
      BY <2>1, <2>4 DEF FromInputs
    <3>2. CheckOf(Pair) = VerdictOn[file.emitted[1]][file.emitted[2]][file.copy]
      <4> HIDE DEF VerdictOn
      <4> QED BY <2>4 DEF CheckOf, Pair
    <3>3. file.emitted[1] \in Sources /\ file.emitted[2] \in Policies
      BY <3>1
    <3> HIDE DEF VerdictOn, Sources, CheckOf
    <3> QED BY <3>1, <3>2, <3>3, ThreeExits DEF Pair
  <2>6. \A n \in Names : file[n] # NoFile
    <3>1. /\ file.core \in [by : Freezes, of : (Sources \X Policies) \X Policies]
          /\ file.verdict \in [by : Freezes, of : (Sources \X Policies) \X Policies]
      <4> HIDE DEF Pair, Sources
      <4> QED BY <2>4, <2>5
    <3>2. file.manifest \in [by : Freezes, sha : Policies, exit : 0..2]
      <4>1. file.copy \in Policies
        BY <2>1, <2>4 DEF FromInputs
      <4> HIDE DEF Pair, Sources, CheckOf
      <4> QED BY <2>4, <2>5, <4>1
    <3> HIDE DEF Sources, Pair, CheckOf
    <3> QED BY <2>4, <3>1, <3>2, BundleAssumption DEF Names
  <2>7. ReplayExit' = 0
    <3>1. ReplayExit = 0
      <4>1. CheckOf(file.verdict.of) = CheckNow /\ file.manifest.exit = CheckNow.exit
        <5>1. CheckNow = CheckOf(Pair)
          BY DEF CheckNow, Pair
        <5> HIDE DEF Pair, CheckOf, CheckNow
        <5> QED BY <2>4, <5>1
      <4>2. file.copy = file.manifest.sha
        <5> HIDE DEF Pair, CheckOf
        <5> QED BY <2>4
      <4> HIDE DEF CheckOf, CheckNow
      <4> QED BY <2>1, <2>6, <4>1, <4>2 DEF ReplayExit
    <3>2. ReplayExit' = ReplayExit
      BY <2>3 DEF ReplayExit, CheckOf, CheckNow
    <3> QED BY <3>1, <3>2
  <2>8. file'.core.of = file'.verdict.of
    <3> HIDE DEF Pair
    <3> QED BY <2>3, <2>4
  <2> QED BY <2>7, <2>8
<1>2. Spec => [][Step]_vars
  <2> HIDE DEF Step
  <2> QED BY <1>1, BundleInvariant, PTL DEF Spec
<1> QED BY <1>2 DEF FrozenBundleReplays
=============================================================================
