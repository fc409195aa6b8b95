-------------------------- MODULE QuarantineProofs --------------------------
(***************************************************************************)
(* Proofs about conservative reporting, for every term universe, every     *)
(* declared unit and every prune.  The inductive invariant relates the     *)
(* grounded iteration over the checked framework to every complete         *)
(* extension of the reference framework and to every set that contains the *)
(* blocked seed and is closed under the declared edges.                    *)
(***************************************************************************)
EXTENDS Quarantine, FrameworkLemmas

-----------------------------------------------------------------------------
(* The inductive invariant. *)

Checked == {"ground", "close", "publish", "done"}

\* What the prune leaves.
Pruned ==
  stage # "prune" =>
    /\ removed = PolicyLeaves \cup UNION InconsistentGroups
    /\ kept = {i \in Arg : ~ Uses(decl[i], removed)}
    /\ keptAtts = {k \in attacks : KeepsAttack(kept, k)}

\* The nodes and the iteration over them, before and after the check.
Nodes ==
  /\ stage \in Checked => nodes = CompleteNodes
  /\ stage \notin Checked => nodes = {} /\ ext = {} /\ round = 0 /\ blocked = {}

\* A set that a status may be read outside of.
Shield(B) ==
  /\ BlockedSeed \subseteq B /\ B \subseteq Reference
  /\ \A x \in B, y \in Reference : <<x, y>> \in DeclaredEdges => y \in B

\* The iteration never runs ahead of a complete extension outside a shield.
NeverAhead ==
  \A B \in SUBSET Reference, E \in SUBSET Reference :
    Shield(B) /\ Complete(Reference, ReferenceEdges, E) => ext \ B \subseteq E

\* The iteration is sound for the checked framework and makes progress.
Iterated ==
  /\ Admissible(nodes, CheckedEdges, ext)
  /\ ext = CharStep(nodes, CheckedEdges, ext) \/ Cardinality(ext) >= round
  /\ stage \in {"close", "publish", "done"} => round = Cardinality(nodes)

\* The closure holds the seed from the start and is a shield once it is stable.
Closing ==
  /\ stage = "close" => BlockedSeed \subseteq blocked
  /\ stage \in {"publish", "done"} => Shield(blocked)

Published ==
  stage = "done" =>
    public = [q \in Query |->
       <<IF BlockedQuery(q) THEN "evidence-blocked" ELSE "published",
         ConditionalStatus(q)>>]

IInv ==
  /\ TypeOK /\ Pruned /\ Nodes /\ Iterated /\ Closing /\ Published
  /\ stage \in Checked => NeverAhead

-----------------------------------------------------------------------------
(* The two frameworks. *)

\* More attacks, more edges.
LEMMA EdgesMonotone ==
  ASSUME NEW X, NEW Y, X \subseteq Y
  PROVE  EdgesOf(X) \subseteq EdgesOf(Y)
<1>1. Resolved(X) \subseteq Resolved(Y)
  BY DEF Resolved
<1> QED
  BY <1>1 DEF EdgesOf, Covered

\* Retained edges are declared ones.
LEMMA RetainedIsDeclared == TypeOK => RetainedEdges \subseteq DeclaredEdges
BY EdgesMonotone DEF TypeOK, RetainedEdges, DeclaredEdges

\* A checked node is a node of the reference framework.
LEMMA NodesInReference == TypeOK => nodes \subseteq Reference
BY DEF TypeOK, Reference

\* The framework that is grounded is finite.
LEMMA NodesFinite ==
  TypeOK => IsFiniteSet(nodes) /\ Cardinality(nodes) \in Nat
BY ArgAssumption, FS_Subset, FS_CardinalityType DEF TypeOK

\* Edges are between declared arguments.
LEMMA EdgesInArg == DeclaredEdges \subseteq Arg \X Arg
BY DEF DeclaredEdges, EdgesOf

\* Outside a shield the two frameworks agree: an attack on an argument outside
\* it comes from a checked node outside it, along a retained edge.
LEMMA ShieldAgrees ==
  ASSUME TypeOK, NEW B, Shield(B), NEW a \in Reference \ B,
         NEW b \in Reference, <<b, a>> \in DeclaredEdges
  PROVE  a \in nodes /\ b \in nodes \ B /\ <<b, a>> \in CheckedEdges
<1>1. b \notin B
  BY DEF Shield
<1>2. a \in nodes /\ b \in nodes
  BY <1>1 DEF Shield, BlockedSeed, MissingNodes
<1>3. a \notin LostEdges
  BY DEF Shield, BlockedSeed
<1> QED
  BY <1>1, <1>2, <1>3 DEF LostEdges, CheckedEdges

\* The checked edges are edges of the reinstated program.
LEMMA CheckedIsReference ==
  TypeOK => CheckedEdges \subseteq ReferenceEdges
BY RetainedIsDeclared, NodesInReference DEF CheckedEdges, ReferenceEdges

\* One round keeps the iteration behind every complete extension.
LEMMA RoundNeverAhead ==
  ASSUME TypeOK, NeverAhead
  PROVE  \A B \in SUBSET Reference, E \in SUBSET Reference :
           Shield(B) /\ Complete(Reference, ReferenceEdges, E) =>
             CharStep(nodes, CheckedEdges, ext) \ B \subseteq E
<1> SUFFICES ASSUME NEW B \in SUBSET Reference, NEW E \in SUBSET Reference,
                    Shield(B), Complete(Reference, ReferenceEdges, E),
                    NEW a \in CharStep(nodes, CheckedEdges, ext) \ B
             PROVE  a \in E
  OBVIOUS
<1>1. a \in nodes /\ a \in Reference /\ Defended(nodes, CheckedEdges, ext, a)
  BY NodesInReference DEF CharStep
<1>2. Defended(Reference, ReferenceEdges, E, a)
  <2> SUFFICES ASSUME NEW b \in Reference, <<b, a>> \in ReferenceEdges
               PROVE  \E c \in E : <<c, b>> \in ReferenceEdges
    BY DEF Defended
  <2>1. b \in nodes \ B /\ <<b, a>> \in CheckedEdges
    BY <1>1, ShieldAgrees DEF ReferenceEdges
  <2>2. PICK c \in ext : <<c, b>> \in CheckedEdges
    BY <1>1, <2>1 DEF Defended
  <2>3. c \in Reference /\ <<c, b>> \in ReferenceEdges
    BY <2>2, CheckedIsReference, NodesInReference DEF CheckedEdges
  <2>4. c \notin B
    BY <2>1, <2>3 DEF Shield, ReferenceEdges
  <2>5. c \in E
    BY <2>2, <2>4 DEF NeverAhead
  <2> QED
    BY <2>3, <2>5
<1> QED
  BY <1>1, <1>2 DEF Complete

-----------------------------------------------------------------------------
(* The steps. *)

\* While the unit stays, so does all that is computed from it.
LEMMA UnitUnchanged ==
  ASSUME UNCHANGED unit
  PROVE  /\ decl' = decl /\ attacks' = attacks /\ gamma' = gamma /\ groups' = groups
         /\ reject' = reject /\ seed' = seed /\ result' = result
         /\ InconsistentGroups' = InconsistentGroups /\ PolicyLeaves' = PolicyLeaves
         /\ DeclaredEdges' = DeclaredEdges
BY DEF unit, InconsistentGroups, GroupConsistent, PolicyLeaves, DeclaredEdges, EdgesOf,
       Resolved, Covered, AttackClosure

\* Once the nodes are fixed, so are both frameworks and the shields.
LEMMA FrameworksUnchanged ==
  ASSUME UNCHANGED <<unit, removed, kept, keptAtts, nodes>>
  PROVE  /\ Reference' = Reference
         /\ RetainedEdges' = RetainedEdges /\ CheckedEdges' = CheckedEdges
         /\ ReferenceEdges' = ReferenceEdges
         /\ BlockedSeed' = BlockedSeed
         /\ CompleteNodes' = CompleteNodes
         /\ \A B : Shield(B)' <=> Shield(B)
<1>1. UNCHANGED unit /\ kept' = kept /\ keptAtts' = keptAtts /\ nodes' = nodes
  OBVIOUS
<1>2. Reference' = Reference /\ RetainedEdges' = RetainedEdges
  BY <1>1, UnitUnchanged DEF Reference, RetainedEdges, EdgesOf, Resolved
<1>3. CheckedEdges' = CheckedEdges /\ ReferenceEdges' = ReferenceEdges
  BY <1>1, <1>2, UnitUnchanged DEF CheckedEdges, ReferenceEdges
<1>4. BlockedSeed' = BlockedSeed
  BY <1>1, <1>2, UnitUnchanged DEF BlockedSeed, MissingNodes, LostEdges
<1>5. CompleteNodes' = CompleteNodes
  BY <1>1, UnitUnchanged DEF CompleteNodes
<1>6. \A B : Shield(B)' <=> Shield(B)
  BY <1>2, <1>4, UnitUnchanged DEF Shield
<1> QED
  BY <1>2, <1>3, <1>4, <1>5, <1>6

\* A step after the check that leaves the iteration alone.
LEMMA NeverAheadUnchanged ==
  ASSUME UNCHANGED <<unit, removed, kept, keptAtts, nodes, ext>>, NeverAhead
  PROVE  NeverAhead'
BY FrameworksUnchanged DEF NeverAhead

\* The invariant holds at the start.
LEMMA InitIInv == Init => IInv
<1> SUFFICES ASSUME Init PROVE IInv
  OBVIOUS
<1>1. Cardinality({}) = 0
  BY FS_EmptySet
<1>2. TypeOK
  BY <1>1, DeclAssumption DEF Init, TypeOK, Inference, Statuses
<1>3. Admissible(nodes, CheckedEdges, ext)
  BY EmptyAdmissible DEF Init
<1> QED
  BY <1>1, <1>2, <1>3 DEF Init, IInv, Pruned, Nodes, Iterated, Closing, Published, Checked

\* A status is one of the four.
LEMMA StatusType ==
  ASSUME NEW f, NEW s
  PROVE  StatusWith(f, s) \in Statuses
BY DEF StatusWith, Statuses

\* Pruning keeps it.
LEMMA PruneIInv == IInv /\ PruneUnit => IInv'
<1> SUFFICES ASSUME IInv, PruneUnit PROVE IInv'
  OBVIOUS
<1>1. /\ stage = "prune" /\ stage' = "groups" /\ UNCHANGED unit
      /\ nodes = {} /\ ext = {} /\ round = 0 /\ blocked = {}
      /\ nodes' = {} /\ ext' = {} /\ round' = 0 /\ blocked' = {} /\ public' = public
  BY DEF PruneUnit, IInv, Nodes, Checked
<1>2. removed' \subseteq LeafId
  BY DEF PruneUnit, IInv, TypeOK, PolicyLeaves, InconsistentGroups
<1>3. kept' \subseteq Arg /\ keptAtts' \subseteq attacks
  BY DEF PruneUnit
<1>4. TypeOK'
  BY <1>1, <1>2, <1>3, UnitUnchanged, FS_EmptySet DEF IInv, TypeOK
<1>5. Pruned'
  BY <1>1, UnitUnchanged DEF PruneUnit, Pruned, Uses, Leaves, KeepsAttack
<1>6. Iterated'
  BY <1>1, EmptyAdmissible, FS_EmptySet DEF Iterated, IInv
<1> QED
  BY <1>1, <1>4, <1>5, <1>6 DEF IInv, Nodes, Closing, Published, Checked

\* A step before the check that only moves the stage on.
LEMMA QuietIInv ==
  ASSUME IInv, stage \notin Checked, stage' \notin Checked, stage # "prune",
         stage' \in {"groups", "check", "reject"},
         UNCHANGED <<unit, removed, kept, keptAtts, nodes, ext, round, blocked, public>>
  PROVE  IInv'
<1>1. /\ UNCHANGED unit /\ removed' = removed /\ kept' = kept /\ keptAtts' = keptAtts
      /\ nodes' = nodes /\ ext' = ext /\ round' = round /\ blocked' = blocked
      /\ public' = public /\ nodes = {} /\ ext = {} /\ round = 0 /\ blocked = {}
  BY DEF IInv, Nodes
<1>2. TypeOK'
  BY <1>1, UnitUnchanged DEF IInv, TypeOK
<1>3. Pruned'
  BY <1>1, UnitUnchanged DEF IInv, Pruned, Uses, Leaves, KeepsAttack
<1>4. Iterated'
  BY <1>1, EmptyAdmissible, FS_EmptySet DEF IInv, Iterated, Checked
<1> QED
  BY <1>1, <1>2, <1>3, <1>4 DEF IInv, Nodes, Closing, Published, Checked

\* An accepting check keeps it.
LEMMA CheckAcceptsIInv == IInv /\ CheckAccepts => IInv'
<1> SUFFICES ASSUME IInv, CheckAccepts PROVE IInv'
  OBVIOUS
<1>1. /\ stage = "check" /\ stage' = "ground" /\ UNCHANGED unit
      /\ removed' = removed /\ kept' = kept /\ keptAtts' = keptAtts
      /\ nodes' = CompleteNodes /\ public' = public
      /\ ext = {} /\ round = 0 /\ blocked = {}
      /\ ext' = {} /\ round' = 0 /\ blocked' = {}
  BY DEF CheckAccepts, IInv, Nodes, Checked
<1>2. nodes' \subseteq kept /\ CompleteNodes' = CompleteNodes
  BY <1>1, UnitUnchanged DEF CompleteNodes
<1>3. IsFiniteSet(nodes') /\ Cardinality(nodes') \in Nat
  BY <1>2, ArgAssumption, FS_Subset, FS_CardinalityType DEF IInv, TypeOK
<1>4. TypeOK'
  BY <1>1, <1>2, <1>3, UnitUnchanged DEF IInv, TypeOK
<1>5. Pruned'
  BY <1>1, UnitUnchanged DEF IInv, Pruned, Uses, Leaves, KeepsAttack
<1>6. Iterated'
  BY <1>1, <1>3, EmptyAdmissible, FS_EmptySet DEF Iterated
<1>7. NeverAhead'
  BY <1>1 DEF NeverAhead
<1> QED
  BY <1>1, <1>2, <1>4, <1>5, <1>6, <1>7 DEF IInv, Nodes, Closing, Published, Checked

\* A round of the checked iteration keeps it.
LEMMA GroundIInv == IInv /\ Ground => IInv'
<1> SUFFICES ASSUME IInv, Ground PROVE IInv'
  OBVIOUS
<1>1. /\ stage = "ground" /\ stage' = stage /\ UNCHANGED unit
      /\ removed' = removed /\ kept' = kept /\ keptAtts' = keptAtts /\ nodes' = nodes
      /\ ext' = CharStep(nodes, CheckedEdges, ext)
      /\ round < Cardinality(nodes) /\ round' = round + 1
      /\ blocked' = blocked /\ public' = public
  BY DEF Ground
<1>2. IsFiniteSet(nodes) /\ Cardinality(nodes) \in Nat /\ ext \in SUBSET nodes
      /\ round \in Nat
  BY NodesFinite DEF IInv, TypeOK
<1>3. TypeOK'
  <2>1. ext' \subseteq nodes'
    BY <1>1 DEF CharStep
  <2>2. round' \in 0..Cardinality(nodes')
    BY <1>1, <1>2
  <2>3. Reference' = Reference
    BY <1>1, FrameworksUnchanged
  <2> QED
    BY <1>1, <2>1, <2>2, <2>3, UnitUnchanged DEF IInv, TypeOK
<1>4. Pruned'
  BY <1>1, UnitUnchanged DEF IInv, Pruned, Uses, Leaves, KeepsAttack
<1>5. Iterated'
  <2>1. CheckedEdges' = CheckedEdges
    BY <1>1, FrameworksUnchanged
  <2>2. Admissible(nodes, CheckedEdges, ext')
    BY <1>1, CharStepAdmissible DEF IInv, Iterated
  <2>3. ext' = CharStep(nodes, CheckedEdges, ext') \/ Cardinality(ext') >= round'
    BY <1>1, <1>2, RoundProgress DEF IInv, Iterated
  <2> QED
    BY <1>1, <2>1, <2>2, <2>3 DEF Iterated
<1>6. NeverAhead'
  <2>1. \A B \in SUBSET Reference, E \in SUBSET Reference :
          Shield(B) /\ Complete(Reference, ReferenceEdges, E) => ext' \ B \subseteq E
    BY <1>1, RoundNeverAhead DEF IInv, Checked
  <2> QED
    BY <1>1, <2>1, FrameworksUnchanged DEF NeverAhead
<1>7. Nodes'
  BY <1>1, FrameworksUnchanged DEF IInv, Nodes, Checked
<1> QED
  BY <1>1, <1>3, <1>4, <1>5, <1>6, <1>7 DEF IInv, Closing, Published

\* The seed lies inside the reference framework.
LEMMA SeedInReference == TypeOK => BlockedSeed \subseteq Reference
BY NodesInReference DEF BlockedSeed, MissingNodes, LostEdges

\* The fast path drops nothing, so there is nothing to seed the closure with.
LEMMA FastPathSeed ==
  ASSUME TypeOK, nodes = CompleteNodes, FastPath
  PROVE  BlockedSeed = {}
<1>1. Reference = nodes
  BY DEF FastPath, Reference, TypeOK
<1>2. RetainedEdges = DeclaredEdges
  BY DEF FastPath, RetainedEdges, DeclaredEdges
<1> QED
  BY <1>1, <1>2 DEF BlockedSeed, MissingNodes, LostEdges

\* The seed of the closure keeps it.
LEMMA StartClosureIInv == IInv /\ StartClosure => IInv'
<1> SUFFICES ASSUME IInv, StartClosure PROVE IInv'
  OBVIOUS
<1>1. /\ stage = "ground" /\ stage' \in {"close", "publish"} /\ UNCHANGED unit
      /\ removed' = removed /\ kept' = kept /\ keptAtts' = keptAtts /\ nodes' = nodes
      /\ ext' = ext /\ round' = round /\ round = Cardinality(nodes) /\ public' = public
  BY DEF StartClosure
<1>2. Reference' = Reference /\ BlockedSeed' = BlockedSeed /\ CheckedEdges' = CheckedEdges
      /\ \A B : Shield(B)' <=> Shield(B)
  BY <1>1, FrameworksUnchanged
<1>3. blocked' \subseteq Reference
  BY DEF StartClosure
<1>4. TypeOK'
  BY <1>1, <1>2, <1>3, UnitUnchanged DEF IInv, TypeOK
<1>5. Pruned'
  BY <1>1, UnitUnchanged DEF IInv, Pruned, Uses, Leaves, KeepsAttack
<1>6. Iterated' /\ Nodes' /\ NeverAhead'
  BY <1>1, <1>2, FrameworksUnchanged, NeverAheadUnchanged
     DEF IInv, Iterated, Nodes, Checked
<1>7. Closing'
  <2>1. CASE FastPath
    <3>1. blocked' = {} /\ stage' = "publish"
      BY <2>1 DEF StartClosure
    <3>2. BlockedSeed = {}
      BY <1>1, <2>1, FastPathSeed DEF IInv, Nodes, Checked
    <3>3. Shield({})
      BY <3>2 DEF Shield
    <3>4. Shield({})'
      BY <3>3, <1>2
    <3> QED
      BY <3>1, <3>4 DEF Closing, Shield
  <2>2. CASE ~ FastPath
    <3>1. blocked' = BlockedSeed \cap Reference /\ stage' = "close"
      BY <2>2 DEF StartClosure
    <3> QED
      BY <1>2, <3>1, SeedInReference DEF IInv, Closing
  <2> QED
    BY <2>1, <2>2
<1> QED
  BY <1>1, <1>4, <1>5, <1>6, <1>7 DEF IInv, Published, Checked

\* A round of the closure keeps it.
LEMMA CloseIInv == IInv /\ Close => IInv'
<1> SUFFICES ASSUME IInv, Close PROVE IInv'
  OBVIOUS
<1>1. /\ stage = "close" /\ stage' \in {"close", "publish"} /\ UNCHANGED unit
      /\ removed' = removed /\ kept' = kept /\ keptAtts' = keptAtts /\ nodes' = nodes
      /\ ext' = ext /\ round' = round /\ public' = public
      /\ blocked' = ClosureStep(Reference, DeclaredEdges, blocked)
      /\ stage' = "publish" => blocked' = blocked
  BY DEF Close, CloseOver
<1>2. Reference' = Reference /\ BlockedSeed' = BlockedSeed /\ CheckedEdges' = CheckedEdges
      /\ \A B : Shield(B)' <=> Shield(B)
  BY <1>1, FrameworksUnchanged
<1>3. blocked' \subseteq Reference /\ blocked \subseteq blocked'
  BY <1>1 DEF ClosureStep, IInv, TypeOK
<1>4. TypeOK'
  BY <1>1, <1>2, <1>3, UnitUnchanged DEF IInv, TypeOK
<1>5. Pruned'
  BY <1>1, UnitUnchanged DEF IInv, Pruned, Uses, Leaves, KeepsAttack
<1>6. Iterated' /\ Nodes' /\ NeverAhead'
  BY <1>1, <1>2, FrameworksUnchanged, NeverAheadUnchanged
     DEF IInv, Iterated, Nodes, Checked
<1>7. Closing'
  <2>1. BlockedSeed \subseteq blocked
    BY <1>1 DEF IInv, Closing
  <2>2. CASE stage' = "close"
    BY <1>2, <1>3, <2>1, <2>2 DEF Closing
  <2>3. CASE stage' = "publish"
    <3>1. blocked' = blocked /\ blocked = ClosureStep(Reference, DeclaredEdges, blocked)
      BY <1>1, <2>3
    <3>2. Shield(blocked)
      BY <1>3, <2>1, <3>1 DEF Shield, ClosureStep
    <3> QED
      BY <1>2, <2>3, <3>1, <3>2 DEF Closing, Shield
  <2> QED
    BY <1>1, <2>2, <2>3
<1> QED
  BY <1>1, <1>4, <1>5, <1>6, <1>7 DEF IInv, Published, Checked

\* Publication keeps it.
LEMMA PublishIInv == IInv /\ Publish => IInv'
<1> SUFFICES ASSUME IInv, Publish PROVE IInv'
  OBVIOUS
<1>1. /\ stage = "publish" /\ stage' = "done" /\ UNCHANGED unit
      /\ removed' = removed /\ kept' = kept /\ keptAtts' = keptAtts /\ nodes' = nodes
      /\ ext' = ext /\ round' = round /\ blocked' = blocked
  BY DEF Publish
<1>2. Reference' = Reference /\ BlockedSeed' = BlockedSeed /\ CheckedEdges' = CheckedEdges
      /\ \A B : Shield(B)' <=> Shield(B)
  BY <1>1, FrameworksUnchanged
<1>3. public' \in [Query -> {"none", "published", "evidence-blocked"} \X Statuses]
  BY StatusType DEF Publish, ConditionalStatus
<1>4. TypeOK'
  BY <1>1, <1>2, <1>3, UnitUnchanged DEF IInv, TypeOK
<1>5. Pruned'
  BY <1>1, UnitUnchanged DEF IInv, Pruned, Uses, Leaves, KeepsAttack
<1>6. Iterated' /\ Nodes' /\ NeverAhead'
  BY <1>1, <1>2, FrameworksUnchanged, NeverAheadUnchanged
     DEF IInv, Iterated, Nodes, Checked
<1>7. Closing'
  BY <1>1, <1>2 DEF IInv, Closing, Shield
<1>8. Published'
  <2>1. \A q : Support(q)' = Support(q)
    BY <1>1, UnitUnchanged DEF Support
  <2>2. \A q : ConditionalStatus(q)' = ConditionalStatus(q)
    BY <1>1, <1>2, <2>1 DEF ConditionalStatus
  <2>3. \A q : BlockedQuery(q)' <=> BlockedQuery(q)
    BY <1>1, <2>1 DEF BlockedQuery
  <2> QED
    BY <2>2, <2>3 DEF Published, Publish
<1> QED
  BY <1>1, <1>4, <1>5, <1>6, <1>7, <1>8 DEF IInv, Checked

\* Every step keeps it.
LEMMA StepIInv == IInv /\ [Next]_vars => IInv'
<1> SUFFICES ASSUME IInv, [Next]_vars PROVE IInv'
  OBVIOUS
<1>1. CASE GroupBoundary
  BY <1>1, QuietIInv DEF GroupBoundary, Checked
<1>2. CASE CheckRejects
  BY <1>2, QuietIInv DEF CheckRejects, Checked
<1>3. CASE UNCHANGED vars
  <2>1. /\ UNCHANGED <<unit, removed, kept, keptAtts, nodes, ext>>
        /\ UNCHANGED unit
        /\ stage' = stage /\ removed' = removed /\ kept' = kept /\ keptAtts' = keptAtts
        /\ nodes' = nodes /\ ext' = ext /\ round' = round /\ blocked' = blocked
        /\ public' = public
    BY <1>3 DEF vars
  <2>2. Reference' = Reference /\ BlockedSeed' = BlockedSeed /\ CheckedEdges' = CheckedEdges
        /\ CompleteNodes' = CompleteNodes /\ \A B : Shield(B)' <=> Shield(B)
    BY <2>1, FrameworksUnchanged
  <2>3. TypeOK' /\ Pruned'
    BY <2>1, <2>2, UnitUnchanged DEF IInv, TypeOK, Pruned, Uses, Leaves, KeepsAttack
  <2>4. Nodes' /\ Iterated' /\ (stage \in Checked => NeverAhead')
    BY <2>1, <2>2, NeverAheadUnchanged DEF IInv, Nodes, Iterated
  <2>5. Closing'
    BY <2>1, <2>2 DEF IInv, Closing, Shield
  <2>6. Published'
    <3>1. \A q : Support(q)' = Support(q)
      BY <2>1, UnitUnchanged DEF Support
    <3>2. \A q : ConditionalStatus(q)' = ConditionalStatus(q)
      BY <2>1, <2>2, <3>1 DEF ConditionalStatus
    <3>3. \A q : BlockedQuery(q)' <=> BlockedQuery(q)
      BY <2>1, <3>1 DEF BlockedQuery
    <3> QED
      BY <2>1, <3>2, <3>3 DEF IInv, Published
  <2> QED
    BY <2>1, <2>3, <2>4, <2>5, <2>6 DEF IInv
<1> QED
  BY <1>1, <1>2, <1>3, PruneIInv, CheckAcceptsIInv, GroundIInv, StartClosureIInv,
     CloseIInv, PublishIInv DEF Next

\* The inductive invariant holds of every check of a pruned unit.
THEOREM InductiveInvariant == Spec => []IInv
BY InitIInv, StepIInv, PTL DEF Spec

-----------------------------------------------------------------------------
(* What the invariant gives. *)

\* What is published of a query once the check is over.
LEMMA PublishedQuery ==
  ASSUME IInv, stage = "done", NEW q \in Query, public[q][1] = "published"
  PROVE  public[q][2] = ConditionalStatus(q) /\ Support(q) \cap blocked = {}
BY DEF IInv, Published, BlockedQuery

\* It implies that a block promotes nothing.
LEMMA NonPromotionFromIInv == IInv => JustifiedNonPromotion
<1> SUFFICES ASSUME IInv, stage = "done", NEW q \in Query,
                    public[q] = <<"published", "justified">>,
                    NEW E \in SUBSET Reference, Complete(Reference, ReferenceEdges, E)
             PROVE  ReferenceSupport(q) \cap E # {}
  BY DEF JustifiedNonPromotion
<1>1. ConditionalStatus(q) = "justified" /\ Support(q) \cap blocked = {}
  BY PublishedQuery
<1> DEFINE label == [i \in nodes |-> LabelWith(nodes, CheckedEdges, ext, i)]
<1>2. PICK i \in Support(q) : label[i] = "in"
  BY <1>1 DEF ConditionalStatus, StatusWith
<1>3. i \in nodes /\ i \in ext \ blocked
  BY <1>1, <1>2 DEF Support, LabelWith
<1>4. i \in E
  BY <1>3 DEF IInv, NeverAhead, Closing, Checked, Shield
<1>5. i \in ReferenceSupport(q)
  BY <1>2, NodesInReference
     DEF IInv, TypeOK, Nodes, Checked, CompleteNodes, Support, ReferenceSupport
<1> QED
  BY <1>4, <1>5

\* Outside a shield the grounded extension and the least complete extension of
\* the reference framework are the same.
LEMMA SameOutsideShield ==
  ASSUME IInv, stage = "done", NEW E \in SUBSET Reference,
         LeastComplete(Reference, ReferenceEdges, E)
  PROVE  ext \ blocked = E \ blocked
<1>1. Shield(blocked) /\ NeverAhead /\ TypeOK
  BY DEF IInv, Closing, Checked
<1>2. ext \ blocked \subseteq E
  BY <1>1 DEF NeverAhead, LeastComplete, Shield
<1>3. CharStep(nodes, CheckedEdges, ext) = ext
  BY NodesFinite, BoundSuffices DEF IInv, TypeOK, Iterated
<1> DEFINE P == ext \cup blocked
<1>4. P \in SUBSET Reference
  BY <1>1, NodesInReference DEF TypeOK
<1>5. CharStep(Reference, ReferenceEdges, P) \subseteq P
  <2> SUFFICES ASSUME NEW a \in CharStep(Reference, ReferenceEdges, P), a \notin blocked
               PROVE  a \in ext
    OBVIOUS
  <2>1. a \in Reference \ blocked /\ Defended(Reference, ReferenceEdges, P, a)
    BY DEF CharStep
  <2>2. a \in nodes
    BY <1>1, <2>1 DEF Shield, BlockedSeed, MissingNodes
  <2>3. Defended(nodes, CheckedEdges, ext, a)
    <3> SUFFICES ASSUME NEW b \in nodes, <<b, a>> \in CheckedEdges
                 PROVE  \E c \in ext : <<c, b>> \in CheckedEdges
      BY DEF Defended
    <3>1. b \in Reference /\ <<b, a>> \in ReferenceEdges /\ <<b, a>> \in DeclaredEdges
      BY <1>1, NodesInReference, CheckedIsReference DEF ReferenceEdges
    <3>2. b \in Reference \ blocked
      BY <1>1, <2>1, <3>1, ShieldAgrees
    <3>3. PICK c \in P : <<c, b>> \in ReferenceEdges
      BY <2>1, <3>1 DEF Defended
    <3>4. c \in nodes \ blocked /\ <<c, b>> \in CheckedEdges
      BY <1>1, <3>2, <3>3, ShieldAgrees DEF ReferenceEdges
    <3> QED
      BY <3>3, <3>4
  <2> QED
    BY <1>3, <2>2, <2>3 DEF CharStep
<1>6. E \subseteq P
  BY <1>4, <1>5, LeastCompleteWithin
<1> QED
  BY <1>2, <1>6

\* It implies that statuses outside the block are exact.
LEMMA UnblockedFromIInv == IInv => UnblockedStatusExact
<1> SUFFICES ASSUME IInv, stage = "done", NEW q \in Query,
                    public[q][1] = "published", Support(q) = ReferenceSupport(q),
                    NEW E \in SUBSET Reference,
                    LeastComplete(Reference, ReferenceEdges, E)
             PROVE  public[q][2] =
                      StatusWith([i \in Reference |->
                                    LabelWith(Reference, ReferenceEdges, E, i)],
                                 ReferenceSupport(q))
  BY DEF UnblockedStatusExact
<1> DEFINE f == [i \in nodes |-> LabelWith(nodes, CheckedEdges, ext, i)]
           g == [i \in Reference |-> LabelWith(Reference, ReferenceEdges, E, i)]
<1>1. TypeOK /\ Shield(blocked) /\ ext \subseteq nodes
  BY DEF IInv, Closing, TypeOK
<1>2. public[q][2] = StatusWith(f, Support(q)) /\ Support(q) \cap blocked = {}
  BY PublishedQuery DEF ConditionalStatus
<1>3. \A i \in Support(q) : f[i] = g[i]
  <2> SUFFICES ASSUME NEW i \in Support(q) PROVE f[i] = g[i]
    OBVIOUS
  <2>1. i \in nodes /\ i \in Reference \ blocked
    BY <1>1, <1>2, NodesInReference DEF Support
  <2>2. i \in ext <=> i \in E
    BY <2>1, SameOutsideShield
  <2>3. ASSUME NEW c \in nodes \cap ext, <<c, i>> \in CheckedEdges
        PROVE  c \in Reference \cap E /\ <<c, i>> \in ReferenceEdges
    <3>1. c \in Reference /\ <<c, i>> \in ReferenceEdges /\ <<c, i>> \in DeclaredEdges
      BY <1>1, <2>3, NodesInReference, CheckedIsReference DEF ReferenceEdges
    <3>2. c \notin blocked
      BY <1>1, <2>1, <3>1, ShieldAgrees
    <3> QED
      BY <3>1, <3>2, SameOutsideShield
  <2>4. ASSUME NEW c \in Reference \cap E, <<c, i>> \in ReferenceEdges
        PROVE  c \in nodes \cap ext /\ <<c, i>> \in CheckedEdges
    <3>1. c \in nodes \ blocked /\ <<c, i>> \in CheckedEdges
      BY <1>1, <2>1, <2>4, ShieldAgrees DEF ReferenceEdges
    <3> QED
      BY <3>1, SameOutsideShield
  <2>5. (\E c \in nodes \cap ext : <<c, i>> \in CheckedEdges)
          <=> \E c \in Reference \cap E : <<c, i>> \in ReferenceEdges
    BY <2>3, <2>4
  <2> QED
    BY <2>1, <2>2, <2>5 DEF LabelWith
<1> HIDE DEF f, g
<1>4. StatusWith(f, Support(q)) = StatusWith(g, Support(q))
  BY <1>3 DEF StatusWith
<1> QED
  BY <1>2, <1>4 DEF g

\* It implies that no surviving argument or attack rests on a conflicting group.
LEMMA QuarantineTotalFromIInv == IInv => QuarantineTotal
<1> SUFFICES ASSUME IInv, stage \in {"ground", "close", "publish", "done"},
                    NEW g \in groups,
                    \E m, n \in g : gamma[m] = NoProp \/ gamma[m] # gamma[n]
             PROVE  /\ \A i \in nodes : Leaves(decl[i]) \cap g = {}
                    /\ \A k \in keptAtts : \A i \in {k.src, k.tgt} :
                         Leaves(decl[i]) \cap g = {}
  BY DEF QuarantineTotal
<1>1. g \subseteq removed
  BY DEF IInv, Pruned, InconsistentGroups, GroupConsistent
<1>2. \A i \in kept : Leaves(decl[i]) \cap g = {}
  BY <1>1 DEF IInv, Pruned, Uses
<1>3. nodes \subseteq kept
  BY DEF IInv, TypeOK
<1>4. \A k \in keptAtts : {k.src, k.tgt} \subseteq kept
  BY DEF IInv, Pruned, KeepsAttack
<1> QED
  BY <1>2, <1>3, <1>4

\* It implies that the fast path is taken only where nothing would be blocked.
LEMMA FastPathFromIInv == IInv => FastPathExact
BY FastPathSeed DEF IInv, Nodes, Checked, FastPathExact

-----------------------------------------------------------------------------
(* Every step brings the end nearer. *)

\* The steps a check has left at most.
StepsLeft ==
  LET n == Cardinality(Arg)
  IN CASE stage = "prune"   -> 2 * n + 6
       [] stage = "groups"  -> 2 * n + 5
       [] stage = "check"   -> 2 * n + 4
       [] stage = "ground"  -> n + 3 + (Cardinality(nodes) - round)
       [] stage = "close"   -> 2 + Cardinality(Reference \ blocked)
       [] stage = "publish" -> 1
       [] OTHER             -> 0

\* Every step brings the end nearer, the rounds of the closure included: none
\* is made again, and none leaves the closure what it was and goes on.
RunsDown == [][StepsLeft' \in Nat /\ StepsLeft' < StepsLeft]_vars

\* Parts of the declared arguments and their sizes.
LEMMA PartSizes ==
  ASSUME NEW S, S \subseteq Arg
  PROVE  IsFiniteSet(S) /\ Cardinality(S) \in Nat /\ Cardinality(S) <= Cardinality(Arg)
BY ArgAssumption, FS_Subset, FS_CardinalityType

\* A round of the closure that is not the last adds to what is blocked.
LEMMA CloseDescends ==
  ASSUME IInv, Close
  PROVE  StepsLeft' \in Nat /\ StepsLeft' < StepsLeft
<1>1. /\ stage = "close" /\ blocked' = CloseOver
      /\ stage' = IF blocked' = blocked THEN "publish" ELSE "close"
      /\ UNCHANGED <<unit, removed, kept, keptAtts, nodes>>
  BY DEF Close
<1>2. Reference' = Reference
  BY <1>1, FrameworksUnchanged
<1>3. blocked \subseteq Reference /\ Reference \subseteq Arg
  BY DEF IInv, TypeOK, Reference
<1>4. blocked \subseteq blocked' /\ blocked' \subseteq Reference
  BY <1>1, <1>3 DEF CloseOver, ClosureStep
<1> DEFINE open == Reference \ blocked
           left == Reference \ blocked'
<1>5. /\ IsFiniteSet(open) /\ Cardinality(open) \in Nat
      /\ IsFiniteSet(left) /\ Cardinality(left) \in Nat
  <2>1. open \subseteq Arg /\ left \subseteq Arg
    BY <1>3
  <2> QED BY <2>1, PartSizes
<1>6. StepsLeft = 2 + Cardinality(open)
  BY <1>1 DEF StepsLeft
<1>7. CASE blocked' = blocked
  <2>1. StepsLeft' = 1
    BY <1>1, <1>7 DEF StepsLeft
  <2> HIDE DEF open
  <2> QED BY <1>5, <1>6, <2>1
<1>8. CASE blocked' # blocked
  <2>1. StepsLeft' = 2 + Cardinality(left)
    BY <1>1, <1>2, <1>8 DEF StepsLeft
  <2>2. left \subseteq open /\ left # open
    BY <1>3, <1>4, <1>8
  <2>3. Cardinality(left) <= Cardinality(open) /\ Cardinality(left) # Cardinality(open)
    <3> HIDE DEF left, open
    <3> QED BY <1>5, <2>2, FS_Subset
  <2> HIDE DEF left, open
  <2> QED BY <1>5, <1>6, <2>1, <2>3
<1> QED BY <1>7, <1>8

\* Each step of the others is made once, a round of the grounded iteration once
\* for each node.
LEMMA StepDescends ==
  ASSUME IInv, IInv', Next
  PROVE  StepsLeft' \in Nat /\ StepsLeft' < StepsLeft
<1> DEFINE n == Cardinality(Arg)
<1>1. n \in Nat
  BY PartSizes
<1>2. /\ nodes \subseteq Arg /\ nodes' \subseteq Arg
      /\ round \in 0 .. Cardinality(nodes) /\ round' \in 0 .. Cardinality(nodes')
  BY DEF IInv, TypeOK
<1>3. /\ Cardinality(nodes) \in Nat /\ Cardinality(nodes) <= n
      /\ Cardinality(nodes') \in Nat /\ Cardinality(nodes') <= n
  BY <1>2, PartSizes
<1>4. /\ round \in Nat /\ round <= Cardinality(nodes)
      /\ round' \in Nat /\ round' <= Cardinality(nodes')
  BY <1>2, <1>3
<1> HIDE DEF n
<1>5. CASE PruneUnit
  <2>1. StepsLeft = 2 * n + 6 /\ StepsLeft' = 2 * n + 5
    BY <1>5 DEF PruneUnit, StepsLeft, n
  <2> QED BY <1>1, <2>1
<1>6. CASE GroupBoundary
  <2>1. StepsLeft = 2 * n + 5 /\ StepsLeft' \in {2 * n + 4, 0}
    BY <1>6 DEF GroupBoundary, StepsLeft, n
  <2> QED BY <1>1, <2>1
<1>7. CASE CheckAccepts
  <2>1. StepsLeft = 2 * n + 4 /\ StepsLeft' = n + 3 + (Cardinality(nodes') - round')
    BY <1>7 DEF CheckAccepts, StepsLeft, n
  <2> QED BY <1>1, <1>3, <1>4, <2>1
<1>8. CASE CheckRejects
  <2>1. StepsLeft = 2 * n + 4 /\ StepsLeft' = 0
    BY <1>8 DEF CheckRejects, StepsLeft, n
  <2> QED BY <1>1, <2>1
<1>9. CASE Ground
  <2>1. /\ StepsLeft = n + 3 + (Cardinality(nodes) - round)
        /\ StepsLeft' = n + 3 + (Cardinality(nodes') - round')
        /\ nodes' = nodes /\ round' = round + 1
    BY <1>9 DEF Ground, StepsLeft, n
  <2> QED BY <1>1, <1>3, <1>4, <2>1
<1>10. CASE StartClosure
  <2>1. /\ stage = "ground" /\ round = Cardinality(nodes) /\ stage' \in {"publish", "close"}
    BY <1>10 DEF StartClosure
  <2>2. StepsLeft = n + 3 + (Cardinality(nodes) - round)
    BY <2>1 DEF StepsLeft, n
  <2>3. StepsLeft' = 1 \/ StepsLeft' = 2 + Cardinality(Reference' \ blocked')
    BY <2>1 DEF StepsLeft
  <2>4. Cardinality(Reference' \ blocked') \in Nat /\ Cardinality(Reference' \ blocked') <= n
    <3>1. Reference' \ blocked' \subseteq Arg
      BY DEF Reference
    <3> QED BY <3>1, PartSizes DEF n
  <2> QED BY <1>1, <1>3, <2>1, <2>2, <2>3, <2>4
<1>11. CASE Close
  BY <1>11, CloseDescends
<1>12. CASE Publish
  <2>1. StepsLeft = 1 /\ StepsLeft' = 0
    BY <1>12 DEF Publish, StepsLeft
  <2> QED BY <2>1
<1> QED BY <1>5, <1>6, <1>7, <1>8, <1>9, <1>10, <1>11, <1>12 DEF Next

-----------------------------------------------------------------------------
(* The theorems. *)

\* The variables keep their types; what is blocked is part of the declared
\* program, what is checked part of what was retained.
THEOREM TypeCorrect == Spec => []TypeOK
BY InductiveInvariant, PTL DEF IInv

\* No claim is published as justified unless every complete extension of the
\* program with the quarantined material reinstated supports it.
THEOREM NonPromotion == Spec => []JustifiedNonPromotion
BY InductiveInvariant, NonPromotionFromIInv, PTL

\* A published status whose support the prune left alone is the status of the
\* reinstated program.
THEOREM PublishedIsExact == Spec => []UnblockedStatusExact
BY InductiveInvariant, UnblockedFromIInv, PTL

\* Nothing that uses an inconsistent group's leaf reaches the framework.
THEOREM QuarantineIsTotal == Spec => []QuarantineTotal
BY InductiveInvariant, QuarantineTotalFromIInv, PTL

\* Skipping the closure when nothing was pruned changes no answer.
THEOREM FastPathIsExact == Spec => []FastPathExact
BY InductiveInvariant, FastPathFromIInv, PTL

\* Conditional publication promotes nothing and misstates nothing.
THEOREM ConditionalSoundness == Spec => []ConditionalIsSound
<1>1. JustifiedNonPromotion /\ UnblockedStatusExact => ConditionalIsSound
  BY DEF ConditionalIsSound
<1> QED BY <1>1, NonPromotion, PublishedIsExact, PTL

\* Every step of a check lowers a natural bound on those left, which starts at
\* twice the number of arguments and six: the closure of Blocked.hs, which stops
\* on stability alone, cannot go on for ever.
THEOREM EveryStepDescends == Spec => RunsDown
<1>1. IInv /\ IInv' /\ [Next]_vars => [StepsLeft' \in Nat /\ StepsLeft' < StepsLeft]_vars
  BY StepDescends
<1> QED BY <1>1, InductiveInvariant, PTL DEF Spec, RunsDown
=============================================================================
