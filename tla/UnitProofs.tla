------------------------------ MODULE UnitProofs ------------------------------
(***************************************************************************)
(* What a caller submits: the acceptance boundary (CheckUnit), for every   *)
(* term universe, every unit and every policy, and the edits of a raw      *)
(* source (SourceUpdate), for every set of sources, edits and terms and    *)
(* batches and histories of any length.                                    *)
(*                                                                         *)
(* Of the acceptance the inductive invariant says what each stage has      *)
(* established when the next one runs, and what an accepting verdict keeps *)
(* of it.  Of the edits it says that the caller's state and the one a      *)
(* batch builds are checked states over one set of terms closed under      *)
(* subterms, which a discharge enlarges (CheckedState, Closed), that no    *)
(* edit declares a member of a group, and that a batch is its edits one    *)
(* after the other; it rests on what a rewriting along a position does to  *)
(* every other position (DischargeOnPath, DischargeOffPath).               *)
(***************************************************************************)
EXTENDS CheckUnit, SourceUpdate, SequenceTheorems, WellFoundedInduction, TLAPS

-----------------------------------------------------------------------------
(* The inductive invariant. *)

\* The run is over exactly when no configuration is left.
Position == stage = "done" <=> Len(verdicts) = Len(AllConfigs)

\* The index of the declaration a stage looks at.
Cursor ==
  /\ stage \notin {"support", "attacks"} => at \in 1..(Len(args) + Len(atts) + 1)
  /\ stage = "support" => at \in 1..(Len(args) + 1)
  /\ stage = "attacks" => at \in 1..(Len(atts) + 1)

\* What the earlier stages of this run have ruled out.
Established ==
  /\ ~ PathB(contrary) => "policy" \in flaws
  /\ stage \in {"duplicates", "support", "attacks", "partition", "scan"} =>
       "policy" \notin flaws
  /\ stage = "support" => \A i \in Decls : i < at => result[args[i]] # "error"
  /\ stage \in {"attacks", "partition", "scan"} =>
       \A i \in Decls : result[args[i]] # "error"
  /\ stage = "scan" => nodes = NodesOf(cfg)

\* What an accepting verdict of the configuration c keeps of it.
AcceptSound(c, v) ==
  /\ "policy" \notin flaws
  /\ \A i \in Decls : result[args[i]] # "error"
  /\ v.nodes = NodesOf(c)
  /\ v.live = LiveAttacks(v.nodes)
  /\ c.scan => MissingConflicts(v.nodes) = {}

VerdictsSound ==
  \A n \in 1..Len(verdicts) :
    verdicts[n].outcome = "accept" => AcceptSound(AllConfigs[n], verdicts[n])

IInv == TypeOK /\ Position /\ Cursor /\ Established /\ VerdictsSound

-----------------------------------------------------------------------------
(* Lemmas about the configurations and about delivering a verdict. *)

\* There are four configurations.
LEMMA ConfigsLength == Len(AllConfigs) = 4
BY DEF AllConfigs

\* The configurations left are those after the ones answered.
LEMMA ConfigsSuffix ==
  ASSUME NEW n \in 0..(Len(AllConfigs) - 1)
  PROVE  LET s == SubSeq(AllConfigs, n + 1, Len(AllConfigs))
         IN /\ Head(s) = AllConfigs[n + 1]
            /\ Tail(s) = SubSeq(AllConfigs, n + 2, Len(AllConfigs))
            /\ Len(s) = Len(AllConfigs) - n
<1>1. n \in 0..3
  BY ConfigsLength
<1> QED
  BY <1>1, ConfigsLength DEF AllConfigs

\* The parts of a unit.
LEMMA InputType ==
  ASSUME TypeOK
  PROVE  /\ args \in Seq(Term) /\ atts \in Seq(RAttack)
         /\ Len(args) \in Nat /\ Len(atts) \in Nat
         /\ \A i \in Decls : args[i] \in Term
         /\ result \in [Term -> {"complete", "hole", "error"}]
BY ListAssumption DEF TypeOK, Decls, Inference

\* While a stage is to run, the configuration at hand is the next in order.
LEMMA CfgIsNext ==
  ASSUME TypeOK, Position, stage # "done"
  PROVE  /\ Len(verdicts) \in 0..3
         /\ cfg = AllConfigs[Len(verdicts) + 1]
         /\ Tail(todo) = SubSeq(AllConfigs, Len(verdicts) + 2, Len(AllConfigs))
         /\ Len(todo) = 4 - Len(verdicts)
<1>1. Len(verdicts) \in 0..3
  BY ConfigsLength DEF TypeOK, Position
<1>2. todo = SubSeq(AllConfigs, Len(verdicts) + 1, Len(AllConfigs))
  BY DEF TypeOK
<1>3. /\ Head(todo) = AllConfigs[Len(verdicts) + 1]
      /\ Tail(todo) = SubSeq(AllConfigs, Len(verdicts) + 2, Len(AllConfigs))
      /\ Len(todo) = Len(AllConfigs) - Len(verdicts)
  <2> DEFINE n == Len(verdicts)
  <2>1. n \in 0..(Len(AllConfigs) - 1)
    BY <1>1, ConfigsLength
  <2> HIDE DEF n
  <2>2. todo = SubSeq(AllConfigs, n + 1, Len(AllConfigs))
    BY <1>2 DEF n
  <2>3. /\ Head(todo) = AllConfigs[n + 1]
        /\ Tail(todo) = SubSeq(AllConfigs, n + 2, Len(AllConfigs))
        /\ Len(todo) = Len(AllConfigs) - n
    BY <2>1, <2>2, ConfigsSuffix
  <2> QED
    BY <2>3 DEF n
<1> QED
  BY <1>1, <1>3, ConfigsLength DEF cfg

USE DEF Stages

\* What a verdict keeps depends on the unit and the policy alone.
LEMMA AcceptSoundRigid ==
  ASSUME UNCHANGED input
  PROVE  \A c, w : AcceptSound(c, w)' <=> AcceptSound(c, w)
BY DEF input, AcceptSound, Decls, NodesOf, CompleteDecls, LiveAttacks,
       RawAttacks, MissingConflicts

\* Delivering a verdict that is sound for the configuration at hand.
LEMMA DeliverIInv ==
  ASSUME IInv, stage # "done", NEW v \in Verdict, Deliver(v),
         v.outcome = "accept" => AcceptSound(cfg, v)
  PROVE  IInv'
<1>1. /\ Len(verdicts) \in 0..3
      /\ cfg = AllConfigs[Len(verdicts) + 1]
      /\ Tail(todo) = SubSeq(AllConfigs, Len(verdicts) + 2, Len(AllConfigs))
      /\ Len(todo) = 4 - Len(verdicts)
  BY CfgIsNext DEF IInv
<1>2. /\ args' = args /\ atts' = atts /\ contrary' = contrary
      /\ exception' = exception /\ flaws' = flaws /\ result' = result
  BY DEF Deliver, input
<1>3. verdicts \in Seq(Verdict) /\ verdicts' = Append(verdicts, v)
  BY DEF IInv, TypeOK, Deliver
<1>4. /\ verdicts' \in Seq(Verdict)
      /\ Len(verdicts') = Len(verdicts) + 1
      /\ \A n \in 1..Len(verdicts) : verdicts'[n] = verdicts[n]
      /\ verdicts'[Len(verdicts) + 1] = v
  BY <1>3
<1>5. Verdict' = Verdict
  BY <1>2 DEF Verdict, Decls, RawAttacks
<1>6. TypeOK'
  <2>1. Len(verdicts)' \in 0..Len(AllConfigs)
    BY <1>1, <1>4, ConfigsLength
  <2>2. todo' = SubSeq(AllConfigs, Len(verdicts') + 1, Len(AllConfigs))
    BY <1>1, <1>4 DEF Deliver
  <2>3. at' \in 1..(Len(args') + Len(atts') + 1)
    BY <1>2, InputType DEF IInv, Deliver
  <2>4. stage' \in {"rules", "done"} /\ nodes' = {} /\ holes' = {}
    BY DEF Deliver
  <2>5. (Inference)' = Inference
    BY DEF Inference
  <2> QED
    BY <1>2, <1>4, <1>5, <2>1, <2>2, <2>3, <2>4, <2>5 DEF IInv, TypeOK
<1>7. Position' /\ Cursor' /\ Established'
  <2>1. Position'
    BY <1>1, <1>4, ConfigsLength DEF Deliver, Position
  <2>2. Cursor'
    BY <1>2, InputType DEF IInv, Cursor, Deliver
  <2>3. Established'
    BY <1>2 DEF IInv, Established, Deliver, PathB
  <2> QED
    BY <2>1, <2>2, <2>3
<1>8. VerdictsSound'
  <2>1. \A c, w : AcceptSound(c, w)' <=> AcceptSound(c, w)
    BY AcceptSoundRigid DEF Deliver
  <2> SUFFICES ASSUME NEW n \in 1..Len(verdicts'), verdicts'[n].outcome = "accept"
               PROVE  AcceptSound(AllConfigs[n], verdicts'[n])
    BY <2>1 DEF VerdictsSound
  <2>2. CASE n \in 1..Len(verdicts)
    BY <1>4, <2>1, <2>2 DEF IInv, VerdictsSound
  <2>3. CASE n = Len(verdicts) + 1
    BY <1>1, <1>4, <2>1, <2>3
  <2> QED
    BY <1>1, <1>4, <2>2, <2>3
<1> QED
  BY <1>6, <1>7, <1>8 DEF IInv

-----------------------------------------------------------------------------
(* The first pair. *)

\* A set of naturals has a least element.
LEMMA LeastNat ==
  ASSUME NEW S \in SUBSET Nat, S # {}
  PROVE  \E n \in S : \A m \in S : n <= m
<1>1. \E n \in S : \A m \in S : <<m, n>> \notin OpToRel(<, Nat)
  BY NatLessThanWellFounded, WFMin
<1> QED
  <2>1. PICK n \in S : \A m \in S : <<m, n>> \notin OpToRel(<, Nat)
    BY <1>1
  <2>2. \A m \in S : ~ (m < n)
    BY <2>1 DEF OpToRel
  <2> QED
    BY <2>2

\* FirstPair finds the lexicographically least pair of a set that has one.
LEMMA FirstPairLeast ==
  ASSUME NEW S \in SUBSET (Nat \X Nat), S # {}
  PROVE  LET p == FirstPair(S)
         IN p \in S /\ \A q \in S : p[1] < q[1] \/ (p[1] = q[1] /\ p[2] <= q[2])
<1> DEFINE X == {q[1] : q \in S}
<1>1. PICK x \in X : \A y \in X : x <= y
  <2>1. X \in SUBSET Nat /\ X # {}
    OBVIOUS
  <2> HIDE DEF X
  <2> QED
    BY <2>1, LeastNat
<1> DEFINE Y == {q[2] : q \in {r \in S : r[1] = x}}
<1>2. PICK y \in Y : \A z \in Y : y <= z
  <2>1. Y \in SUBSET Nat /\ Y # {}
    BY <1>1
  <2> HIDE DEF Y
  <2> QED
    BY <2>1, LeastNat
<1>3. PICK p \in S : p[1] = x /\ p[2] = y
  BY <1>2
<1>4. \A q \in S : p[1] < q[1] \/ (p[1] = q[1] /\ p[2] <= q[2])
  BY <1>1, <1>2, <1>3
<1> QED
  BY <1>3, <1>4 DEF FirstPair

-----------------------------------------------------------------------------
(* The steps. *)

\* The invariant of the checker holds at the start.
LEMMA InitIInv == Init => IInv
<1> SUFFICES ASSUME Init PROVE IInv
  OBVIOUS
<1>1. args \in Seq(Term) /\ atts \in Seq(RAttack)
  BY ListAssumption DEF Init
<1>2. Len(args) \in Nat /\ Len(atts) \in Nat
  BY <1>1
<1>3. SubSeq(AllConfigs, 1, Len(AllConfigs)) = AllConfigs
  <2>1. AllConfigs \in Seq({Full, NoCQ, NoTyped, NoConflictScan})
    BY DEF AllConfigs
  <2> QED
    BY <2>1
<1>4. TypeOK
  <2>1. verdicts \in Seq(Verdict) /\ Len(verdicts) = 0
    BY DEF Init
  <2>2. at \in 1..(Len(args) + Len(atts) + 1)
    BY <1>2 DEF Init
  <2> QED
    BY <1>3, <2>1, <2>2, ConfigsLength DEF Init, TypeOK
<1>5. Position /\ Cursor /\ Established /\ VerdictsSound
  BY <1>2, ConfigsLength DEF Init, Position, Cursor, Established, VerdictsSound
<1> QED
  BY <1>4, <1>5 DEF IInv

\* A step that delivers nothing keeps the verdicts and their soundness.
LEMMA QuietIInv ==
  ASSUME IInv, stage # "done", UNCHANGED <<input, todo, verdicts>>,
         stage' \in Stages,
         at' \in 1..(Len(args) + Len(atts) + 1), Cursor',
         nodes' \subseteq Decls, holes' \subseteq Decls, Established'
  PROVE  IInv'
<1>1. /\ args' = args /\ atts' = atts /\ contrary' = contrary
      /\ exception' = exception /\ flaws' = flaws /\ result' = result
      /\ todo' = todo /\ verdicts' = verdicts
  BY DEF input
<1>2. Verdict' = Verdict /\ Inference' = Inference /\ Decls' = Decls
  BY <1>1 DEF Verdict, Decls, RawAttacks, Inference
<1>3. TypeOK'
  BY <1>1, <1>2 DEF IInv, TypeOK
<1>4. Position'
  BY <1>1 DEF IInv, Position
<1>5. VerdictsSound'
  BY <1>1, AcceptSoundRigid DEF IInv, VerdictsSound
<1> QED
  BY <1>3, <1>4, <1>5 DEF IInv

\* Nodes are declarations.
LEMMA NodesAreDecls == ASSUME NEW c PROVE NodesOf(c) \subseteq Decls
BY DEF NodesOf, CompleteDecls

\* A rejection is a verdict.
LEMMA RejectionSound ==
  ASSUME NEW s \in Stages, NEW i \in Nat, NEW j \in Nat
  PROVE  Rejection(s, i, j) \in Verdict /\ Rejection(s, i, j).outcome = "reject"
BY DEF Rejection, Verdict, Stages

\* A rejection is delivered with nothing to be sound for.
LEMMA RejectIInv ==
  ASSUME IInv, stage # "done", NEW s \in Stages, NEW i \in Nat, NEW j \in Nat,
         Deliver(Rejection(s, i, j))
  PROVE  IInv'
<1> DEFINE v == Rejection(s, i, j)
<1>1. v \in Verdict /\ v.outcome = "reject" /\ Deliver(v)
  BY RejectionSound
<1> HIDE DEF v
<1> QED
  BY <1>1, DeliverIInv

\* The next stage starts at the first declaration.
LEMMA GoToIInv ==
  ASSUME IInv, stage # "done",
         NEW next \in {"signature", "policy", "duplicates", "support", "attacks",
                      "partition"},
         GoTo(next),
         next \in {"duplicates", "support", "attacks", "partition"} =>
           "policy" \notin flaws,
         next \in {"attacks", "partition"} =>
           \A i \in Decls : result[args[i]] # "error"
  PROVE  IInv'
<1>1. Len(args) \in Nat /\ Len(atts) \in Nat
  BY InputType DEF IInv
<1>2. /\ args' = args /\ atts' = atts /\ contrary' = contrary
      /\ flaws' = flaws /\ result' = result /\ stage' = next /\ at' = 1
  BY DEF GoTo, input
<1>3. at' \in 1..(Len(args) + Len(atts) + 1) /\ Cursor'
  BY <1>1, <1>2 DEF Cursor
<1>4. Established'
  BY <1>1, <1>2 DEF IInv, Established, Decls, PathB
<1> QED
  BY <1>2, <1>3, <1>4, QuietIInv DEF GoTo, IInv, TypeOK

\* Every step keeps it.
LEMMA StepIInv == IInv /\ [Next]_vars => IInv'
<1> SUFFICES ASSUME IInv, [Next]_vars PROVE IInv'
  OBVIOUS
<1>1. Len(args) \in Nat /\ Len(atts) \in Nat
  BY InputType DEF IInv
<1>2. CASE CheckFront
  <2>1. stage \in {"rules", "signature", "policy"}
    BY <1>2 DEF CheckFront, FrontStages
  <2>2. CASE stage \in flaws
    BY <1>2, <2>1, <2>2, RejectIInv DEF CheckFront
  <2>3. CASE stage \notin flaws
    <3>1. GoTo(FrontStages[stage])
      BY <1>2, <2>3 DEF CheckFront
    <3>2. /\ FrontStages[stage] \in {"signature", "policy", "duplicates"}
          /\ FrontStages[stage] = "duplicates" => stage = "policy"
      BY <2>1 DEF FrontStages
    <3> QED
      BY <2>1, <2>3, <3>1, <3>2, GoToIInv
  <2> QED
    BY <2>2, <2>3
<1>3. CASE CheckDuplicates
  <2>1. stage = "duplicates" /\ "policy" \notin flaws
    BY <1>3 DEF CheckDuplicates, IInv, Established
  <2>2. CASE DuplicatePairs = {}
    BY <1>3, <2>1, <2>2, GoToIInv DEF CheckDuplicates
  <2>3. CASE DuplicatePairs # {}
    <3> DEFINE p == FirstPair(DuplicatePairs)
    <3>1. p[1] \in Nat /\ p[2] \in Nat
      BY <1>1, <2>3, FirstPairLeast DEF DuplicatePairs, Decls
    <3>2. Deliver(Rejection("duplicates", p[1], p[2]))
      BY <1>3, <2>3 DEF CheckDuplicates
    <3> QED
      BY <2>1, <3>1, <3>2, RejectIInv
  <2> QED
    BY <2>2, <2>3
<1>4. CASE CheckArgument
  <2>1. /\ stage = "support" /\ "policy" \notin flaws /\ at \in Nat
        /\ \A i \in Decls : i < at => result[args[i]] # "error"
    BY <1>1, <1>4 DEF CheckArgument, IInv, Established, Cursor
  <2>2. CASE at > Len(args) /\ GoTo("attacks")
    BY <1>1, <2>1, <2>2, GoToIInv DEF Decls
  <2>3. CASE at \in Decls /\ result[args[at]] = "error"
    BY <1>4, <2>1, <2>3, <1>1, RejectIInv DEF CheckArgument, Decls
  <2>4. CASE at \in Decls /\ result[args[at]] # "error"
    <3>1. Advance
      BY <1>1, <1>4, <2>4 DEF CheckArgument, Decls
    <3>2. /\ UNCHANGED <<input, todo, verdicts, stage, nodes, holes>>
          /\ at' = at + 1 /\ at \in 1..Len(args)
      BY <3>1, <2>4 DEF Advance, Decls
    <3>3. Cursor' /\ at' \in 1..(Len(args) + Len(atts) + 1)
      BY <1>1, <2>1, <3>2 DEF Cursor, input
    <3>4. Established'
      BY <1>1, <2>1, <2>4, <3>2 DEF IInv, Established, input, Decls, PathB
    <3> QED
      BY <2>1, <3>2, <3>3, <3>4, QuietIInv DEF IInv, TypeOK
  <2> QED
    BY <1>4, <2>2, <2>3, <2>4 DEF CheckArgument
<1>5. CASE CheckAttack
  <2>1. /\ stage = "attacks" /\ "policy" \notin flaws /\ at \in Nat
        /\ \A i \in Decls : result[args[i]] # "error"
    BY <1>1, <1>5 DEF CheckAttack, IInv, Established, Cursor
  <2>2. CASE at > Len(atts) /\ GoTo("partition")
    BY <2>1, <2>2, GoToIInv
  <2>3. CASE at \in 1..Len(atts) /\ Deliver(Rejection("attacks", at, 0))
    BY <2>1, <2>3, RejectIInv
  <2>4. CASE at \in 1..Len(atts) /\ Advance
    <3>1. /\ UNCHANGED <<input, todo, verdicts, stage, nodes, holes>>
          /\ at' = at + 1
      BY <2>4 DEF Advance
    <3>2. Cursor' /\ at' \in 1..(Len(args) + Len(atts) + 1)
      BY <1>1, <2>1, <2>4, <3>1 DEF Cursor, input
    <3>3. Established'
      BY <2>1, <3>1 DEF IInv, Established, input, Decls, PathB
    <3> QED
      BY <2>1, <3>1, <3>2, <3>3, QuietIInv DEF IInv, TypeOK
  <2> QED
    BY <1>5, <2>2, <2>3, <2>4 DEF CheckAttack
<1>6. CASE PartitionCache
  <2>1. /\ stage = "partition" /\ stage' = "scan" /\ nodes' = NodesOf(cfg)
        /\ holes' \subseteq Decls /\ UNCHANGED <<input, todo, at, verdicts>>
    BY <1>6 DEF PartitionCache
  <2>2. nodes' \subseteq Decls
    BY <2>1, NodesAreDecls
  <2>3. Cursor' /\ at' \in 1..(Len(args) + Len(atts) + 1)
    BY <2>1 DEF IInv, TypeOK, Cursor, input
  <2>4. Established'
    BY <2>1 DEF IInv, Established, input, Decls, PathB, NodesOf, CompleteDecls, cfg
  <2> QED
    BY <2>1, <2>2, <2>3, <2>4, QuietIInv
<1>7. CASE ScanConflicts
  <2>1. /\ stage = "scan" /\ "policy" \notin flaws /\ nodes = NodesOf(cfg)
        /\ \A i \in Decls : result[args[i]] # "error"
    BY <1>7 DEF ScanConflicts, IInv, Established
  <2>2. CASE cfg.scan /\ MissingConflicts(nodes) # {}
    <3> DEFINE p == FirstPair(MissingConflicts(nodes))
    <3>1. MissingConflicts(nodes) \subseteq Nat \X Nat
      <4>1. nodes \subseteq Nat
        BY <1>1 DEF IInv, TypeOK, Decls
      <4> QED
        BY <4>1 DEF MissingConflicts
    <3>2. p[1] \in Nat /\ p[2] \in Nat
      BY <2>2, <3>1, FirstPairLeast
    <3>3. Deliver(Rejection("scan", p[1], p[2]))
      BY <1>7, <2>2 DEF ScanConflicts
    <3> QED
      BY <2>1, <3>2, <3>3, RejectIInv
  <2>3. CASE ~ (cfg.scan /\ MissingConflicts(nodes) # {})
    <3> DEFINE v == Accepted(nodes, holes, LiveAttacks(nodes))
    <3>1. Deliver(v)
      BY <1>7, <2>3 DEF ScanConflicts
    <3>2. v \in Verdict
      BY DEF Accepted, Verdict, LiveAttacks, IInv, TypeOK
    <3>3. AcceptSound(cfg, v)
      BY <2>1, <2>3 DEF AcceptSound, Accepted
    <3> QED
      BY <2>1, <3>1, <3>2, <3>3, DeliverIInv
  <2> QED
    BY <2>2, <2>3
<1>8. CASE UNCHANGED vars
  <2>1. UNCHANGED input /\ UNCHANGED <<todo, stage, at, nodes, holes, verdicts>>
    BY <1>8 DEF vars
  <2>2. /\ args' = args /\ atts' = atts /\ contrary' = contrary
        /\ exception' = exception /\ flaws' = flaws /\ result' = result
    BY <2>1 DEF input
  <2>3. Verdict' = Verdict /\ Inference' = Inference /\ Decls' = Decls
    BY <2>2 DEF Verdict, Decls, RawAttacks, Inference
  <2>4. TypeOK'
    BY <2>1, <2>2, <2>3 DEF IInv, TypeOK
  <2>5. Position' /\ Cursor'
    BY <2>1, <2>2 DEF IInv, Position, Cursor
  <2>6. cfg' = cfg /\ \A c : NodesOf(c)' = NodesOf(c)
    BY <2>1, <2>2 DEF cfg, NodesOf, CompleteDecls, Decls
  <2>7. PathB(contrary)' <=> PathB(contrary)
    BY <2>2 DEF PathB
  <2>8. Established'
    BY <2>1, <2>2, <2>3, <2>6, <2>7 DEF IInv, Established
  <2>9. VerdictsSound'
    BY <2>1, AcceptSoundRigid DEF IInv, VerdictsSound
  <2> QED
    BY <2>4, <2>5, <2>8, <2>9 DEF IInv
<1> QED
  BY <1>2, <1>3, <1>4, <1>5, <1>6, <1>7, <1>8 DEF Next

\* The inductive invariant holds of every behaviour of the checker.
THEOREM InductiveInvariant == Spec => []IInv
BY InitIInv, StepIInv, PTL DEF Spec

-----------------------------------------------------------------------------
(* What the invariant gives. *)

\* What every accepted run has established, in terms of its verdict.
LEMMA AcceptedFacts ==
  ASSUME IInv, NEW n \in Accepting
  PROVE  /\ AcceptSound(AllConfigs[n], verdicts[n])
         /\ verdicts[n].nodes \subseteq Decls
         /\ n \in 1..4
<1>1. n \in 1..Len(verdicts) /\ verdicts[n].outcome = "accept"
  BY DEF Accepting
<1>2. AcceptSound(AllConfigs[n], verdicts[n])
  BY <1>1 DEF IInv, VerdictsSound
<1>3. n \in 1..4
  BY <1>1, ConfigsLength DEF IInv, TypeOK
<1> QED
  BY <1>2, <1>3, NodesAreDecls DEF AcceptSound

\* It implies that contrary nodes are attacked.
LEMMA AttackCompleteFromIInv == IInv => AttackComplete
<1> SUFFICES ASSUME IInv, NEW n \in Accepting, AllConfigs[n].scan,
                    NEW i \in verdicts[n].nodes, NEW j \in verdicts[n].nodes,
                    <<Concl[args[i]], Concl[args[j]]>> \in contrary,
                    ConflictAttackable(args[j])
             PROVE  <<i, j>> \in Edges(verdicts[n])
  BY DEF AttackComplete
<1>1. AcceptSound(AllConfigs[n], verdicts[n])
  BY AcceptedFacts
<1>2. Covered(RawAttacks, args[i], args[j])
  <2>1. <<i, j>> \notin MissingConflicts(verdicts[n].nodes)
    BY <1>1 DEF AcceptSound
  <2>2. <<i, j>> \in verdicts[n].nodes \X verdicts[n].nodes
    OBVIOUS
  <2> QED
    BY <2>1, <2>2 DEF MissingConflicts
<1>3. PICK k \in RawAttacks : k.src = args[i] /\ AttackClosure(k, args[j])
  BY <1>2 DEF Covered
<1>4. k \in verdicts[n].live
  BY <1>1, <1>3 DEF AcceptSound, LiveAttacks
<1> QED
  BY <1>3, <1>4 DEF Edges, Covered

\* It implies that extensions are closed under subarguments.
LEMMA SubargumentsFromIInv == IInv => SubargumentsAccepted
<1> SUFFICES ASSUME IInv, NEW n \in Accepting,
                    NEW E \in SUBSET verdicts[n].nodes,
                    Complete(verdicts[n].nodes, Edges(verdicts[n]), E),
                    NEW i \in verdicts[n].nodes, NEW m \in E,
                    args[i] \in Sub[args[m]]
             PROVE  i \in E
  BY DEF SubargumentsAccepted
<1> DEFINE N == verdicts[n].nodes
           A == Edges(verdicts[n])
<1>1. N \subseteq Decls
  BY AcceptedFacts
<1>2. args[m] \in Term
  BY <1>1, InputType DEF IInv
<1>3. Sub[args[i]] \subseteq Sub[args[m]]
  BY <1>2, TermAssumption
<1>4. \A b \in N : <<b, i>> \in A => <<b, m>> \in A
  <2> SUFFICES ASSUME NEW b \in N, <<b, i>> \in A PROVE <<b, m>> \in A
    OBVIOUS
  <2>1. PICK k \in verdicts[n].live : k.src = args[b] /\ AttackClosure(k, args[i])
    BY DEF Edges, Covered
  <2>2. AttackClosure(k, args[m])
    BY <1>3, <2>1 DEF AttackClosure, ContainsB
  <2> QED
    BY <2>1, <2>2 DEF Edges, Covered
<1>5. Defended(N, A, E, m)
  BY DEF Complete, Admissible
<1>6. Defended(N, A, E, i)
  <2> SUFFICES ASSUME NEW b \in N, <<b, i>> \in A
               PROVE  \E c \in E : <<c, b>> \in A
    BY DEF Defended
  <2> QED
    BY <1>4, <1>5 DEF Defended
<1> QED
  BY <1>6 DEF Complete

\* It implies that extensions are consistent.
LEMMA ConsistencyFromIInv == IInv => DirectConsistency
<1> SUFFICES ASSUME IInv, NEW n \in Accepting, AllConfigs[n].scan,
                    NEW E \in SUBSET verdicts[n].nodes,
                    Complete(verdicts[n].nodes, Edges(verdicts[n]), E),
                    NEW i \in E, NEW j \in E,
                    <<Concl[args[i]], Concl[args[j]]>> \in contrary
             PROVE  FALSE
  BY DEF DirectConsistency
<1>1. verdicts[n].nodes \subseteq Decls /\ AcceptSound(AllConfigs[n], verdicts[n])
  BY AcceptedFacts
<1>2. args[j] \in Term /\ result[args[j]] # "error"
  BY <1>1, InputType DEF IInv, AcceptSound
<1>3. PathB(contrary)
  BY <1>1 DEF IInv, Established, AcceptSound
<1>4. Mode[args[j]] # "strict"
  BY <1>2, <1>3 DEF PathB
<1>5. Mode[args[j]] # "missing"
  BY <1>2 DEF IInv, TypeOK, Inference
<1>6. ConflictAttackable(args[j])
  BY <1>2, <1>4, <1>5, TermAssumption DEF ConflictAttackable, Modes
<1>7. <<i, j>> \in Edges(verdicts[n])
  BY <1>6, AttackCompleteFromIInv DEF AttackComplete
<1> QED
  BY <1>7 DEF Complete, Admissible, ConflictFree

\* It implies that nodes rest on no hole.
LEMMA NoHoleFromIInv == IInv => NodesRestOnNoHole
<1> SUFFICES ASSUME IInv, NEW n \in Accepts(Full), NEW i \in verdicts[n].nodes,
                    NEW s \in Sub[args[i]]
             PROVE  result[s] = "complete"
  BY DEF NodesRestOnNoHole
<1>1. n \in Accepting /\ AllConfigs[n] = Full
  BY DEF Accepts, Run, Accepting
<1>2. i \in CompleteDecls
  BY <1>1, AcceptedFacts DEF AcceptSound, NodesOf, Full
<1>3. result[args[i]] = "complete" /\ args[i] \in Term
  BY <1>2, InputType DEF CompleteDecls, IInv
<1>4. result \in Inference /\ s \in Term
  BY <1>3, TermAssumption DEF IInv, TypeOK
<1>5. result[s] \in {"complete", "hole", "error"}
  BY <1>4 DEF Inference
<1> QED
  BY <1>3, <1>4, <1>5 DEF Inference

-----------------------------------------------------------------------------
(* The theorems. *)

\* The variables keep their types; the configurations run in order.
THEOREM TypeCorrect == Spec => []TypeOK
BY InductiveInvariant, PTL DEF IInv

\* An accepted unit's contrary nodes are joined in the compiled graph, though
\* the scan that looks for them and the graph read different attack lists.
THEOREM ConflictsAreEdges == Spec => []AttackComplete
BY InductiveInvariant, AttackCompleteFromIInv, PTL

\* The complete extensions of an accepted unit are closed under subarguments.
THEOREM SubargumentClosure == Spec => []SubargumentsAccepted
BY InductiveInvariant, SubargumentsFromIInv, PTL

\* The complete extensions of an accepted unit hold no contrary conclusions.
THEOREM ExtensionsConsistent == Spec => []DirectConsistency
BY InductiveInvariant, ConsistencyFromIInv, PTL

\* No node of a unit accepted by the frozen configuration rests on a hole.
THEOREM NodesWithoutHoles == Spec => []NodesRestOnNoHole
BY InductiveInvariant, NoHoleFromIInv, PTL

\* A node's parts are complete, and accepted with it.
THEOREM NodesOnParts == Spec => []NodesStandOnParts
<1>1. NodesRestOnNoHole /\ SubargumentsAccepted => NodesStandOnParts
  BY DEF NodesStandOnParts
<1> QED BY <1>1, SubargumentClosure, NodesWithoutHoles, PTL

-----------------------------------------------------------------------------
(* The first defect.  A second invariant, on top of IInv: no defect of the  *)
(* configuration at hand lies behind the point the run has come to.         *)

\* The partition has no defect of its own; it shares the place of the scan.
StageOrder(s) == IF s = "partition" THEN 7 ELSE StageRank[s]

\* The run has gone past the place of the defect e.
Passed(e) ==
  \/ StageRank[e[1]] < StageOrder(stage)
  \/ e[1] = stage /\ stage \in {"support", "attacks"} /\ e[2] < at

NothingPassed == stage # "done" => \A e \in Defects(cfg) : ~ Passed(e)

\* The holes of a verdict are all the declarations that are not complete.
HolesLocated ==
  /\ stage = "scan" => holes = Decls \ CompleteDecls
  /\ \A n \in Accepting : verdicts[n].holes = Decls \ CompleteDecls

FirstInv == NothingPassed /\ HolesLocated /\ VerdictIsFirstDefect

\* What the independent statement of the defects says, kind by kind, in the
\* terms the stages use.
LEMMA DefectKinds ==
  ASSUME TypeOK, NEW c, NEW e \in Defects(c)
  PROVE  /\ e = <<e[1], e[2], e[3]>>
         /\ e[1] \in DOMAIN StageRank /\ e[2] \in Nat /\ e[3] \in Nat
         /\ e[1] \in {"rules", "signature", "policy"} =>
              e[1] \in flaws /\ e[2] = 0 /\ e[3] = 0
         /\ e[1] = "duplicates" => <<e[2], e[3]>> \in DuplicatePairs
         /\ e[1] = "support" =>
              e[2] \in Decls /\ result[args[e[2]]] = "error" /\ e[3] = 0
         /\ e[1] = "attacks" =>
              e[2] \in 1..Len(atts) /\ AttackFails(c, atts[e[2]]) /\ e[3] = 0
         /\ e[1] = "scan" => c.scan /\ <<e[2], e[3]>> \in MissingConflicts(NodesOf(c))
<1>1. Len(args) \in Nat /\ Len(atts) \in Nat /\ flaws \subseteq {"rules", "signature", "policy"}
  BY InputType, ListAssumption DEF TypeOK
<1>2. DOMAIN StageRank = {"rules", "signature", "policy", "duplicates", "support", "attacks", "scan"}
  BY DEF StageRank
<1>3. CASE \E f \in flaws : e = <<f, 0, 0>>
  <2>1. PICK f \in flaws : e = <<f, 0, 0>>
    BY <1>3
  <2>2. e[1] = f /\ e[2] = 0 /\ e[3] = 0 /\ f \in {"rules", "signature", "policy"}
    BY <1>1, <2>1
  <2> QED
    BY <1>2, <2>1, <2>2
<1>4. CASE \E q \in DuplicatePairs : e = <<"duplicates", q[1], q[2]>>
  <2>1. PICK q \in DuplicatePairs : e = <<"duplicates", q[1], q[2]>>
    BY <1>4
  <2>2. q = <<q[1], q[2]>> /\ q[1] \in Nat /\ q[2] \in Nat
    BY <1>1, <2>1 DEF DuplicatePairs, Decls
  <2>3. e[1] = "duplicates" /\ e[2] = q[1] /\ e[3] = q[2]
    BY <2>1
  <2> QED
    BY <1>2, <2>1, <2>2, <2>3
<1>5. CASE \E i \in Decls : result[args[i]] = "error" /\ e = <<"support", i, 0>>
  <2>1. PICK i \in Decls : result[args[i]] = "error" /\ e = <<"support", i, 0>>
    BY <1>5
  <2>2. e[1] = "support" /\ e[2] = i /\ e[3] = 0 /\ i \in Nat
    BY <1>1, <2>1 DEF Decls
  <2> QED
    BY <1>2, <2>1, <2>2
<1>6. CASE \E k \in 1..Len(atts) : AttackFails(c, atts[k]) /\ e = <<"attacks", k, 0>>
  <2>1. PICK k \in 1..Len(atts) : AttackFails(c, atts[k]) /\ e = <<"attacks", k, 0>>
    BY <1>6
  <2>2. e[1] = "attacks" /\ e[2] = k /\ e[3] = 0 /\ k \in Nat
    BY <1>1, <2>1
  <2> QED
    BY <1>2, <2>1, <2>2
<1>7. CASE c.scan /\ \E q \in MissingConflicts(NodesOf(c)) : e = <<"scan", q[1], q[2]>>
  <2>1. MissingConflicts(NodesOf(c)) \subseteq Nat \X Nat
    BY <1>1 DEF MissingConflicts, NodesOf, CompleteDecls, Decls
  <2> QED
    BY <1>2, <1>7, <2>1
<1>8. e \in Defects(c) =>
        \/ \E f \in flaws : e = <<f, 0, 0>>
        \/ \E q \in DuplicatePairs : e = <<"duplicates", q[1], q[2]>>
        \/ \E i \in Decls : result[args[i]] = "error" /\ e = <<"support", i, 0>>
        \/ \E k \in 1..Len(atts) : AttackFails(c, atts[k]) /\ e = <<"attacks", k, 0>>
        \/ c.scan /\ \E q \in MissingConflicts(NodesOf(c)) : e = <<"scan", q[1], q[2]>>
  <2>1. {p \in Decls \X Decls : p[1] < p[2] /\ args[p[1]] = args[p[2]]} = DuplicatePairs
    BY DEF DuplicatePairs
  <2>2. \A k \in 1..Len(atts) :
          ~ {atts[k].src, atts[k].tgt} \subseteq {args[i] : i \in Decls} =>
            AttackFails(c, atts[k])
    BY DEF AttackFails
  <2>3. \A k \in 1..Len(atts) :
          c.typed /\ AttackTargetClass(atts[k], contrary, exception) # "ok" =>
            AttackFails(c, atts[k])
    BY DEF AttackFails
  <2>4. \A q \in Decls \X Decls :
          /\ c.scan
          /\ c.promote \/ \A x \in {q[1], q[2]} : result[args[x]] = "complete"
          /\ <<Concl[args[q[1]]], Concl[args[q[2]]]>> \in contrary
          /\ Mode[args[q[2]]] \in {"leaf", "defeasible"}
          /\ \A k \in 1..Len(atts) :
               ~ (/\ atts[k].src = args[q[1]]
                  /\ atts[k].occ # NoTerm
                  /\ atts[k].occ \in Sub[args[q[2]]])
          => q \in MissingConflicts(NodesOf(c))
    BY DEF MissingConflicts, NodesOf, CompleteDecls, ConflictAttackable, Covered,
           RawAttacks, AttackClosure, ContainsB
  <2> QED
    BY <2>1, <2>2, <2>3, <2>4 DEF Defects
<1> QED
  BY <1>3, <1>4, <1>5, <1>6, <1>7, <1>8

\* And conversely: what a stage rejects is a defect.
LEMMA DefectsFound ==
  ASSUME NEW c
  PROVE  /\ \A f \in flaws : <<f, 0, 0>> \in Defects(c)
         /\ \A q \in DuplicatePairs : <<"duplicates", q[1], q[2]>> \in Defects(c)
         /\ \A i \in Decls : result[args[i]] = "error" => <<"support", i, 0>> \in Defects(c)
         /\ \A k \in 1..Len(atts) :
              AttackFails(c, atts[k]) => <<"attacks", k, 0>> \in Defects(c)
         /\ c.scan => \A q \in MissingConflicts(NodesOf(c)) :
              <<"scan", q[1], q[2]>> \in Defects(c)
<1>1. \A f \in flaws : <<f, 0, 0>> \in Defects(c)
  BY DEF Defects
<1>2. \A q \in DuplicatePairs : <<"duplicates", q[1], q[2]>> \in Defects(c)
  BY DEF Defects, DuplicatePairs
<1>3. \A i \in Decls : result[args[i]] = "error" => <<"support", i, 0>> \in Defects(c)
  BY DEF Defects
<1>4. \A k \in 1..Len(atts) : AttackFails(c, atts[k]) => <<"attacks", k, 0>> \in Defects(c)
  <2>1. \A k \in 1..Len(atts) : AttackFails(c, atts[k]) =>
          \/ ~ {atts[k].src, atts[k].tgt} \subseteq {args[i] : i \in Decls}
          \/ c.typed /\ AttackTargetClass(atts[k], contrary, exception) # "ok"
    BY DEF AttackFails
  <2> QED
    BY <2>1 DEF Defects
<1>5. ASSUME c.scan, NEW q \in MissingConflicts(NodesOf(c))
      PROVE  <<"scan", q[1], q[2]>> \in Defects(c)
  <2>1. /\ q \in Decls \X Decls
        /\ c.promote \/ \A x \in {q[1], q[2]} : result[args[x]] = "complete"
        /\ <<Concl[args[q[1]]], Concl[args[q[2]]]>> \in contrary
        /\ Mode[args[q[2]]] \in {"leaf", "defeasible"}
    BY DEF MissingConflicts, NodesOf, CompleteDecls, ConflictAttackable
  <2>2. \A k \in 1..Len(atts) :
          ~ (/\ atts[k].src = args[q[1]]
             /\ atts[k].occ # NoTerm
             /\ atts[k].occ \in Sub[args[q[2]]])
    BY DEF MissingConflicts, Covered, RawAttacks, AttackClosure, ContainsB
  <2> QED
    BY <1>5, <2>1, <2>2 DEF Defects
<1> QED
  BY <1>1, <1>2, <1>3, <1>4, <1>5

\* While the unit stays, so do its defects.
LEMMA DefectsRigid ==
  ASSUME UNCHANGED input
  PROVE  /\ \A c : Defects(c)' = Defects(c)
         /\ Decls' = Decls /\ CompleteDecls' = CompleteDecls
BY DEF input, Defects, Decls, CompleteDecls

\* v is the verdict that the whole of the defects of c calls for.
FitsDefects(c, v) ==
  IF v.outcome = "accept" THEN Defects(c) = {}
  ELSE LET d == <<v.stage, v.at[1], v.at[2]>>
       IN d \in Defects(c) /\ \A e \in Defects(c) : Before(d, e)

\* Delivering a verdict that fits; the next configuration has passed nothing.
LEMMA DeliverFirst ==
  ASSUME IInv, FirstInv, stage # "done", NEW v \in Verdict, Deliver(v),
         FitsDefects(cfg, v), v.outcome = "accept" => v.holes = Decls \ CompleteDecls
  PROVE  FirstInv'
<1>1. /\ Len(verdicts) \in 0..3
      /\ cfg = AllConfigs[Len(verdicts) + 1]
  BY CfgIsNext DEF IInv
<1>2. UNCHANGED input /\ stage' \in {"rules", "done"}
  BY DEF Deliver
<1>3. verdicts \in Seq(Verdict) /\ verdicts' = Append(verdicts, v)
  BY DEF IInv, TypeOK, Deliver
<1>4. /\ Len(verdicts') = Len(verdicts) + 1
      /\ \A n \in 1..Len(verdicts) : verdicts'[n] = verdicts[n]
      /\ verdicts'[Len(verdicts) + 1] = v
  BY <1>3
<1>5. /\ \A c : Defects(c)' = Defects(c)
      /\ Decls' = Decls /\ CompleteDecls' = CompleteDecls
  BY <1>2, DefectsRigid
<1>6. NothingPassed'
  <2> SUFFICES ASSUME stage' = "rules", NEW e \in Defects(cfg')
               PROVE  ~ Passed(e)'
    BY <1>2, <1>5 DEF NothingPassed
  <2>1. e[1] \in DOMAIN StageRank
    BY DefectKinds DEF IInv
  <2>2. StageRank[e[1]] \in 1..7
    BY <2>1 DEF StageRank
  <2> QED
    BY <2>2 DEF Passed, StageRank, StageOrder
<1>7. HolesLocated'
  <2> SUFFICES ASSUME NEW n \in 1..Len(verdicts'), verdicts'[n].outcome = "accept"
               PROVE  verdicts'[n].holes = Decls \ CompleteDecls
    BY <1>2, <1>5 DEF HolesLocated, Accepting
  <2>1. CASE n \in 1..Len(verdicts)
    BY <1>4, <2>1 DEF FirstInv, HolesLocated, Accepting
  <2>2. CASE n = Len(verdicts) + 1
    BY <1>4, <2>2
  <2> QED
    BY <1>1, <1>4, <2>1, <2>2
<1>8. VerdictIsFirstDefect'
  <2> SUFFICES ASSUME NEW n \in 1..Len(verdicts')
               PROVE  FitsDefects(AllConfigs[n], verdicts'[n])
    BY <1>5 DEF VerdictIsFirstDefect, FitsDefects
  <2>1. CASE n \in 1..Len(verdicts)
    BY <1>4, <2>1 DEF FirstInv, VerdictIsFirstDefect, FitsDefects
  <2>2. CASE n = Len(verdicts) + 1
    BY <1>1, <1>4, <2>2
  <2> QED
    BY <1>1, <1>4, <2>1, <2>2
<1> QED
  BY <1>6, <1>7, <1>8 DEF FirstInv

\* Rejecting at the least defect keeps verdicts at first defects.
LEMMA RejectFirst ==
  ASSUME IInv, FirstInv, stage # "done", NEW s \in Stages, NEW i \in Nat, NEW j \in Nat,
         Deliver(Rejection(s, i, j)),
         <<s, i, j>> \in Defects(cfg), \A e \in Defects(cfg) : Before(<<s, i, j>>, e)
  PROVE  FirstInv'
<1> DEFINE v == Rejection(s, i, j)
<1>1. v \in Verdict /\ v.outcome = "reject" /\ Deliver(v)
  BY RejectionSound
<1>2. FitsDefects(cfg, v)
  BY DEF FitsDefects, Rejection
<1> HIDE DEF v
<1> QED
  BY <1>1, <1>2, DeliverFirst

\* A step that delivers nothing passes no defect.
LEMMA QuietFirst ==
  ASSUME IInv, FirstInv, stage # "done", UNCHANGED <<input, todo, verdicts>>,
         \A e \in Defects(cfg) : ~ Passed(e)',
         stage' = "scan" => holes' = Decls \ CompleteDecls
  PROVE  FirstInv'
<1>1. /\ \A c : Defects(c)' = Defects(c)
      /\ Decls' = Decls /\ CompleteDecls' = CompleteDecls
  BY DefectsRigid
<1>2. cfg' = cfg
  BY DEF cfg
<1>3. NothingPassed'
  BY <1>1, <1>2 DEF NothingPassed
<1>4. HolesLocated'
  BY <1>1 DEF FirstInv, HolesLocated, Accepting
<1>5. VerdictIsFirstDefect'
  BY <1>1 DEF FirstInv, VerdictIsFirstDefect
<1> QED
  BY <1>3, <1>4, <1>5 DEF FirstInv

\* Nothing is passed at the start.
LEMMA InitFirst == Init => FirstInv
<1> SUFFICES ASSUME Init PROVE FirstInv
  OBVIOUS
<1>1. TypeOK
  BY InitIInv DEF IInv
<1>2. NothingPassed
  <2> SUFFICES ASSUME NEW e \in Defects(cfg) PROVE ~ Passed(e)
    BY DEF NothingPassed
  <2>1. e[1] \in DOMAIN StageRank
    BY <1>1, DefectKinds
  <2>2. StageRank[e[1]] \in 1..7 /\ stage = "rules"
    BY <2>1 DEF StageRank, Init
  <2> QED
    BY <2>2 DEF Passed, StageOrder, StageRank
<1>3. HolesLocated /\ VerdictIsFirstDefect
  BY DEF Init, HolesLocated, Accepting, VerdictIsFirstDefect
<1> QED
  BY <1>2, <1>3 DEF FirstInv

\* Every step keeps what has been passed free of defects.
LEMMA StepFirst == IInv /\ FirstInv /\ [Next]_vars => FirstInv'
<1> SUFFICES ASSUME IInv, FirstInv, [Next]_vars PROVE FirstInv'
  OBVIOUS
<1> DEFINE D == Defects(cfg)
<1>1. Len(args) \in Nat /\ Len(atts) \in Nat
  BY InputType DEF IInv
<1>2. ASSUME stage # "done", NEW e \in D
      PROVE  /\ ~ Passed(e)
             /\ e = <<e[1], e[2], e[3]>>
             /\ e[1] \in DOMAIN StageRank /\ e[2] \in Nat /\ e[3] \in Nat
  BY <1>2, DefectKinds DEF IInv, FirstInv, NothingPassed
<1>3. CASE CheckFront
  <2>1. stage \in {"rules", "signature", "policy"}
    BY <1>3 DEF CheckFront, FrontStages
  <2>2. CASE stage \in flaws
    <3>1. <<stage, 0, 0>> \in D /\ Deliver(Rejection(stage, 0, 0))
      BY <1>3, <2>2, DefectsFound DEF CheckFront
    <3>2. ASSUME NEW e \in D PROVE Before(<<stage, 0, 0>>, e)
      <4>1. ~ Passed(e) /\ e[1] \in DOMAIN StageRank /\ e[2] \in Nat /\ e[3] \in Nat
        BY <1>2, <2>1
      <4> QED
        BY <2>1, <4>1 DEF Passed, Before, StageOrder, StageRank
    <3> QED
      BY <2>1, <3>1, <3>2, RejectFirst
  <2>3. CASE stage \notin flaws
    <3>1. GoTo(FrontStages[stage])
      BY <1>3, <2>3 DEF CheckFront
    <3>2. UNCHANGED <<input, todo, verdicts>> /\ stage' = FrontStages[stage]
      BY <3>1 DEF GoTo
    <3>3. ASSUME NEW e \in D PROVE ~ Passed(e)'
      <4>1. ~ Passed(e) /\ e[1] \in DOMAIN StageRank
        BY <1>2, <2>1
      <4>2. e[1] # stage
        BY <2>1, <2>3, DefectKinds DEF IInv
      <4> QED
        BY <2>1, <3>2, <4>1, <4>2 DEF Passed, StageOrder, StageRank, FrontStages
    <3> QED
      BY <2>1, <3>2, <3>3, QuietFirst DEF FrontStages
  <2> QED
    BY <2>2, <2>3
<1>4. CASE CheckDuplicates
  <2>1. stage = "duplicates"
    BY <1>4 DEF CheckDuplicates
  <2>2. CASE DuplicatePairs = {}
    <3>1. GoTo("support")
      BY <1>4, <2>2 DEF CheckDuplicates
    <3>2. UNCHANGED <<input, todo, verdicts>> /\ stage' = "support" /\ at' = 1
      BY <3>1 DEF GoTo
    <3>3. ASSUME NEW e \in D PROVE ~ Passed(e)'
      <4>1. ~ Passed(e) /\ e[1] \in DOMAIN StageRank
        BY <1>2, <2>1
      <4>2. e[1] # "duplicates" /\ (e[1] = "support" => e[2] \in Decls)
        BY <2>2, DefectKinds DEF IInv
      <4> QED
        BY <1>1, <1>2, <2>1, <3>2, <4>1, <4>2 DEF Passed, StageOrder, StageRank, Decls
    <3> QED
      BY <2>1, <3>2, <3>3, QuietFirst
  <2>3. CASE DuplicatePairs # {}
    <3> DEFINE p == FirstPair(DuplicatePairs)
    <3>1. /\ p \in DuplicatePairs /\ p[1] \in Nat /\ p[2] \in Nat
          /\ \A q \in DuplicatePairs : p[1] < q[1] \/ (p[1] = q[1] /\ p[2] <= q[2])
      <4>1. DuplicatePairs \in SUBSET (Nat \X Nat)
        BY <1>1 DEF DuplicatePairs, Decls
      <4> QED
        BY <2>3, <4>1, FirstPairLeast
    <3>2. Deliver(Rejection("duplicates", p[1], p[2]))
      BY <1>4, <2>3 DEF CheckDuplicates
    <3> HIDE DEF p
    <3>3. <<"duplicates", p[1], p[2]>> \in D
      BY <3>1, DefectsFound
    <3>4. ASSUME NEW e \in D PROVE Before(<<"duplicates", p[1], p[2]>>, e)
      <4>1. ~ Passed(e) /\ e[1] \in DOMAIN StageRank
        BY <1>2, <2>1
      <4>2. e[1] = "duplicates" => <<e[2], e[3]>> \in DuplicatePairs
        BY DefectKinds DEF IInv
      <4> QED
        BY <2>1, <3>1, <4>1, <4>2 DEF Passed, Before, StageOrder, StageRank
    <3> QED
      BY <2>1, <3>1, <3>2, <3>3, <3>4, RejectFirst
  <2> QED
    BY <2>2, <2>3
<1>5. CASE CheckArgument
  <2>1. stage = "support" /\ at \in Nat
    BY <1>1, <1>5 DEF CheckArgument, IInv, Cursor
  <2>2. CASE at > Len(args) /\ GoTo("attacks")
    <3>1. UNCHANGED <<input, todo, verdicts>> /\ stage' = "attacks" /\ at' = 1
      BY <2>2 DEF GoTo
    <3>2. ASSUME NEW e \in D PROVE ~ Passed(e)'
      <4>1. ~ Passed(e) /\ e[1] \in DOMAIN StageRank
        BY <1>2, <2>1
      <4>2. /\ e[1] = "support" => e[2] \in Decls
            /\ e[1] = "attacks" => e[2] \in 1..Len(atts)
        BY DefectKinds DEF IInv
      <4> QED
        BY <1>1, <1>2, <2>1, <2>2, <3>1, <4>1, <4>2 DEF Passed, StageOrder, StageRank, Decls
    <3> QED
      BY <2>1, <3>1, <3>2, QuietFirst
  <2>3. CASE at \in Decls /\ result[args[at]] = "error"
    <3>1. Deliver(Rejection("support", at, 0))
      BY <1>1, <1>5, <2>3 DEF CheckArgument, Decls
    <3>2. <<"support", at, 0>> \in D
      BY <2>3, DefectsFound
    <3>3. ASSUME NEW e \in D PROVE Before(<<"support", at, 0>>, e)
      <4>1. ~ Passed(e) /\ e[1] \in DOMAIN StageRank /\ e[2] \in Nat /\ e[3] \in Nat
        BY <1>2, <2>1
      <4> QED
        BY <2>1, <4>1 DEF Passed, Before, StageOrder, StageRank
    <3> QED
      BY <2>1, <3>1, <3>2, <3>3, RejectFirst
  <2>4. CASE at \in Decls /\ result[args[at]] # "error"
    <3>1. Advance
      BY <1>1, <1>5, <2>4 DEF CheckArgument, Decls
    <3>2. UNCHANGED <<input, todo, verdicts, stage>> /\ at' = at + 1
      BY <3>1 DEF Advance
    <3>3. ASSUME NEW e \in D PROVE ~ Passed(e)'
      <4>1. ~ Passed(e) /\ e[2] \in Nat
        BY <1>2, <2>1
      <4>2. e[1] = "support" => e[2] # at
        BY <2>4, DefectKinds DEF IInv
      <4> QED
        BY <2>1, <3>2, <4>1, <4>2 DEF Passed
    <3> QED
      BY <2>1, <3>2, <3>3, QuietFirst
  <2> QED
    BY <1>5, <2>2, <2>3, <2>4 DEF CheckArgument
<1>6. CASE CheckAttack
  <2>1. stage = "attacks" /\ at \in Nat
    BY <1>1, <1>6 DEF CheckAttack, IInv, Cursor
  <2>2. CASE at > Len(atts) /\ GoTo("partition")
    <3>1. UNCHANGED <<input, todo, verdicts>> /\ stage' = "partition"
      BY <2>2 DEF GoTo
    <3>2. ASSUME NEW e \in D PROVE ~ Passed(e)'
      <4>1. ~ Passed(e) /\ e[1] \in DOMAIN StageRank
        BY <1>2, <2>1
      <4>2. e[1] = "attacks" => e[2] \in 1..Len(atts)
        BY DefectKinds DEF IInv
      <4> QED
        BY <1>1, <2>1, <2>2, <3>1, <4>1, <4>2 DEF Passed, StageOrder, StageRank
    <3> QED
      BY <2>1, <3>1, <3>2, QuietFirst
  <2>3. CASE at \in 1..Len(atts) /\ AttackFails(cfg, atts[at])
    <3>1. Deliver(Rejection("attacks", at, 0))
      BY <1>1, <1>6, <2>3 DEF CheckAttack
    <3>2. <<"attacks", at, 0>> \in D
      BY <2>3, DefectsFound
    <3>3. ASSUME NEW e \in D PROVE Before(<<"attacks", at, 0>>, e)
      <4>1. ~ Passed(e) /\ e[1] \in DOMAIN StageRank /\ e[2] \in Nat /\ e[3] \in Nat
        BY <1>2, <2>1
      <4> QED
        BY <2>1, <4>1 DEF Passed, Before, StageOrder, StageRank
    <3> QED
      BY <2>1, <3>1, <3>2, <3>3, RejectFirst
  <2>4. CASE at \in 1..Len(atts) /\ ~ AttackFails(cfg, atts[at])
    <3>1. Advance
      BY <1>1, <1>6, <2>4 DEF CheckAttack
    <3>2. UNCHANGED <<input, todo, verdicts, stage>> /\ at' = at + 1
      BY <3>1 DEF Advance
    <3>3. ASSUME NEW e \in D PROVE ~ Passed(e)'
      <4>1. ~ Passed(e) /\ e[2] \in Nat
        BY <1>2, <2>1
      <4>2. e[1] = "attacks" => e[2] # at
        BY <2>4, DefectKinds DEF IInv
      <4> QED
        BY <2>1, <3>2, <4>1, <4>2 DEF Passed
    <3> QED
      BY <2>1, <3>2, <3>3, QuietFirst
  <2> QED
    BY <1>6, <2>2, <2>3, <2>4 DEF CheckAttack
<1>7. CASE PartitionCache
  <2>1. /\ stage = "partition" /\ stage' = "scan" /\ holes' = Decls \ CompleteDecls
        /\ UNCHANGED <<input, todo, verdicts>>
    BY <1>7 DEF PartitionCache
  <2>2. ASSUME NEW e \in D PROVE ~ Passed(e)'
    <3>1. ~ Passed(e) /\ e[1] \in DOMAIN StageRank
      BY <1>2, <2>1
    <3> QED
      BY <2>1, <3>1 DEF Passed, StageOrder, StageRank
  <2> QED
    BY <2>1, <2>2, QuietFirst
<1>8. CASE ScanConflicts
  <2>1. /\ stage = "scan" /\ nodes = NodesOf(cfg) /\ holes = Decls \ CompleteDecls
    BY <1>8 DEF ScanConflicts, IInv, Established, FirstInv, HolesLocated
  <2>2. CASE cfg.scan /\ MissingConflicts(nodes) # {}
    <3> DEFINE p == FirstPair(MissingConflicts(nodes))
    <3>1. MissingConflicts(nodes) \subseteq Nat \X Nat
      <4>1. nodes \subseteq Nat
        BY <1>1 DEF IInv, TypeOK, Decls
      <4> QED
        BY <4>1 DEF MissingConflicts
    <3>2. /\ p \in MissingConflicts(nodes) /\ p[1] \in Nat /\ p[2] \in Nat
          /\ \A q \in MissingConflicts(nodes) : p[1] < q[1] \/ (p[1] = q[1] /\ p[2] <= q[2])
      BY <2>2, <3>1, FirstPairLeast
    <3>3. Deliver(Rejection("scan", p[1], p[2]))
      BY <1>8, <2>2 DEF ScanConflicts
    <3> HIDE DEF p
    <3>4. <<"scan", p[1], p[2]>> \in D
      BY <2>1, <2>2, <3>2, DefectsFound
    <3>5. ASSUME NEW e \in D PROVE Before(<<"scan", p[1], p[2]>>, e)
      <4>1. ~ Passed(e) /\ e[1] \in DOMAIN StageRank
        BY <1>2, <2>1
      <4>2. e[1] = "scan" => <<e[2], e[3]>> \in MissingConflicts(nodes)
        BY <2>1, DefectKinds DEF IInv
      <4> QED
        BY <2>1, <3>2, <4>1, <4>2 DEF Passed, Before, StageOrder, StageRank
    <3> QED
      BY <2>1, <3>2, <3>3, <3>4, <3>5, RejectFirst
  <2>3. CASE ~ (cfg.scan /\ MissingConflicts(nodes) # {})
    <3> DEFINE v == Accepted(nodes, holes, LiveAttacks(nodes))
    <3>1. Deliver(v)
      BY <1>8, <2>3 DEF ScanConflicts
    <3>2. v \in Verdict /\ v.outcome = "accept" /\ v.holes = Decls \ CompleteDecls
      BY <2>1 DEF Accepted, Verdict, LiveAttacks, IInv, TypeOK
    <3>3. ASSUME NEW e \in D PROVE FALSE
      <4>1. ~ Passed(e) /\ e[1] \in DOMAIN StageRank
        BY <1>2, <2>1
      <4>2. e[1] # "scan"
        BY <2>1, <2>3, DefectKinds DEF IInv
      <4> QED
        BY <2>1, <4>1, <4>2 DEF Passed, StageOrder, StageRank
    <3>4. FitsDefects(cfg, v)
      BY <3>2, <3>3 DEF FitsDefects
    <3> HIDE DEF v
    <3> QED
      BY <2>1, <3>1, <3>2, <3>4, DeliverFirst
  <2> QED
    BY <2>2, <2>3
<1>9. CASE UNCHANGED vars
  <2>1. UNCHANGED <<input, todo, verdicts, stage, at, holes>>
    BY <1>9 DEF vars
  <2>2. /\ \A c : Defects(c)' = Defects(c)
        /\ Decls' = Decls /\ CompleteDecls' = CompleteDecls
    BY <2>1, DefectsRigid
  <2>3. cfg' = cfg
    BY <2>1 DEF cfg
  <2>4. NothingPassed'
    BY <2>1, <2>2, <2>3 DEF FirstInv, NothingPassed, Passed, StageOrder
  <2>5. HolesLocated' /\ VerdictIsFirstDefect'
    BY <2>1, <2>2 DEF FirstInv, HolesLocated, Accepting, VerdictIsFirstDefect
  <2> QED
    BY <2>4, <2>5 DEF FirstInv
<1> QED
  BY <1>3, <1>4, <1>5, <1>6, <1>7, <1>8, <1>9 DEF Next

\* Both invariants of the checker hold in every behaviour.
LEMMA FirstInvariant == Spec => [](IInv /\ FirstInv)
<1>1. Init => IInv /\ FirstInv
  BY InitIInv, InitFirst
<1>2. (IInv /\ FirstInv) /\ [Next]_vars => (IInv /\ FirstInv)'
  BY StepIInv, StepFirst
<1> QED
  BY <1>1, <1>2, PTL DEF Spec

-----------------------------------------------------------------------------
(* The ablations. *)

\* An accepting verdict is a function of the unit and its configuration.
LEMMA AcceptedVerdict ==
  ASSUME IInv, FirstInv, NEW n \in Accepting
  PROVE  LET ns == NodesOf(AllConfigs[n])
         IN verdicts[n] = Accepted(ns, Decls \ CompleteDecls, LiveAttacks(ns))
<1>1. n \in 1..Len(verdicts) /\ verdicts[n].outcome = "accept" /\ verdicts[n] \in Verdict
  BY DEF Accepting, IInv, TypeOK
<1>2. AcceptSound(AllConfigs[n], verdicts[n])
  BY AcceptedFacts
<1>3. verdicts[n].holes = Decls \ CompleteDecls
  BY DEF FirstInv, HolesLocated
<1>4. verdicts[n] \in [outcome : {"accept"}, nodes : SUBSET Decls, holes : SUBSET Decls,
                      live : SUBSET RawAttacks]
  BY <1>1 DEF Verdict
<1> QED
  BY <1>2, <1>3, <1>4 DEF AcceptSound, Accepted

\* A configuration with the same nodes finds nothing wrong in a unit in which
\* the frozen one, that runs every arm, found nothing.
LEMMA NoNewDefects ==
  ASSUME TypeOK, Defects(Full) = {}, NEW c \in Config, c.scan => NodesOf(c) = NodesOf(Full)
  PROVE  Defects(c) = {}
<1> SUFFICES ASSUME NEW e \in Defects(c) PROVE FALSE
  OBVIOUS
<1>1. e[1] \in DOMAIN StageRank
  BY DefectKinds
<1>2. \A k : AttackFails(c, k) => AttackFails(Full, k)
  BY DEF AttackFails, Full
<1>3. Full.scan
  BY DEF Full
<1>4. CASE e[1] \in {"rules", "signature", "policy"}
  <2>1. e[1] \in flaws
    BY <1>4, DefectKinds
  <2> QED
    BY <2>1, DefectsFound
<1>5. CASE e[1] = "duplicates"
  <2>1. <<e[2], e[3]>> \in DuplicatePairs
    BY <1>5, DefectKinds
  <2> QED
    BY <2>1, DefectsFound
<1>6. CASE e[1] = "support"
  <2>1. e[2] \in Decls /\ result[args[e[2]]] = "error"
    BY <1>6, DefectKinds
  <2> QED
    BY <2>1, DefectsFound
<1>7. CASE e[1] = "attacks"
  <2>1. e[2] \in 1..Len(atts) /\ AttackFails(Full, atts[e[2]])
    BY <1>2, <1>7, DefectKinds
  <2> QED
    BY <2>1, DefectsFound
<1>8. CASE e[1] = "scan"
  <2>1. c.scan /\ <<e[2], e[3]>> \in MissingConflicts(NodesOf(Full))
    BY <1>8, DefectKinds
  <2> QED
    BY <1>3, <2>1, DefectsFound
<1> QED
  BY <1>1, <1>4, <1>5, <1>6, <1>7, <1>8 DEF StageRank

\* They imply the scope of the ablations.
LEMMA AblationFromInvs == IInv /\ FirstInv => AblationScope
<1> SUFFICES ASSUME IInv, FirstInv, NEW f \in Accepts(Full)
             PROVE  /\ \A n \in Run(NoTyped) \cup Run(NoConflictScan) : verdicts[n] = verdicts[f]
                    /\ verdicts[f].holes = {} => \A n \in Run(NoCQ) : verdicts[n] = verdicts[f]
  BY DEF AblationScope
<1>1. f \in Accepting /\ AllConfigs[f] = Full /\ f \in 1..Len(verdicts)
  BY DEF Accepts, Run, Accepting
<1>2. Defects(Full) = {}
  BY <1>1 DEF FirstInv, VerdictIsFirstDefect, Accepting
<1>3. /\ verdicts[f] = Accepted(CompleteDecls, Decls \ CompleteDecls, LiveAttacks(CompleteDecls))
      /\ NodesOf(Full) = CompleteDecls
  <2>1. NodesOf(Full) = CompleteDecls
    BY DEF NodesOf, Full
  <2> QED
    BY <1>1, <2>1, AcceptedVerdict
<1>4. ASSUME NEW c \in Config, NodesOf(c) = CompleteDecls, NEW n \in Run(c)
      PROVE  verdicts[n] = verdicts[f]
  <2>1. n \in 1..Len(verdicts) /\ AllConfigs[n] = c
    BY DEF Run
  <2>2. Defects(c) = {}
    BY <1>2, <1>3, <1>4, NoNewDefects DEF IInv
  <2>3. n \in Accepting
    BY <2>1, <2>2 DEF FirstInv, VerdictIsFirstDefect, Accepting
  <2> QED
    BY <1>3, <1>4, <2>1, <2>3, AcceptedVerdict
<1>5. \A n \in Run(NoTyped) \cup Run(NoConflictScan) : verdicts[n] = verdicts[f]
  <2>1. NoTyped \in Config /\ NodesOf(NoTyped) = CompleteDecls
    BY DEF Config, NoTyped, NodesOf
  <2>2. NoConflictScan \in Config /\ NodesOf(NoConflictScan) = CompleteDecls
    BY DEF Config, NoConflictScan, NodesOf
  <2> QED
    BY <1>4, <2>1, <2>2
<1>6. ASSUME verdicts[f].holes = {}, NEW n \in Run(NoCQ)
      PROVE  verdicts[n] = verdicts[f]
  <2>1. CompleteDecls = Decls
    <3>1. Decls \ CompleteDecls = {}
      BY <1>3, <1>6 DEF Accepted
    <3> QED
      BY <3>1 DEF CompleteDecls
  <2>2. NoCQ \in Config /\ NodesOf(NoCQ) = CompleteDecls
    BY <2>1 DEF Config, NoCQ, NodesOf
  <2> QED
    BY <1>4, <2>2
<1> QED
  BY <1>5, <1>6

\* The checker accepts a unit exactly when nothing is wrong with it, and what it
\* rejects it for is the first of everything that is wrong with it.
THEOREM FirstDefectReported == Spec => []VerdictIsFirstDefect
BY FirstInvariant, PTL DEF FirstInv

\* Turning off an arm that only rejects changes no verdict that was accepted
\* with it, and promoting holes changes none of a unit that has no hole.
THEOREM AblationsStayInScope == Spec => []AblationScope
BY FirstInvariant, AblationFromInvs, PTL

-----------------------------------------------------------------------------
(* Descending a term along a position. *)

\* The child at a step, or nothing once a step led off range.
Below(u, s) == IF u = OffRange THEN OffRange ELSE Child(u, s)

\* The function the fold of Subterm chooses, on the first n steps.
Folded(t, pos, n, f) ==
  f = [s \in SUBSET (1 .. n) |->
         IF s = {} THEN t ELSE Below(f[s \ {Max(s)}], pos[Max(s)])]

\* A set of naturals up to n that has n in it has n as its maximum.
LEMMA MaxIsLast ==
  ASSUME NEW n \in Nat, NEW s \in SUBSET (1 .. n), n \in s
  PROVE  Max(s) = n
<1>1. n \in s /\ \A y \in s : n >= y
  OBVIOUS
<1>2. \A x \in s : (\A y \in s : x >= y) => x = n
  OBVIOUS
<1> QED BY <1>1, <1>2 DEF Max

\* Such a function exists for every number of steps.
LEMMA FoldedExists ==
  ASSUME NEW t, NEW pos, NEW n \in Nat
  PROVE  \E f : Folded(t, pos, n, f)
<1> DEFINE Bad == {m \in Nat : ~ \E f : Folded(t, pos, m, f)}
<1>1. SUFFICES ASSUME Bad # {} PROVE FALSE
  OBVIOUS
<1>2. PICK m \in Bad : \A k \in Bad : m <= k
  BY <1>1, LeastNat
<1>3. m # 0
  <2> SUFFICES ASSUME m = 0 PROVE FALSE
    OBVIOUS
  <2> DEFINE g == [s \in SUBSET (1 .. m) |-> t]
  <2>1. \A s \in SUBSET (1 .. m) : s = {}
    OBVIOUS
  <2>2. Folded(t, pos, m, g)
    BY <2>1 DEF Folded
  <2> QED BY <2>2
<1>4. m - 1 \in Nat /\ m - 1 \notin Bad
  BY <1>2, <1>3
<1>5. PICK g : Folded(t, pos, m - 1, g)
  BY <1>4
<1> DEFINE h == [s \in SUBSET (1 .. m) |-> IF m \in s THEN Below(g[s \ {m}], pos[m]) ELSE g[s]]
<1>6. ASSUME NEW s \in SUBSET (1 .. m)
      PROVE  h[s] = IF s = {} THEN t ELSE Below(h[s \ {Max(s)}], pos[Max(s)])
  <2>1. CASE m \in s
    <3>1. Max(s) = m
      BY <2>1, MaxIsLast
    <3>2. s \ {m} \in SUBSET (1 .. m)
      OBVIOUS
    <3>3. h[s \ {m}] = g[s \ {m}]
      BY <3>2
    <3> QED BY <2>1, <3>1, <3>3
  <2>2. CASE m \notin s
    <3>1. s \in SUBSET (1 .. (m - 1))
      BY <2>2
    <3>2. h[s] = g[s]
      BY <2>2
    <3>3. s # {} => Max(s) \in s
      <4>1. SUFFICES ASSUME s # {} PROVE \E x \in s : \A y \in s : x >= y
        BY DEF Max
      <4> DEFINE Up == {k \in Nat : \A y \in s : k >= y}
      <4>2. m \in Up /\ Up \in SUBSET Nat
        OBVIOUS
      <4>3. PICK k \in Up : \A j \in Up : k <= j
        BY <4>2, LeastNat
      <4>4. k \in s
        <5> SUFFICES ASSUME k \notin s PROVE FALSE
          OBVIOUS
        <5>1. \A y \in s : y \in Nat /\ k >= y /\ y # k /\ y >= 1
          BY <4>3
        <5>2. k \in Nat /\ k >= 1 /\ \A y \in s : k - 1 >= y
          <6>1. k \in Nat
            BY <4>3
          <6>2. \A y \in s : k - 1 >= y
            BY <5>1, <6>1
          <6>3. PICK y \in s : TRUE
            BY <4>1
          <6> QED BY <5>1, <6>1, <6>2, <6>3
        <5>3. k - 1 \in Up
          BY <4>3, <5>2
        <5> QED BY <4>3, <5>3
      <4> QED BY <4>3, <4>4
    <3>4. s \ {Max(s)} \in SUBSET (1 .. (m - 1))
      BY <3>1
    <3>5. g[s] = IF s = {} THEN t ELSE Below(g[s \ {Max(s)}], pos[Max(s)])
      BY <1>5, <3>1 DEF Folded
    <3>6. h[s \ {Max(s)}] = g[s \ {Max(s)}]
      BY <2>2, <3>4
    <3> QED BY <3>2, <3>5, <3>6
  <2> QED BY <2>1, <2>2
<1>7. Folded(t, pos, m, h)
  BY <1>6 DEF Folded
<1> QED BY <1>2, <1>7

\* Two such functions agree on the steps both take.
LEMMA FoldedAgree ==
  ASSUME NEW t, NEW p, NEW q, NEW m \in Nat, NEW n \in Nat, NEW f, NEW g,
         Folded(t, p, m, f), Folded(t, q, n, g),
         NEW k \in Nat, k <= m, k <= n, \A i \in 1 .. k : p[i] = q[i]
  PROVE  f[1 .. k] = g[1 .. k]
<1> DEFINE Bad == {j \in 0 .. k : f[1 .. j] # g[1 .. j]}
<1>1. SUFFICES ASSUME Bad # {} PROVE FALSE
  OBVIOUS
<1>2. PICK j \in Bad : \A i \in Bad : j <= i
  <2>1. Bad \in SUBSET Nat
    OBVIOUS
  <2> HIDE DEF Bad
  <2> QED BY <1>1, <2>1, LeastNat
<1>3. /\ f[1 .. j] = IF j = 0 THEN t ELSE Below(f[1 .. (j - 1)], p[j])
      /\ g[1 .. j] = IF j = 0 THEN t ELSE Below(g[1 .. (j - 1)], q[j])
  <2>1. 1 .. j \in SUBSET (1 .. m) /\ 1 .. j \in SUBSET (1 .. n)
    OBVIOUS
  <2>2. j = 0 => 1 .. j = {}
    OBVIOUS
  <2>3. j # 0 => 1 .. j # {} /\ Max(1 .. j) = j /\ (1 .. j) \ {j} = 1 .. (j - 1)
    <3> SUFFICES ASSUME j # 0 PROVE 1 .. j # {} /\ Max(1 .. j) = j /\ (1 .. j) \ {j} = 1 .. (j - 1)
      OBVIOUS
    <3>1. j \in Nat /\ j \in 1 .. j
      OBVIOUS
    <3>2. Max(1 .. j) = j
      BY <3>1, MaxIsLast
    <3>3. \A x : x \in (1 .. j) \ {j} <=> x \in 1 .. (j - 1)
      BY <3>1
    <3> QED BY <3>1, <3>2, <3>3
  <2>4. CASE j = 0
    <3>1. f[{}] = t /\ g[{}] = t
      BY DEF Folded
    <3> QED BY <2>2, <2>4, <3>1
  <2>5. CASE j # 0
    <3> DEFINE s == 1 .. j
    <3>1. s \in SUBSET (1 .. m) /\ s \in SUBSET (1 .. n) /\ s # {} /\ Max(s) = j /\ s \ {j} = 1 .. (j - 1)
      BY <2>1, <2>3, <2>5
    <3> HIDE DEF s
    <3>2. f[s] = Below(f[s \ {Max(s)}], p[Max(s)]) /\ g[s] = Below(g[s \ {Max(s)}], q[Max(s)])
      BY <3>1 DEF Folded
    <3>3. f[s] = Below(f[1 .. (j - 1)], p[j]) /\ g[s] = Below(g[1 .. (j - 1)], q[j])
      BY <3>1, <3>2
    <3> QED BY <2>5, <3>3 DEF s
  <2> QED BY <2>4, <2>5
<1>4. j # 0 /\ j - 1 \in 0 .. k /\ j - 1 \notin Bad
  BY <1>2, <1>3
<1> QED BY <1>2, <1>3, <1>4

\* Subterm is the last value of such a function.
LEMMA SubtermFolds ==
  ASSUME NEW t, NEW pos \in Seq(Step)
  PROVE  \E f : Folded(t, pos, Len(pos), f) /\ Subterm(t, pos) = f[1 .. Len(pos)]
<1>1. DOMAIN pos = 1 .. Len(pos) /\ Len(pos) \in Nat
  BY LenProperties
<1> DEFINE F == CHOOSE f : Folded(t, pos, Len(pos), f)
<1>2. Folded(t, pos, Len(pos), F)
  BY <1>1, FoldedExists
<1>3. Subterm(t, pos) = F[1 .. Len(pos)]
  BY <1>1 DEF Subterm, FoldLeft, MapThenFoldSet, Folded, Below
<1> QED BY <1>2, <1>3

\* The occurrence after n steps.
Along(t, pos, n) == Subterm(t, SubSeq(pos, 1, n))

\* A prefix of a position is a position.
LEMMA PrefixSteps ==
  ASSUME NEW pos \in Seq(Step), NEW n \in 0 .. Len(pos)
  PROVE  /\ SubSeq(pos, 1, n) \in Seq(Step) /\ Len(SubSeq(pos, 1, n)) = n
         /\ \A i \in 1 .. n : SubSeq(pos, 1, n)[i] = pos[i] /\ pos[i] \in Step
<1>1. \A i \in 1 .. n : pos[i] \in Step
  BY ElementOfSeq, LenProperties
<1>2. n \in Nat /\ 1 \in Int /\ n \in Int
  BY LenProperties
<1>3. /\ SubSeq(pos, 1, n) \in Seq(Step)
      /\ Len(SubSeq(pos, 1, n)) = IF 1 <= n THEN n - 1 + 1 ELSE 0
      /\ \A i \in 1 .. n - 1 + 1 : SubSeq(pos, 1, n)[i] = pos[1 + i - 1]
  BY <1>1, <1>2, SubSeqProperties
<1> QED BY <1>1, <1>2, <1>3

\* Every prefix descends by one function.
LEMMA AlongFolds ==
  ASSUME NEW t, NEW pos \in Seq(Step)
  PROVE  \E f : /\ Folded(t, pos, Len(pos), f)
                /\ \A n \in 0 .. Len(pos) : Along(t, pos, n) = f[1 .. n]
<1>1. PICK f : Folded(t, pos, Len(pos), f)
  BY FoldedExists, LenProperties
<1>2. ASSUME NEW n \in 0 .. Len(pos)
      PROVE  Along(t, pos, n) = f[1 .. n]
  <2> DEFINE p == SubSeq(pos, 1, n)
  <2>1. p \in Seq(Step) /\ Len(p) = n /\ \A i \in 1 .. n : p[i] = pos[i]
    BY PrefixSteps
  <2>2. PICK g : Folded(t, p, n, g) /\ Subterm(t, p) = g[1 .. n]
    BY <2>1, SubtermFolds
  <2>3. n \in Nat /\ Len(pos) \in Nat /\ n <= Len(pos)
    BY LenProperties
  <2>4. g[1 .. n] = f[1 .. n]
    <3> HIDE DEF p
    <3> QED BY <1>1, <2>1, <2>2, <2>3, FoldedAgree
  <2> QED BY <2>2, <2>4 DEF Along
<1> QED BY <1>1, <1>2

\* Descending: the root, each step, and the occurrence itself.
LEMMA Descent ==
  ASSUME NEW t, NEW pos \in Seq(Step)
  PROVE  /\ Along(t, pos, 0) = t
         /\ \A n \in 1 .. Len(pos) : Along(t, pos, n) = Below(Along(t, pos, n - 1), pos[n])
         /\ Subterm(t, pos) = Along(t, pos, Len(pos))
<1>1. PICK f : /\ Folded(t, pos, Len(pos), f)
               /\ \A n \in 0 .. Len(pos) : Along(t, pos, n) = f[1 .. n]
  BY AlongFolds
<1>2. Len(pos) \in Nat
  BY LenProperties
<1>3. f[{}] = t /\ 1 .. 0 = {}
  BY <1>1 DEF Folded
<1>4. ASSUME NEW n \in 1 .. Len(pos)
      PROVE  f[1 .. n] = Below(f[1 .. (n - 1)], pos[n])
  <2> DEFINE s == 1 .. n
  <2>1. n \in Nat /\ n \in s /\ s \in SUBSET (1 .. n) /\ s \in SUBSET (1 .. Len(pos)) /\ s # {}
    <3>1. n \in Nat /\ n \in 1 .. n /\ n <= Len(pos)
      BY <1>2
    <3>2. \A x \in 1 .. n : x \in 1 .. Len(pos)
      BY <1>2, <3>1
    <3> QED BY <3>1, <3>2
  <2>2. Max(s) = n
    BY <2>1, MaxIsLast
  <2>3. s \ {n} = 1 .. (n - 1)
    <3>1. \A x : x \in s \ {n} <=> x \in 1 .. (n - 1)
      BY <2>1
    <3> QED BY <3>1
  <2> HIDE DEF s
  <2>4. f[s] = Below(f[s \ {Max(s)}], pos[Max(s)])
    BY <1>1, <2>1 DEF Folded
  <2> QED BY <2>2, <2>3, <2>4 DEF s
<1>5. SubSeq(pos, 1, Len(pos)) = pos
  BY SubSeqFull
<1>6. Along(t, pos, 0) = t
  BY <1>1, <1>2, <1>3
<1>7. \A n \in 1 .. Len(pos) : Along(t, pos, n) = Below(Along(t, pos, n - 1), pos[n])
  BY <1>1, <1>2, <1>4
<1>8. Subterm(t, pos) = Along(t, pos, Len(pos))
  BY <1>5 DEF Along
<1> QED BY <1>6, <1>7, <1>8

\* One step of it.
LEMMA OneStep ==
  ASSUME NEW t, NEW pos \in Seq(Step), NEW n \in 1 .. Len(pos)
  PROVE  Along(t, pos, n) = Below(Along(t, pos, n - 1), pos[n])
BY Descent

\* Descents that meet stay together.
LEMMA DescentsMeet ==
  ASSUME NEW t, NEW u, NEW pos \in Seq(Step), NEW k \in 0 .. Len(pos),
         Along(t, pos, k) = Along(u, pos, k)
  PROVE  \A n \in k .. Len(pos) : Along(t, pos, n) = Along(u, pos, n)
<1> DEFINE Bad == {n \in k .. Len(pos) : Along(t, pos, n) # Along(u, pos, n)}
<1>1. SUFFICES ASSUME Bad # {} PROVE FALSE
  OBVIOUS
<1>2. Bad \in SUBSET Nat /\ Len(pos) \in Nat
  BY LenProperties
<1>3. PICK n \in Bad : \A m \in Bad : n <= m
  <2> HIDE DEF Bad
  <2> QED BY <1>1, <1>2, LeastNat
<1>4. n # k /\ n \in k .. Len(pos)
  BY <1>3
<1>5. n - 1 \in k .. Len(pos) /\ n - 1 \notin Bad /\ n \in 1 .. Len(pos)
  BY <1>2, <1>3, <1>4
<1>6. Along(t, pos, n) = Along(u, pos, n)
  <2>1. Along(t, pos, n - 1) = Along(u, pos, n - 1)
    BY <1>5
  <2>2. /\ Along(t, pos, n) = Below(Along(t, pos, n - 1), pos[n])
        /\ Along(u, pos, n) = Below(Along(u, pos, n - 1), pos[n])
    BY <1>5, Descent
  <2> QED BY <2>1, <2>2
<1> QED BY <1>3, <1>6

\* Two positions that begin alike lead to the same occurrences so far.
LEMMA SamePrefix ==
  ASSUME NEW t, NEW p \in Seq(Step), NEW q \in Seq(Step),
         NEW k \in Nat, k <= Len(p), k <= Len(q), \A i \in 1 .. k : p[i] = q[i]
  PROVE  SubSeq(p, 1, k) = SubSeq(q, 1, k) /\ Along(t, p, k) = Along(t, q, k)
<1>1. k \in 0 .. Len(p) /\ k \in 0 .. Len(q)
  BY LenProperties
<1>2. SubSeq(p, 1, k) = SubSeq(q, 1, k)
  BY <1>1, PrefixSteps, SeqEqual
<1> QED BY <1>2 DEF Along

-----------------------------------------------------------------------------
(* Sets of terms closed under subterms. *)

\* A node over a set of terms: its fields, and each question answered once.
NodeOver(t, P) ==
  /\ t = [root |-> t.root, prems |-> t.prems, dis |-> t.dis, holes |-> t.holes]
  /\ t.prems \in Seq(P) /\ t.dis \in Seq(Questions \X P) /\ t.holes \subseteq Questions
  /\ AnsweredOnce(t)

\* Every term of the set is a node over it.
Closed(P) == \A t \in P : NodeOver(t, P)

\* Off range is no node.
LEMMA OffRangeIsNone ==
  ASSUME NEW P, NEW t, NodeOver(t, P)
  PROVE  t # OffRange
<1>1. "prems" \in DOMAIN t
  BY DEF NodeOver
<1>2. "prems" \notin DOMAIN OffRange
  BY DEF OffRange
<1> QED BY <1>1, <1>2

\* The terms of the sources and edits are such a set.
LEMMA PartsClosed == Closed(Parts)
BY UpdateAssumption DEF Closed, NodeOver

\* A node over a set is a node over a larger one.
LEMMA NodeMonotonic ==
  ASSUME NEW P, NEW Q, P \subseteq Q, NEW t, NodeOver(t, P)
  PROVE  NodeOver(t, Q)
<1>1. Questions \X P \subseteq Questions \X Q
  OBVIOUS
<1>2. Seq(P) \subseteq Seq(Q) /\ Seq(Questions \X P) \subseteq Seq(Questions \X Q)
  BY <1>1, SeqMonotonic
<1> QED BY <1>2 DEF NodeOver

\* The first discharge of a question.
FirstOf(s, q) == SelectInSeq(s, LAMBDA d : d[1] = q)

\* It is one, if there is any.
LEMMA FirstKey ==
  ASSUME NEW s, Len(s) \in Nat, NEW q
  PROVE  \/ FirstOf(s, q) = 0 /\ \A j \in 1 .. Len(s) : s[j][1] # q
         \/ FirstOf(s, q) \in 1 .. Len(s) /\ s[FirstOf(s, q)][1] = q
<1> DEFINE I == {j \in 1 .. Len(s) : s[j][1] = q}
<1>1. CASE I = {}
  BY <1>1 DEF SelectInSeq, FirstOf
<1>2. CASE I # {}
  <2>1. I \in SUBSET Nat
    OBVIOUS
  <2>2. \E j \in I : \A k \in I : j <= k
    <3> HIDE DEF I
    <3> QED BY <1>2, <2>1, LeastNat
  <2>3. Min(I) \in I
    BY <2>2 DEF Min
  <2>4. FirstOf(s, q) = Min(I)
    BY <1>2 DEF SelectInSeq, FirstOf
  <2> QED BY <2>3, <2>4
<1> QED BY <1>1, <1>2

\* An answered question is found, one that is not is off range.
LEMMA Lookup ==
  ASSUME NEW P, NEW t, NodeOver(t, P), NEW q
  PROVE  /\ \A j \in 1 .. Len(t.dis) : t.dis[j][1] = q => LookupDis(t.dis, q) = t.dis[j][2]
         /\ (\A j \in 1 .. Len(t.dis) : t.dis[j][1] # q) => LookupDis(t.dis, q) = OffRange
<1>1. Len(t.dis) \in Nat /\ DOMAIN t.dis = 1 .. Len(t.dis)
  BY LenProperties DEF NodeOver
<1>2. \/ FirstOf(t.dis, q) = 0 /\ \A j \in 1 .. Len(t.dis) : t.dis[j][1] # q
      \/ FirstOf(t.dis, q) \in 1 .. Len(t.dis) /\ t.dis[FirstOf(t.dis, q)][1] = q
  BY <1>1, FirstKey
<1>3. \A i, j \in 1 .. Len(t.dis) : t.dis[i][1] = t.dis[j][1] => i = j
  BY <1>1 DEF NodeOver, AnsweredOnce
<1>4. LookupDis(t.dis, q) = IF FirstOf(t.dis, q) = 0 THEN OffRange ELSE t.dis[FirstOf(t.dis, q)][2]
  BY DEF LookupDis, FirstOf
<1>5. ASSUME NEW j \in 1 .. Len(t.dis), t.dis[j][1] = q
      PROVE  LookupDis(t.dis, q) = t.dis[j][2]
  <2>1. FirstOf(t.dis, q) = j
    BY <1>2, <1>3, <1>5
  <2> QED BY <1>4, <2>1
<1>6. (\A j \in 1 .. Len(t.dis) : t.dis[j][1] # q) => LookupDis(t.dis, q) = OffRange
  BY <1>2, <1>4
<1> QED BY <1>5, <1>6

\* A child of a node over P is in P, or off range.
LEMMA ChildOver ==
  ASSUME NEW P, NEW t, NodeOver(t, P), NEW s \in Step
  PROVE  Child(t, s) \in P \cup {OffRange}
<1>1. CASE s[1] = "question"
  <2>1. Len(t.dis) \in Nat
    BY LenProperties DEF NodeOver
  <2>2. CASE \E j \in 1 .. Len(t.dis) : t.dis[j][1] = s[2]
    <3>1. PICK j \in 1 .. Len(t.dis) : t.dis[j][1] = s[2]
      BY <2>2
    <3>2. t.dis[j] \in Questions \X P
      BY ElementOfSeq DEF NodeOver
    <3>3. LookupDis(t.dis, s[2]) = t.dis[j][2]
      BY <3>1, Lookup
    <3> QED BY <1>1, <3>2, <3>3 DEF Child
  <2>3. CASE \A j \in 1 .. Len(t.dis) : t.dis[j][1] # s[2]
    BY <1>1, <2>3, Lookup DEF Child
  <2> QED BY <2>2, <2>3
<1>2. CASE s[1] # "question"
  <2>1. DOMAIN t.prems = 1 .. Len(t.prems)
    BY LenProperties DEF NodeOver
  <2>2. \A i \in DOMAIN t.prems : t.prems[i] \in P
    BY <2>1, ElementOfSeq DEF NodeOver
  <2> QED BY <1>2, <2>2 DEF Child
<1> QED BY <1>1, <1>2

\* Descending a term of a closed set stays in it, or goes off range for good.
LEMMA DescentIn ==
  ASSUME NEW P, Closed(P), NEW t \in P, NEW pos \in Seq(Step)
  PROVE  /\ \A n \in 0 .. Len(pos) : Along(t, pos, n) \in P \cup {OffRange}
         /\ Subterm(t, pos) \in P \cup {OffRange}
         /\ Subterm(t, pos) # OffRange => \A n \in 0 .. Len(pos) : Along(t, pos, n) \in P
<1>1. Len(pos) \in Nat
  BY LenProperties
<1>2. ASSUME NEW n \in 0 .. Len(pos), Along(t, pos, n) \notin P \cup {OffRange}
      PROVE FALSE
  <2> DEFINE Bad == {m \in 0 .. Len(pos) : Along(t, pos, m) \notin P \cup {OffRange}}
  <2>1. Bad \in SUBSET Nat /\ Bad # {}
    BY <1>2
  <2>2. PICK m \in Bad : \A k \in Bad : m <= k
    <3> HIDE DEF Bad
    <3> QED BY <2>1, LeastNat
  <2>3. m # 0
    BY <2>2, Descent
  <2>4. m - 1 \in 0 .. Len(pos) /\ m - 1 \notin Bad /\ m \in 1 .. Len(pos)
    BY <2>2, <2>3
  <2>5. Along(t, pos, m) = Below(Along(t, pos, m - 1), pos[m])
    <3> HIDE DEF Bad
    <3> QED BY <2>4, OneStep
  <2>8. pos[m] \in Step
    BY <2>4, ElementOfSeq
  <2>6. Along(t, pos, m - 1) \in P \cup {OffRange}
    BY <2>4
  <2>7. Along(t, pos, m) \in P \cup {OffRange}
    BY <2>5, <2>6, <2>8, ChildOver DEF Below, Closed
  <2> QED BY <2>2, <2>7
<1>3. Subterm(t, pos) = Along(t, pos, Len(pos))
  BY Descent
<1>4. ASSUME NEW n \in 0 .. Len(pos), Along(t, pos, n) = OffRange
      PROVE  Subterm(t, pos) = OffRange
  <2> DEFINE Bad == {m \in n .. Len(pos) : Along(t, pos, m) # OffRange}
  <2>1. SUFFICES Bad = {}
    BY <1>1, <1>3
  <2>2. SUFFICES ASSUME Bad # {} PROVE FALSE
    OBVIOUS
  <2>3. Bad \in SUBSET Nat
    BY <1>1
  <2>4. PICK m \in Bad : \A k \in Bad : m <= k
    <3> HIDE DEF Bad
    <3> QED BY <2>2, <2>3, LeastNat
  <2>5. m # n
    BY <1>4, <2>4
  <2>6. m - 1 \in n .. Len(pos) /\ m - 1 \notin Bad /\ m \in 1 .. Len(pos)
    BY <1>1, <2>4, <2>5
  <2>7. Along(t, pos, m) = Below(Along(t, pos, m - 1), pos[m])
    BY <2>6, Descent
  <2>8. Along(t, pos, m) = OffRange
    BY <2>6, <2>7 DEF Below
  <2> QED BY <2>4, <2>8
<1>5. \A n \in 0 .. Len(pos) : Along(t, pos, n) \in P \cup {OffRange}
  BY <1>2
<1>6. Subterm(t, pos) \in P \cup {OffRange}
  BY <1>1, <1>3, <1>5
<1> QED BY <1>4, <1>5, <1>6

-----------------------------------------------------------------------------
(* Rewriting a term along a position. *)

\* A step is a premise or a question.
LEMMA TwoSteps ==
  ASSUME NEW s \in Step
  PROVE  /\ s = <<s[1], s[2]>>
         /\ \/ s[1] = "premise" /\ s[2] \in Nat
            \/ s[1] = "question" /\ s[2] \in Questions
BY DEF Step

\* Another child at a step where there was one: that child alone changes.
LEMMA Rewritten ==
  ASSUME NEW Q, NEW v, NodeOver(v, Q),
         NEW s \in Step, Child(v, s) # OffRange, NEW u \in Q
  PROVE  /\ NodeOver(WithChild(v, s, u), Q)
         /\ WithChild(v, s, u).root = v.root
         /\ Child(WithChild(v, s, u), s) = u
         /\ \A r \in Step : r # s => Child(WithChild(v, s, u), r) = Child(v, r)
<1> DEFINE w == WithChild(v, s, u)
<1>1. NodeOver(v, Q)
  OBVIOUS
<1>2. /\ s = <<s[1], s[2]>>
      /\ \/ s[1] = "premise" /\ s[2] \in Nat
         \/ s[1] = "question" /\ s[2] \in Questions
  BY TwoSteps
<1>3. CASE s[1] = "premise"
  <2> DEFINE i == s[2]
             ps == [v.prems EXCEPT ![i] = u]
  <2>1. i \in DOMAIN v.prems /\ DOMAIN v.prems = 1 .. Len(v.prems)
    BY <1>3, LenProperties DEF Child, NodeOver
  <2>2. /\ w = [v EXCEPT !.prems = ps]
        /\ w = [root |-> v.root, prems |-> ps, dis |-> v.dis, holes |-> v.holes]
    BY <1>3 DEF WithChild, NodeOver
  <2>3. ps \in Seq(Q) /\ ps[i] = u /\ DOMAIN ps = DOMAIN v.prems
        /\ \A j \in DOMAIN v.prems : j # i => ps[j] = v.prems[j]
    <3>1. v.prems \in Seq(Q)
      BY <1>1 DEF NodeOver
    <3>2. ps \in Seq(Q)
      BY <2>1, <3>1, ExceptSeq
    <3> QED BY <2>1, <3>2
  <2>4. /\ w.root = v.root /\ w.prems = ps /\ w.dis = v.dis /\ w.holes = v.holes
        /\ w = [root |-> w.root, prems |-> w.prems, dis |-> w.dis, holes |-> w.holes]
    BY <2>2
  <2>5. NodeOver(w, Q)
    <3> HIDE DEF w, ps
    <3> QED BY <1>1, <2>3, <2>4 DEF NodeOver, AnsweredOnce
  <2>6. Child(w, s) = u
    <3> HIDE DEF w, ps
    <3> QED BY <1>3, <2>1, <2>3, <2>4 DEF Child
  <2>7. ASSUME NEW r \in Step, r # s
        PROVE  Child(w, r) = Child(v, r)
    <3>1. /\ r = <<r[1], r[2]>>
          /\ r[1] = "premise" \/ r[1] = "question"
      BY TwoSteps
    <3>2. r[1] = "premise" => r[2] # i
      BY <1>2, <1>3, <2>7, <3>1
    <3> HIDE DEF w, ps
    <3> QED BY <2>3, <2>4, <3>1, <3>2 DEF Child
  <2> QED BY <2>4, <2>5, <2>6, <2>7
<1>4. CASE s[1] = "question"
  <2> DEFINE q == s[2]
             i == FirstOf(v.dis, q)
             d == [v.dis EXCEPT ![i] = <<q, u>>]
  <2>1. /\ v.dis \in Seq(Questions \X Q) /\ Len(v.dis) \in Nat /\ DOMAIN v.dis = 1 .. Len(v.dis)
        /\ q \in Questions
    BY <1>1, <1>2, <1>4, LenProperties DEF NodeOver
  <2>2. i \in 1 .. Len(v.dis) /\ v.dis[i][1] = q
    <3>1. i # 0
      BY <1>4 DEF Child, LookupDis, FirstOf
    <3> QED BY <2>1, <3>1, FirstKey
  <2>3. w = [v EXCEPT !.dis = d]
    BY <1>4 DEF WithChild, FirstOf
  <2>4. w = [root |-> v.root, prems |-> v.prems, dis |-> d, holes |-> v.holes]
    BY <2>3 DEF NodeOver
  <2>5. /\ d \in Seq(Questions \X Q) /\ DOMAIN d = DOMAIN v.dis /\ Len(d) = Len(v.dis)
        /\ d[i] = <<q, u>> /\ \A j \in DOMAIN v.dis : j # i => d[j] = v.dis[j]
    <3>1. <<q, u>> \in Questions \X Q
      BY <2>1
    <3>2. d \in Seq(Questions \X Q) /\ Len(d) = Len(v.dis)
      <4> HIDE DEF i
      <4> QED BY <2>1, <2>2, <3>1, ExceptSeq
    <3> QED BY <2>1, <2>2, <3>2
  <2>6. \A j \in DOMAIN v.dis : d[j][1] = v.dis[j][1]
    <3> HIDE DEF d, i
    <3> QED BY <2>2, <2>5
  <2>7. /\ w.root = v.root /\ w.prems = v.prems /\ w.dis = d /\ w.holes = v.holes
        /\ w = [root |-> w.root, prems |-> w.prems, dis |-> w.dis, holes |-> w.holes]
    BY <2>4
  <2>8. NodeOver(w, Q)
    <3> HIDE DEF w, d, i
    <3> QED BY <1>1, <2>5, <2>6, <2>7 DEF NodeOver, AnsweredOnce
  <2>9. Child(w, s) = u
    <3>1. LookupDis(w.dis, q) = d[i][2]
      <4> HIDE DEF w, d, i
      <4>1. i \in 1 .. Len(w.dis) /\ w.dis[i][1] = q
        BY <2>1, <2>2, <2>5, <2>7
      <4>2. LookupDis(w.dis, q) = w.dis[i][2]
        BY <2>8, <4>1, Lookup
      <4> QED BY <2>7, <4>2
    <3> QED BY <1>4, <2>5, <3>1 DEF Child
  <2>10. ASSUME NEW r \in Step, r # s
         PROVE  Child(w, r) = Child(v, r)
    <3>1. /\ r = <<r[1], r[2]>>
          /\ r[1] = "premise" \/ r[1] = "question"
      BY TwoSteps
    <3>2. CASE r[1] = "premise"
      <4> HIDE DEF w
      <4> QED BY <2>7, <3>2 DEF Child
    <3>3. CASE r[1] = "question"
      <4>1. r[2] # q
        BY <1>2, <1>4, <2>10, <3>1, <3>3
      <4>2. LookupDis(w.dis, r[2]) = LookupDis(v.dis, r[2])
        <5>1. CASE \E j \in 1 .. Len(v.dis) : v.dis[j][1] = r[2]
          <6>1. PICK j \in 1 .. Len(v.dis) : v.dis[j][1] = r[2]
            BY <5>1
          <6>2. LookupDis(v.dis, r[2]) = v.dis[j][2]
            BY <6>1, Lookup
          <6> HIDE DEF w, d, i
          <6>3. j # i /\ d[j] = v.dis[j]
            BY <2>1, <2>2, <2>5, <4>1, <6>1
          <6>5. j \in 1 .. Len(w.dis) /\ w.dis[j][1] = r[2]
            BY <2>5, <2>7, <6>1, <6>3
          <6>6. LookupDis(w.dis, r[2]) = w.dis[j][2]
            BY <2>8, <6>5, Lookup
          <6>4. LookupDis(w.dis, r[2]) = d[j][2]
            BY <2>7, <6>6
          <6> QED BY <6>2, <6>3, <6>4
        <5>2. CASE \A j \in 1 .. Len(v.dis) : v.dis[j][1] # r[2]
          <6>1. LookupDis(v.dis, r[2]) = OffRange
            BY <5>2, Lookup
          <6> HIDE DEF w, d, i
          <6>3. \A j \in 1 .. Len(w.dis) : w.dis[j][1] # r[2]
            BY <2>1, <2>5, <2>6, <2>7, <5>2
          <6>2. LookupDis(w.dis, r[2]) = OffRange
            BY <2>8, <6>3, Lookup
          <6> QED BY <6>1, <6>2
        <5> QED BY <5>1, <5>2
      <4> QED BY <3>3, <4>2 DEF Child
    <3> QED BY <3>1, <3>2, <3>3
  <2> QED BY <2>7, <2>8, <2>9, <2>10
<1> QED BY <1>2, <1>3, <1>4

\* The occurrence with the answer at the end of its discharges.
LEMMA AnswerRecord ==
  ASSUME NEW P, NEW v, NodeOver(v, P), NEW q, NEW ans
  PROVE  Answer(v, q, ans) =
           [root |-> v.root, prems |-> v.prems, dis |-> Append(v.dis, <<q, ans>>), holes |-> v.holes \ {q}]
<1> DEFINE d == Append(v.dis, <<q, ans>>)
           x == [v EXCEPT !.dis = d]
<1>1. Answer(v, q, ans) = [x EXCEPT !.holes = x.holes \ {q}]
  BY DEF Answer
<1> HIDE DEF d
<1>2. x = [root |-> v.root, prems |-> v.prems, dis |-> d, holes |-> v.holes]
  BY DEF NodeOver
<1> HIDE DEF x
<1> QED BY <1>1, <1>2 DEF d

\* The answer to an open question: no other child changes.
LEMMA Answering ==
  ASSUME NEW P, NEW v, NodeOver(v, P), NEW q \in v.holes, NEW ans \in P
  PROVE  /\ NodeOver(Answer(v, q, ans), P)
         /\ Answer(v, q, ans).root = v.root /\ Answer(v, q, ans).prems = v.prems
         /\ Answer(v, q, ans).holes = v.holes \ {q}
         /\ Answer(v, q, ans).dis = Append(v.dis, <<q, ans>>)
         /\ Child(v, <<"question", q>>) = OffRange
         /\ \A r \in Step : r # <<"question", q>> => Child(Answer(v, q, ans), r) = Child(v, r)
<1> DEFINE w == Answer(v, q, ans)
           d == Append(v.dis, <<q, ans>>)
           n == Len(v.dis)
<1>1. /\ v.dis \in Seq(Questions \X P) /\ n \in Nat /\ DOMAIN v.dis = 1 .. n
      /\ q \in Questions /\ <<q, ans>> \in Questions \X P
  BY LenProperties DEF NodeOver
<1>2. /\ d \in Seq(Questions \X P) /\ Len(d) = n + 1
      /\ \A j \in 1 .. n : d[j] = v.dis[j]
      /\ d[n + 1] = <<q, ans>> /\ DOMAIN d = 1 .. (n + 1)
  BY <1>1, AppendProperties, LenProperties
<1>3. w = [root |-> v.root, prems |-> v.prems, dis |-> d, holes |-> v.holes \ {q}]
  BY AnswerRecord
<1>4. /\ w.root = v.root /\ w.prems = v.prems /\ w.dis = d /\ w.holes = v.holes \ {q}
      /\ w = [root |-> w.root, prems |-> w.prems, dis |-> w.dis, holes |-> w.holes]
  BY <1>3
<1>5. \A j \in 1 .. n : v.dis[j][1] # q
  BY <1>1 DEF NodeOver, AnsweredOnce
<1>6. AnsweredOnce(w)
  <2>1. \A j \in 1 .. n : d[j][1] = v.dis[j][1] /\ d[j][1] # q /\ d[j][1] \notin v.holes
    BY <1>1, <1>2, <1>5 DEF NodeOver, AnsweredOnce
  <2>2. d[n + 1][1] = q
    BY <1>2
  <2>3. \A i, j \in 1 .. n : v.dis[i][1] = v.dis[j][1] => i = j
    BY <1>1 DEF NodeOver, AnsweredOnce
  <2>4. \A j \in 1 .. (n + 1) : j \in 1 .. n \/ j = n + 1
    BY <1>1
  <2> HIDE DEF w, d, n
  <2> QED BY <1>2, <1>4, <2>1, <2>2, <2>3, <2>4 DEF AnsweredOnce
<1>7. NodeOver(w, P)
  <2> HIDE DEF w, d, n
  <2> QED BY <1>2, <1>4, <1>6 DEF NodeOver
<1>8. Child(v, <<"question", q>>) = OffRange
  BY <1>5, Lookup DEF Child
<1>9. ASSUME NEW r \in Step, r # <<"question", q>>
      PROVE  Child(w, r) = Child(v, r)
  <2>1. /\ r = <<r[1], r[2]>>
        /\ r[1] = "premise" \/ r[1] = "question"
    BY TwoSteps
  <2>2. CASE r[1] = "premise"
    <3> HIDE DEF w
    <3> QED BY <1>4, <2>2 DEF Child
  <2>3. CASE r[1] = "question"
    <3>1. r[2] # q
      BY <1>9, <2>1, <2>3
    <3>2. LookupDis(w.dis, r[2]) = LookupDis(v.dis, r[2])
      <4>1. CASE \E j \in 1 .. n : v.dis[j][1] = r[2]
        <5>1. PICK j \in 1 .. n : v.dis[j][1] = r[2]
          BY <4>1
        <5>2. LookupDis(v.dis, r[2]) = v.dis[j][2]
          BY <5>1, Lookup
        <5> HIDE DEF w, d, n
        <5>4. j \in 1 .. Len(w.dis) /\ w.dis[j][1] = r[2]
          BY <1>1, <1>2, <1>4, <5>1
        <5>5. LookupDis(w.dis, r[2]) = w.dis[j][2]
          BY <1>7, <5>4, Lookup
        <5>3. LookupDis(w.dis, r[2]) = d[j][2]
          BY <1>4, <5>5
        <5> QED BY <1>2, <5>2, <5>3
      <4>2. CASE \A j \in 1 .. n : v.dis[j][1] # r[2]
        <5>1. LookupDis(v.dis, r[2]) = OffRange
          BY <4>2, Lookup
        <5> HIDE DEF w, d, n
        <5>2. \A j \in 1 .. Len(d) : d[j][1] # r[2]
          BY <1>1, <1>2, <3>1, <4>2
        <5>3. LookupDis(w.dis, r[2]) = OffRange
          BY <1>4, <1>7, <5>2, Lookup
        <5> QED BY <5>1, <5>3
      <4> QED BY <4>1, <4>2
    <3> QED BY <2>3, <3>2 DEF Child
  <2> QED BY <2>1, <2>2, <2>3
<1> QED BY <1>4, <1>7, <1>8, <1>9

-----------------------------------------------------------------------------
(* A discharge. *)

\* The function DischargeAt chooses, on the steps from the k-th on.
Rebuilt(t, pos, q, ans, k, f) ==
  f = [n \in k .. Len(pos) |->
         IF n = Len(pos) THEN Answer(Subterm(t, pos), q, ans)
         ELSE WithChild(Along(t, pos, n), pos[n + 1], f[n + 1])]

\* Such a function exists, from any step on.
LEMMA RebuiltExists ==
  ASSUME NEW t, NEW pos, Len(pos) \in Nat, NEW q, NEW ans, NEW k \in 0 .. Len(pos)
  PROVE  \E f : Rebuilt(t, pos, q, ans, k, f)
<1> DEFINE L == Len(pos)
           Bad == {j \in 0 .. L : ~ \E f : Rebuilt(t, pos, q, ans, L - j, f)}
<1>1. SUFFICES ASSUME Bad # {} PROVE FALSE
  <2>1. L - k \in 0 .. L /\ L - (L - k) = k
    OBVIOUS
  <2> QED BY <2>1
<1>2. Bad \in SUBSET Nat
  OBVIOUS
<1>3. PICK j \in Bad : \A i \in Bad : j <= i
  <2> HIDE DEF Bad
  <2> QED BY <1>1, <1>2, LeastNat
<1>4. j # 0
  <2> SUFFICES ASSUME j = 0 PROVE FALSE
    OBVIOUS
  <2> DEFINE g == [n \in L .. L |-> Answer(Subterm(t, pos), q, ans)]
  <2>1. Rebuilt(t, pos, q, ans, L - j, g)
    BY DEF Rebuilt
  <2> QED BY <1>3, <2>1
<1>5. j - 1 \in 0 .. L /\ j - 1 \notin Bad
  BY <1>3, <1>4
<1>6. PICK g : Rebuilt(t, pos, q, ans, L - (j - 1), g)
  BY <1>5
<1> DEFINE m == L - j
           h == [n \in m .. L |-> IF n = m THEN WithChild(Along(t, pos, m), pos[m + 1], g[m + 1]) ELSE g[n]]
<1>7. m \in Nat /\ m < L /\ m + 1 = L - (j - 1)
  BY <1>3, <1>4
<1>8. ASSUME NEW n \in m .. L
      PROVE  h[n] = IF n = L THEN Answer(Subterm(t, pos), q, ans)
                    ELSE WithChild(Along(t, pos, n), pos[n + 1], h[n + 1])
  <2>1. CASE n = m
    <3>1. m + 1 \in m .. L /\ m + 1 # m
      BY <1>7
    <3>2. h[m + 1] = g[m + 1] /\ h[n] = WithChild(Along(t, pos, m), pos[m + 1], g[m + 1])
      BY <2>1, <3>1
    <3> QED BY <1>7, <2>1, <3>2
  <2>2. CASE n # m
    <3>1. n \in (m + 1) .. L
      BY <1>7, <2>2
    <3>2. g[n] = IF n = L THEN Answer(Subterm(t, pos), q, ans)
                 ELSE WithChild(Along(t, pos, n), pos[n + 1], g[n + 1])
      <4> HIDE DEF m
      <4> QED BY <1>6, <1>7, <3>1 DEF Rebuilt
    <3>3. n # L => n + 1 \in m .. L /\ n + 1 # m
      BY <1>7, <3>1
    <3> QED BY <2>2, <3>2, <3>3
  <2> QED BY <2>1, <2>2
<1>9. Rebuilt(t, pos, q, ans, m, h)
  <2> HIDE DEF m
  <2> QED BY <1>8 DEF Rebuilt
<1> QED BY <1>3, <1>9

\* A discharge is possible: an open question at an occurrence.
Open(P, t, pos, q, ans) ==
  /\ Closed(P) /\ t \in P /\ ans \in P /\ pos \in Seq(Step)
  /\ Subterm(t, pos) # OffRange /\ q \in Subterm(t, pos).holes

\* Along the position it rebuilds every occurrence with the next one in it, and
\* the terms made this way are terms.
LEMMA DischargeDescent ==
  ASSUME NEW P, NEW t, NEW pos, NEW q, NEW ans, Open(P, t, pos, q, ans)
  PROVE  LET u == DischargeAt(t, pos, q, ans)
         IN /\ \E Q : P \subseteq Q /\ Closed(Q) /\ u \in Q
            /\ Along(u, pos, Len(pos)) = Answer(Subterm(t, pos), q, ans)
            /\ \A n \in 0 .. (Len(pos) - 1) :
                 Along(u, pos, n) = WithChild(Along(t, pos, n), pos[n + 1], Along(u, pos, n + 1))
<1> DEFINE u == DischargeAt(t, pos, q, ans)
           L == Len(pos)
<1>1. /\ Closed(P) /\ t \in P /\ ans \in P /\ pos \in Seq(Step)
      /\ Subterm(t, pos) # OffRange /\ q \in Subterm(t, pos).holes /\ L \in Nat
  BY LenProperties DEF Open
<1>2. PICK f : Rebuilt(t, pos, q, ans, 0, f) /\ u = f[0]
  <2> DEFINE F == CHOOSE f : Rebuilt(t, pos, q, ans, 0, f)
  <2>1. Rebuilt(t, pos, q, ans, 0, F)
    <3>1. 0 \in 0 .. Len(pos)
      BY <1>1
    <3>2. \E f : Rebuilt(t, pos, q, ans, 0, f)
      BY <1>1, <3>1, RebuiltExists
    <3> QED BY <3>2
  <2>2. u = F[0]
    BY DEF DischargeAt, Rebuilt, Along
  <2> QED BY <2>1, <2>2
<1>3. /\ f[L] = Answer(Subterm(t, pos), q, ans)
      /\ \A n \in 0 .. (L - 1) : f[n] = WithChild(Along(t, pos, n), pos[n + 1], f[n + 1])
  <2>1. \A n \in 0 .. L : f[n] = IF n = L THEN Answer(Subterm(t, pos), q, ans)
                                 ELSE WithChild(Along(t, pos, n), pos[n + 1], f[n + 1])
    BY <1>2 DEF Rebuilt
  <2> QED BY <1>1, <2>1
<1>4. /\ \A n \in 0 .. L : Along(t, pos, n) \in P
      /\ Subterm(t, pos) \in P
  BY <1>1, DescentIn
<1> DEFINE Q == P \cup {f[n] : n \in 0 .. L}
<1>5. NodeOver(f[L], Q)
  <2>1. NodeOver(Subterm(t, pos), P)
    BY <1>1, <1>4 DEF Closed
  <2>2. NodeOver(f[L], P)
    <3> DEFINE v == Subterm(t, pos)
    <3>1. NodeOver(v, P) /\ q \in v.holes /\ ans \in P
      BY <1>1, <2>1
    <3>2. f[L] = Answer(v, q, ans)
      BY <1>3
    <3> HIDE DEF v
    <3>3. NodeOver(Answer(v, q, ans), P)
      BY <3>1, Answering
    <3> QED BY <3>2, <3>3
  <2>3. P \subseteq Q
    OBVIOUS
  <2> HIDE DEF Q
  <2> QED BY <2>2, <2>3, NodeMonotonic
<1>6. ASSUME NEW n \in 0 .. (L - 1)
      PROVE  NodeOver(f[n], Q) /\ Child(f[n], pos[n + 1]) = f[n + 1]
  <2>1. n \in 0 .. L /\ n + 1 \in 0 .. L /\ n + 1 \in 1 .. L /\ (n + 1) - 1 = n
    BY <1>1
  <2>2. Along(t, pos, n) \in P /\ Along(t, pos, n + 1) \in P
    BY <1>4, <2>1
  <2>3. NodeOver(Along(t, pos, n), P) /\ NodeOver(Along(t, pos, n + 1), P)
    BY <1>1, <2>2 DEF Closed
  <2>4. Along(t, pos, n + 1) = Below(Along(t, pos, n), pos[n + 1])
    BY <1>1, <2>1, OneStep
  <2>5. Child(Along(t, pos, n), pos[n + 1]) # OffRange
    BY <2>3, <2>4, OffRangeIsNone DEF Below
  <2>6. pos[n + 1] \in Step
    BY <1>1, <2>1, ElementOfSeq
  <2>7. f[n + 1] \in Q /\ P \subseteq Q
    BY <2>1
  <2> HIDE DEF Q
  <2>8. f[n] = WithChild(Along(t, pos, n), pos[n + 1], f[n + 1])
    BY <1>3
  <2> DEFINE v == Along(t, pos, n)
             s == pos[n + 1]
             c == f[n + 1]
  <2>9. /\ NodeOver(v, Q) /\ Child(v, s) # OffRange /\ s \in Step /\ c \in Q
        /\ f[n] = WithChild(v, s, c)
    BY <2>3, <2>5, <2>6, <2>7, <2>8, NodeMonotonic
  <2>10. NodeOver(WithChild(v, s, c), Q) /\ Child(WithChild(v, s, c), s) = c
    <3> HIDE DEF v, s, c
    <3> QED BY <2>9, Rewritten
  <2> QED BY <2>9, <2>10
<1>7. \A n \in 0 .. L : NodeOver(f[n], Q)
  <2>1. \A n \in 0 .. L : n = L \/ n \in 0 .. (L - 1)
    BY <1>1
  <2> HIDE DEF Q
  <2> QED BY <1>5, <1>6, <2>1
<1>8. Closed(Q)
  <2>1. \A x \in P : NodeOver(x, Q)
    <3>1. P \subseteq Q
      OBVIOUS
    <3> HIDE DEF Q
    <3> QED BY <1>1, <3>1, NodeMonotonic DEF Closed
  <2>2. \A x \in Q : x \in P \/ \E n \in 0 .. L : x = f[n]
    OBVIOUS
  <2> HIDE DEF Q
  <2> QED BY <1>7, <2>1, <2>2 DEF Closed
<1>9. u \in Q
  BY <1>1, <1>2
<1>10. \A n \in 0 .. L : Along(u, pos, n) = f[n]
  <2> DEFINE Bad == {n \in 0 .. L : Along(u, pos, n) # f[n]}
  <2>1. SUFFICES ASSUME Bad # {} PROVE FALSE
    OBVIOUS
  <2>2. Bad \in SUBSET Nat
    OBVIOUS
  <2>3. PICK n \in Bad : \A m \in Bad : n <= m
    <3> HIDE DEF Bad
    <3> QED BY <2>1, <2>2, LeastNat
  <2>4. n # 0
    BY <1>1, <1>2, <2>3, Descent
  <2>5. n - 1 \in 0 .. (L - 1) /\ n - 1 \in 0 .. L /\ n - 1 \notin Bad /\ n \in 1 .. L /\ (n - 1) + 1 = n
    BY <1>1, <2>3, <2>4
  <2>6. Along(u, pos, n) = Below(Along(u, pos, n - 1), pos[n])
    <3> HIDE DEF Bad, u
    <3> QED BY <1>1, <2>5, OneStep
  <2>7. Along(u, pos, n - 1) = f[n - 1]
    BY <2>5
  <2>8. f[n - 1] # OffRange
    BY <1>7, <2>5, OffRangeIsNone
  <2>9. Child(f[n - 1], pos[n]) = f[n]
    <3> HIDE DEF Q
    <3> QED BY <1>6, <2>5
  <2> QED BY <2>3, <2>6, <2>7, <2>8, <2>9 DEF Below
<1>11. \A n \in 0 .. (L - 1) : n \in 0 .. L /\ n + 1 \in 0 .. L
  BY <1>1
<1>12. L \in 0 .. L
  BY <1>1
<1>13. Along(u, pos, L) = Answer(Subterm(t, pos), q, ans)
  <2> HIDE DEF u
  <2> QED BY <1>3, <1>10, <1>12
<1>14. ASSUME NEW n \in 0 .. (L - 1)
       PROVE  Along(u, pos, n) = WithChild(Along(t, pos, n), pos[n + 1], Along(u, pos, n + 1))
  <2> HIDE DEF u
  <2> QED BY <1>3, <1>10, <1>11
<1>15. P \subseteq Q
  OBVIOUS
<1> HIDE DEF Q, u
<1> QED BY <1>8, <1>9, <1>13, <1>14, <1>15 DEF u

\* None of them is off range.
LEMMA DischargeStays ==
  ASSUME NEW P, NEW t, NEW pos, NEW q, NEW ans, Open(P, t, pos, q, ans),
         NEW n \in 0 .. Len(pos)
  PROVE  Along(DischargeAt(t, pos, q, ans), pos, n) # OffRange
<1> DEFINE u == DischargeAt(t, pos, q, ans)
<1>1. PICK Q : P \subseteq Q /\ Closed(Q) /\ u \in Q
  BY DischargeDescent
<1>2. /\ Closed(P) /\ ans \in P /\ pos \in Seq(Step) /\ q \in Subterm(t, pos).holes
      /\ Subterm(t, pos) \in P
  BY DescentIn DEF Open
<1>3. NodeOver(Answer(Subterm(t, pos), q, ans), P)
  <2> DEFINE v == Subterm(t, pos)
  <2>1. NodeOver(v, P) /\ q \in v.holes
    BY <1>2 DEF Closed
  <2> HIDE DEF v
  <2>2. NodeOver(Answer(v, q, ans), P)
    BY <1>2, <2>1, Answering
  <2> QED BY <2>2 DEF v
<1>4. Along(u, pos, Len(pos)) = Answer(Subterm(t, pos), q, ans)
  BY DischargeDescent
<1>5. Subterm(u, pos) # OffRange
  BY <1>2, <1>3, <1>4, Descent, OffRangeIsNone
<1> HIDE DEF u
<1>6. Along(u, pos, n) \in Q
  BY <1>1, <1>2, <1>5, DescentIn
<1> QED BY <1>1, <1>6, OffRangeIsNone DEF Closed, u

\* On the position, the occurrences keep their roots, and every one has changed.
LEMMA DischargeOnPath ==
  ASSUME NEW P, NEW t, NEW pos, NEW q, NEW ans, Open(P, t, pos, q, ans),
         NEW n \in 0 .. Len(pos)
  PROVE  LET u == DischargeAt(t, pos, q, ans)
         IN /\ Along(u, pos, n).root = Along(t, pos, n).root
            /\ Along(u, pos, n) # Along(t, pos, n)
            /\ Along(t, pos, n) # OffRange
<1> DEFINE u == DischargeAt(t, pos, q, ans)
           L == Len(pos)
           v == Subterm(t, pos)
<1>1. /\ Closed(P) /\ t \in P /\ ans \in P /\ pos \in Seq(Step)
      /\ v # OffRange /\ q \in v.holes /\ L \in Nat
  BY LenProperties DEF Open
<1>2. /\ Along(u, pos, L) = Answer(v, q, ans)
      /\ \A m \in 0 .. (L - 1) :
           Along(u, pos, m) = WithChild(Along(t, pos, m), pos[m + 1], Along(u, pos, m + 1))
      /\ \E Q : P \subseteq Q /\ Closed(Q) /\ u \in Q
  BY DischargeDescent
<1> HIDE DEF u
<1>3. \A m \in 0 .. L : Along(t, pos, m) \in P /\ NodeOver(Along(t, pos, m), P)
  BY <1>1, DescentIn DEF Closed
<1>4. v \in P /\ NodeOver(v, P) /\ v = Along(t, pos, L)
  BY <1>1, DescentIn, Descent DEF Closed
<1> HIDE DEF v
<1>5. Answer(v, q, ans).root = v.root /\ Answer(v, q, ans).holes = v.holes \ {q}
  <2>1. NodeOver(v, P) /\ q \in v.holes /\ ans \in P
    BY <1>1, <1>4
  <2> QED BY <2>1, AnswerRecord
<1>6. Along(u, pos, n).root = Along(t, pos, n).root
  <2>1. CASE n = L
    BY <1>2, <1>4, <1>5, <2>1
  <2>2. CASE n # L
    <3> DEFINE w == Along(t, pos, n)
               c == Along(u, pos, n + 1)
               s == pos[n + 1]
    <3>1. n \in 0 .. (L - 1) /\ n + 1 \in 0 .. L /\ n + 1 \in 1 .. L /\ (n + 1) - 1 = n
      BY <1>1, <2>2
    <3>2. s \in Step
      BY <1>1, <3>1, ElementOfSeq
    <3>3. NodeOver(w, P) /\ NodeOver(Along(t, pos, n + 1), P)
      BY <1>3, <3>1
    <3>4. Along(t, pos, n + 1) = Below(w, s)
      BY <1>1, <3>1, OneStep
    <3>5. Child(w, s) # OffRange
      BY <3>3, <3>4, OffRangeIsNone DEF Below
    <3>6. PICK Q : P \subseteq Q /\ Closed(Q) /\ u \in Q
      BY <1>2
    <3>7. c \in Q \cup {OffRange}
      BY <1>1, <3>1, <3>6, DescentIn
    <3>8. Along(u, pos, n) = WithChild(w, s, c)
      BY <1>2, <3>1
    <3> HIDE DEF w, s, c
    <3>9. NodeOver(w, Q \cup {OffRange})
      <4>1. P \subseteq Q \cup {OffRange}
        BY <3>6
      <4> QED BY <3>3, <4>1, NodeMonotonic
    <3>10. WithChild(w, s, c).root = w.root
      BY <3>2, <3>5, <3>7, <3>9, Rewritten
    <3> QED BY <3>8, <3>10 DEF w
  <2> QED BY <2>1, <2>2
<1>7. Along(u, pos, n) # Along(t, pos, n)
  <2> SUFFICES ASSUME Along(u, pos, n) = Along(t, pos, n) PROVE FALSE
    OBVIOUS
  <2>1. \A m \in n .. L : Along(t, pos, m) = Along(u, pos, m)
    BY <1>1, DescentsMeet
  <2>2. Along(t, pos, L) = Along(u, pos, L)
    BY <1>1, <2>1
  <2>3. v = Answer(v, q, ans)
    BY <1>2, <1>4, <2>2
  <2>4. v.holes = v.holes \ {q}
    BY <1>5, <2>3
  <2> QED BY <1>1, <2>4
<1>8. Along(t, pos, n) # OffRange
  BY <1>3, OffRangeIsNone
<1> QED BY <1>6, <1>7, <1>8 DEF u

\* Off the position, every occurrence is what it was.
LEMMA DischargeOffPath ==
  ASSUME NEW P, NEW t, NEW pos, NEW q, NEW ans, Open(P, t, pos, q, ans),
         NEW p \in Seq(Step), Subterm(t, p) # OffRange,
         \A n \in 0 .. Len(pos) : p # SubSeq(pos, 1, n)
  PROVE  Subterm(DischargeAt(t, pos, q, ans), p) = Subterm(t, p)
<1> DEFINE u == DischargeAt(t, pos, q, ans)
           L == Len(pos)
           v == Subterm(t, pos)
<1>1. /\ Closed(P) /\ t \in P /\ ans \in P /\ pos \in Seq(Step)
      /\ v # OffRange /\ q \in v.holes /\ L \in Nat /\ Len(p) \in Nat
  BY LenProperties DEF Open
<1>2. /\ Along(u, pos, L) = Answer(v, q, ans)
      /\ \A m \in 0 .. (L - 1) :
           Along(u, pos, m) = WithChild(Along(t, pos, m), pos[m + 1], Along(u, pos, m + 1))
      /\ \E Q : P \subseteq Q /\ Closed(Q) /\ u \in Q
  BY DischargeDescent
<1> HIDE DEF u
<1>3. \A m \in 0 .. L : Along(t, pos, m) \in P /\ NodeOver(Along(t, pos, m), P)
  BY <1>1, DescentIn DEF Closed
<1>4. v \in P /\ NodeOver(v, P) /\ v = Along(t, pos, L)
  BY <1>1, DescentIn, Descent DEF Closed
<1>5. \A m \in 0 .. Len(p) : Along(t, p, m) \in P /\ NodeOver(Along(t, p, m), P)
  BY <1>1, DescentIn DEF Closed
<1> HIDE DEF v
<1> DEFINE Apart == {k \in 1 .. Len(p) : k > L \/ p[k] # pos[k]}
<1>6. Apart # {}
  <2> SUFFICES ASSUME Apart = {} PROVE FALSE
    OBVIOUS
  <2>1. \A k \in 1 .. Len(p) : k <= L /\ p[k] = pos[k]
    BY <1>1
  <2>2. Len(p) <= L
    <3>1. Len(p) = 0 \/ Len(p) \in 1 .. Len(p)
      BY <1>1
    <3> QED BY <1>1, <2>1, <3>1
  <2>3. SubSeq(p, 1, Len(p)) = SubSeq(pos, 1, Len(p)) /\ SubSeq(p, 1, Len(p)) = p
    BY <1>1, <2>1, <2>2, SamePrefix, SubSeqFull
  <2>4. Len(p) \in 0 .. L
    BY <1>1, <2>2
  <2> QED BY <2>3, <2>4
<1>7. PICK k \in Apart : \A j \in Apart : k <= j
  <2>1. Apart \in SUBSET Nat
    BY <1>1
  <2> HIDE DEF Apart
  <2> QED BY <1>6, <2>1, LeastNat
<1>8. k \in 1 .. Len(p) /\ k - 1 \in Nat /\ k - 1 <= Len(p) /\ k \in Nat
  BY <1>1, <1>7
<1>9. \A j \in 1 .. (k - 1) : j <= L /\ p[j] = pos[j]
  BY <1>1, <1>7, <1>8
<1>10. k - 1 <= L
  <2>1. k - 1 = 0 \/ k - 1 \in 1 .. (k - 1)
    BY <1>8
  <2> QED BY <1>1, <1>8, <1>9, <2>1
<1> DEFINE m == k - 1
           w == Along(t, pos, m)
           s == p[k]
<1>11. Along(t, p, m) = w /\ Along(u, p, m) = Along(u, pos, m)
  BY <1>1, <1>8, <1>9, <1>10, SamePrefix
<1>12. s \in Step /\ m \in 0 .. L /\ NodeOver(w, P)
  BY <1>1, <1>3, <1>8, <1>10, ElementOfSeq
<1>13. Along(t, p, k) = Below(w, s) /\ Along(u, p, k) = Below(Along(u, pos, m), s)
  BY <1>1, <1>8, <1>11, OneStep
<1>14. Child(w, s) # OffRange
  <2>1. k \in 0 .. Len(p)
    BY <1>8
  <2>2. Along(t, p, k) # OffRange
    BY <1>5, <2>1, OffRangeIsNone
  <2> QED BY <1>12, <1>13, <2>2, OffRangeIsNone DEF Below
<1>15. Child(Along(u, pos, m), s) = Child(w, s)
  <2>1. CASE m = L
    <3>1. w = v /\ Along(u, pos, m) = Answer(v, q, ans)
      BY <1>2, <1>4, <2>1
    <3>2. /\ Child(v, <<"question", q>>) = OffRange
          /\ \A r \in Step : r # <<"question", q>> => Child(Answer(v, q, ans), r) = Child(v, r)
      BY <1>1, <1>4, Answering
    <3>3. s # <<"question", q>>
      BY <1>14, <3>1, <3>2
    <3> HIDE DEF w, m, s
    <3> QED BY <1>12, <3>1, <3>2, <3>3
  <2>2. CASE m # L
    <3> DEFINE c == Along(u, pos, m + 1)
               r == pos[m + 1]
    <3>1. m \in 0 .. (L - 1) /\ m + 1 \in 1 .. L /\ m + 1 \in 0 .. L /\ m + 1 = k /\ (m + 1) - 1 = m
      BY <1>1, <1>8, <1>12, <2>2
    <3>2. s # r
      BY <1>7, <3>1
    <3>3. r \in Step
      BY <1>1, <3>1, ElementOfSeq
    <3>4. Along(t, pos, m + 1) = Below(w, r) /\ NodeOver(Along(t, pos, m + 1), P)
      BY <1>1, <1>3, <3>1, OneStep
    <3>5. Child(w, r) # OffRange
      BY <1>12, <3>4, OffRangeIsNone DEF Below
    <3>6. PICK Q : P \subseteq Q /\ Closed(Q) /\ u \in Q
      BY <1>2
    <3>7. c \in Q \cup {OffRange} /\ P \subseteq Q \cup {OffRange}
      BY <1>1, <3>1, <3>6, DescentIn
    <3>8. Along(u, pos, m) = WithChild(w, r, c)
      BY <1>2, <3>1
    <3> HIDE DEF w, r, c, m, s
    <3>9. NodeOver(w, Q \cup {OffRange})
      BY <1>12, <3>7, NodeMonotonic
    <3>10. Child(WithChild(w, r, c), s) = Child(w, s)
      BY <1>12, <3>2, <3>3, <3>5, <3>7, <3>9, Rewritten
    <3> QED BY <3>8, <3>10
  <2> QED BY <2>1, <2>2
<1>16. Along(u, pos, m) # OffRange
  <2> HIDE DEF m
  <2> QED BY <1>12, DischargeStays DEF u
<1>17. Along(t, p, k) = Along(u, p, k)
  BY <1>12, <1>13, <1>15, <1>16, OffRangeIsNone DEF Below
<1>18. \A n \in k .. Len(p) : Along(t, p, n) = Along(u, p, n)
  <2>1. k \in 0 .. Len(p)
    BY <1>8
  <2> HIDE DEF Apart
  <2> QED BY <1>17, <2>1, DescentsMeet
<1>19. Subterm(t, p) = Along(t, p, Len(p)) /\ Subterm(u, p) = Along(u, p, Len(p))
  BY Descent
<1> QED BY <1>1, <1>8, <1>18, <1>19 DEF u

\* No occurrence is lost, and each keeps its root: an attack stays where it was.
LEMMA DischargeKeepsRoots ==
  ASSUME NEW P, NEW t, NEW pos, NEW q, NEW ans, Open(P, t, pos, q, ans),
         NEW p \in Seq(Step), Subterm(t, p) # OffRange
  PROVE  LET u == DischargeAt(t, pos, q, ans)
         IN Subterm(u, p) # OffRange /\ Subterm(u, p).root = Subterm(t, p).root
<1>1. CASE \E n \in 0 .. Len(pos) : p = SubSeq(pos, 1, n)
  <2>1. PICK n \in 0 .. Len(pos) : p = SubSeq(pos, 1, n)
    BY <1>1
  <2>2. /\ Subterm(t, p) = Along(t, pos, n)
        /\ Subterm(DischargeAt(t, pos, q, ans), p) = Along(DischargeAt(t, pos, q, ans), pos, n)
    BY <2>1 DEF Along
  <2>3. Along(DischargeAt(t, pos, q, ans), pos, n) # OffRange
    BY DischargeStays
  <2>4. Along(DischargeAt(t, pos, q, ans), pos, n).root = Along(t, pos, n).root
    BY DischargeOnPath
  <2> QED BY <2>2, <2>3, <2>4
<1>2. CASE \A n \in 0 .. Len(pos) : p # SubSeq(pos, 1, n)
  BY <1>2, DischargeOffPath
<1> QED BY <1>1, <1>2

\* Of the positions looked at, those on the path to the discharge have changed
\* and no other has.
LEMMA DischargeChanges ==
  ASSUME NEW P, NEW t, NEW pos, NEW q, NEW ans, Open(P, t, pos, q, ans), pos \in Positions
  PROVE  \A p : p \in ChangedAt(t, DischargeAt(t, pos, q, ans)) <=>
               \E n \in 0 .. Len(pos) : p = SubSeq(pos, 1, n)
<1> DEFINE u == DischargeAt(t, pos, q, ans)
<1>1. ASSUME NEW n \in 0 .. Len(pos)
      PROVE  SubSeq(pos, 1, n) \in ChangedAt(t, u)
  <2>1. SubSeq(pos, 1, n) \in Positions
    BY UpdateAssumption
  <2>2. Along(u, pos, n) # Along(t, pos, n) /\ Along(t, pos, n) # OffRange
    BY DischargeOnPath
  <2> HIDE DEF u
  <2> QED BY <2>1, <2>2 DEF ChangedAt, Along
<1>2. ASSUME NEW p \in ChangedAt(t, u)
      PROVE  \E n \in 0 .. Len(pos) : p = SubSeq(pos, 1, n)
  <2>1. p \in Positions /\ Subterm(t, p) # OffRange /\ Subterm(u, p) # Subterm(t, p)
    BY <1>2 DEF ChangedAt
  <2>2. p \in Seq(Step)
    BY <2>1, UpdateAssumption
  <2> QED BY <2>1, <2>2, DischargeOffPath
<1> QED BY <1>1, <1>2

\* One more element.
LEMMA AppendOne ==
  ASSUME NEW S, NEW x \in Seq(S), NEW e
  PROVE  /\ Append(x, e) \in Seq(S \cup {e})
         /\ Len(x) \in Nat /\ DOMAIN x = 1 .. Len(x)
         /\ DOMAIN Append(x, e) = 1 .. (Len(x) + 1)
         /\ Len(Append(x, e)) = Len(x) + 1
         /\ \A i \in 1 .. Len(x) : Append(x, e)[i] = x[i]
         /\ Append(x, e)[Len(x) + 1] = e
<1>1. x \in Seq(S \cup {e})
  BY SeqMonotonic
<1>2. /\ Append(x, e) \in Seq(S \cup {e}) /\ Len(Append(x, e)) = Len(x) + 1
      /\ \A i \in 1 .. Len(x) : Append(x, e)[i] = x[i]
      /\ Append(x, e)[Len(x) + 1] = e
  BY <1>1, AppendProperties
<1>3. /\ Len(x) \in Nat /\ DOMAIN x = 1 .. Len(x)
      /\ DOMAIN Append(x, e) = 1 .. (Len(x) + 1)
  BY <1>1, <1>2, LenProperties
<1> QED BY <1>2, <1>3

\* What was appended is last, and what is in front is what was there.
LEMMA FrontOfAppend ==
  ASSUME NEW S, NEW x \in Seq(S), NEW e
  PROVE  Front(Append(x, e)) = x /\ Last(Append(x, e)) = e
<1> DEFINE y == Append(x, e)
           n == Len(x)
<1>1. /\ y \in Seq(S \cup {e}) /\ n \in Nat /\ Len(y) = n + 1
      /\ \A i \in 1 .. n : y[i] = x[i]
      /\ y[n + 1] = e /\ DOMAIN y = 1 .. (n + 1)
  BY AppendOne
<1> HIDE DEF y
<1>2. Last(y) = e
  BY <1>1 DEF Last
<1>3. \A i \in 1 .. n : y[i] \in S \cup {e}
  <2>1. \A i \in 1 .. n : i \in 1 .. Len(y)
    BY <1>1
  <2> QED BY <1>1, <2>1, ElementOfSeq
<1>4. /\ SubSeq(y, 1, n) \in Seq(S \cup {e})
      /\ Len(SubSeq(y, 1, n)) = IF 1 <= n THEN n - 1 + 1 ELSE 0
      /\ \A i \in 1 .. n - 1 + 1 : SubSeq(y, 1, n)[i] = y[1 + i - 1]
  BY <1>1, <1>3, SubSeqProperties
<1>5. Len(SubSeq(y, 1, n)) = n /\ \A i \in 1 .. n : SubSeq(y, 1, n)[i] = x[i]
  BY <1>1, <1>4
<1>6. x \in Seq(S \cup {e})
  BY SeqMonotonic
<1>7. SubSeq(y, 1, n) = x
  BY <1>4, <1>5, <1>6, SeqEqual
<1>8. Front(y) = x
  BY <1>1, <1>7 DEF Front
<1> QED BY <1>2, <1>8 DEF y

\* At the site itself one open question became the last discharge.
LEMMA DischargeAnswers ==
  ASSUME NEW P, NEW t, NEW pos, NEW q, NEW ans, Open(P, t, pos, q, ans)
  PROVE  AnsweredAt(t, DischargeAt(t, pos, q, ans), pos)
<1> DEFINE u == DischargeAt(t, pos, q, ans)
           v == Subterm(t, pos)
           w == Subterm(u, pos)
<1>1. /\ Closed(P) /\ t \in P /\ ans \in P /\ pos \in Seq(Step)
      /\ v # OffRange /\ q \in v.holes
  BY DEF Open
<1>2. w = Answer(v, q, ans)
  <2>1. Along(u, pos, Len(pos)) = Answer(v, q, ans)
    BY DischargeDescent
  <2> HIDE DEF u, v
  <2> QED BY <1>1, <2>1, Descent
<1>3. NodeOver(v, P)
  BY <1>1, DescentIn DEF Closed
<1>4. w = [root |-> v.root, prems |-> v.prems, dis |-> Append(v.dis, <<q, ans>>), holes |-> v.holes \ {q}]
  <2> HIDE DEF v, w
  <2> QED BY <1>2, <1>3, AnswerRecord
<1>5. Front(w.dis) = v.dis /\ Last(w.dis) = <<q, ans>>
  <2>1. w.dis = Append(v.dis, <<q, ans>>) /\ v.dis \in Seq(Questions \X P)
    BY <1>3, <1>4 DEF NodeOver
  <2> HIDE DEF v, w
  <2> QED BY <2>1, FrontOfAppend
<1>6. w.holes = v.holes \ {q} /\ w.prems = v.prems /\ Last(w.dis)[1] = q
  BY <1>4, <1>5
<1> HIDE DEF v, w
<1> QED BY <1>1, <1>5, <1>6 DEF AnsweredAt, v, w

-----------------------------------------------------------------------------
(* One edit of a checked state. *)

\* A state whose terms are in P: its arguments and leaves are declared once, its
\* metadata follow its leaves, and its attacks name its arguments.
CheckedState(s, P) ==
  /\ s = [rows |-> s.rows, leaves |-> s.leaves, metas |-> s.metas,
          attacks |-> s.attacks, groups |-> s.groups]
  /\ s.rows \in Seq(Range(s.rows))
  /\ \A i \in DOMAIN s.rows :
       s.rows[i] = [name |-> s.rows[i].name, term |-> s.rows[i].term] /\ s.rows[i].term \in P
  /\ \A i, j \in DOMAIN s.rows : s.rows[i].name = s.rows[j].name => i = j
  /\ s.leaves \in Seq(Range(s.leaves)) /\ IsInjective(s.leaves) /\ s.metas = s.leaves
  /\ s.attacks \in Seq(Range(s.attacks))
  /\ \A k \in DOMAIN s.attacks :
       /\ s.attacks[k].src \in Names(s) /\ s.attacks[k].tgt \in Names(s)
       /\ s.attacks[k].pos \in Seq(Step)

\* A row of a name is found exactly when there is one.
LEMMA RowFound ==
  ASSUME NEW s, s.rows \in Seq(Range(s.rows)), NEW n
  PROVE  /\ Row(s, n) # 0 <=> n \in Names(s)
         /\ Row(s, n) # 0 => Row(s, n) \in DOMAIN s.rows /\ s.rows[Row(s, n)].name = n
<1> DEFINE I == {j \in 1 .. Len(s.rows) : s.rows[j].name = n}
<1>1. DOMAIN s.rows = 1 .. Len(s.rows) /\ Len(s.rows) \in Nat
  BY LenProperties
<1>2. CASE I = {}
  <2>1. Row(s, n) = 0
    BY <1>2 DEF SelectInSeq, Row
  <2>2. n \notin Names(s)
    BY <1>1, <1>2 DEF Names
  <2> QED BY <2>1, <2>2
<1>3. CASE I # {}
  <2>1. I \in SUBSET Nat
    OBVIOUS
  <2>2. \E j \in I : \A k \in I : j <= k
    <3> HIDE DEF I
    <3> QED BY <1>3, <2>1, LeastNat
  <2>3. Min(I) \in I
    BY <2>2 DEF Min
  <2>4. Row(s, n) = Min(I)
    BY <1>3 DEF SelectInSeq, Row
  <2>5. Row(s, n) \in 1 .. Len(s.rows) /\ s.rows[Row(s, n)].name = n
    BY <2>3, <2>4
  <2>6. n \in Names(s)
    BY <1>1, <2>5 DEF Names
  <2> QED BY <1>1, <2>5, <2>6
<1> QED BY <1>2, <1>3

\* The row of a name is the one that has it.
LEMMA RowOfName ==
  ASSUME NEW P, NEW s, CheckedState(s, P), NEW i \in DOMAIN s.rows
  PROVE  Row(s, s.rows[i].name) = i
<1>1. s.rows \in Seq(Range(s.rows)) /\ s.rows[i].name \in Names(s)
  BY DEF CheckedState, Names
<1>2. /\ Row(s, s.rows[i].name) \in DOMAIN s.rows
      /\ s.rows[Row(s, s.rows[i].name)].name = s.rows[i].name
  BY <1>1, RowFound
<1> QED BY <1>2 DEF CheckedState

\* A sequence with one more element is a sequence of its own elements.
LEMMA AppendOwn ==
  ASSUME NEW x, x \in Seq(Range(x)), NEW e
  PROVE  /\ Append(x, e) \in Seq(Range(Append(x, e)))
         /\ Range(Append(x, e)) = Range(x) \cup {e}
<1> DEFINE y == Append(x, e)
           n == Len(x)
<1>1. /\ y \in Seq(Range(x) \cup {e})
      /\ n \in Nat /\ DOMAIN x = 1 .. n /\ DOMAIN y = 1 .. (n + 1)
      /\ \A i \in 1 .. n : y[i] = x[i]
      /\ y[n + 1] = e
  BY AppendOne
<1> HIDE DEF y, n
<1>2. \A i \in 1 .. (n + 1) : i \in 1 .. n \/ i = n + 1
  BY <1>1
<1>3. \A i \in 1 .. n : i \in 1 .. (n + 1)
  BY <1>1
<1>4. n + 1 \in 1 .. (n + 1)
  BY <1>1
<1>5. Range(y) = Range(x) \cup {e}
  BY <1>1, <1>2, <1>3, <1>4 DEF Range
<1> QED BY <1>1, <1>5 DEF y

\* An injective sequence stays so with an element it does not have.
LEMMA AppendFresh ==
  ASSUME NEW x, x \in Seq(Range(x)), IsInjective(x), NEW e, \A i \in DOMAIN x : x[i] # e
  PROVE  IsInjective(Append(x, e))
<1>1. /\ Len(x) \in Nat /\ DOMAIN x = 1 .. Len(x)
      /\ DOMAIN Append(x, e) = 1 .. (Len(x) + 1)
      /\ \A i \in 1 .. Len(x) : Append(x, e)[i] = x[i]
      /\ Append(x, e)[Len(x) + 1] = e
  BY AppendOne
<1>2. \A i \in 1 .. (Len(x) + 1) : i \in 1 .. Len(x) \/ i = Len(x) + 1
  BY <1>1
<1> QED BY <1>1, <1>2 DEF IsInjective

\* The state one may ask about: a leaf.
LEMMA LeafKeepsChecked ==
  ASSUME NEW P, NEW s, CheckedState(s, P), NEW e, e.kind = "leaf", Precondition(s, e)
  PROVE  /\ CheckedState(RawEdit(s, e), P)
         /\ RawEdit(s, e).rows = s.rows /\ RawEdit(s, e).attacks = s.attacks
         /\ RawEdit(s, e).groups = s.groups
         /\ Range(RawEdit(s, e).leaves) = Range(s.leaves) \cup {e.id}
         /\ \A members \in s.groups : e.id \notin members
<1> DEFINE w == RawEdit(s, e)
           l == Append(s.leaves, e.id)
<1>1. LeafFresh(s, e.id)
  BY DEF Precondition
<1>2. w = [rows |-> s.rows, leaves |-> l, metas |-> l, attacks |-> s.attacks, groups |-> s.groups]
  <2> DEFINE x == [s EXCEPT !.metas = l]
  <2>1. s.metas = s.leaves
    BY DEF CheckedState
  <2>2. w = [[s EXCEPT !.metas = Append(s.metas, e.id)] EXCEPT !.leaves = Append(s.leaves, e.id)]
    BY DEF RawEdit, CheckedState
  <2> HIDE DEF w, l
  <2>3. w = [x EXCEPT !.leaves = l]
    BY <2>1, <2>2 DEF l
  <2>4. x = [rows |-> s.rows, leaves |-> s.leaves, metas |-> l, attacks |-> s.attacks, groups |-> s.groups]
    BY DEF CheckedState
  <2> HIDE DEF x
  <2> QED BY <2>3, <2>4
<1>3. s.leaves \in Seq(Range(s.leaves)) /\ IsInjective(s.leaves)
  BY DEF CheckedState
<1>4. l \in Seq(Range(l)) /\ Range(l) = Range(s.leaves) \cup {e.id}
  BY <1>3, AppendOwn
<1>5. IsInjective(l)
  BY <1>1, <1>3, AppendFresh DEF LeafFresh
<1> HIDE DEF w, l
<1>6. /\ w.rows = s.rows /\ w.leaves = l /\ w.metas = l /\ w.attacks = s.attacks /\ w.groups = s.groups
      /\ w = [rows |-> w.rows, leaves |-> w.leaves, metas |-> w.metas,
              attacks |-> w.attacks, groups |-> w.groups]
  BY <1>2
<1>7. CheckedState(w, P)
  BY <1>4, <1>5, <1>6 DEF CheckedState, Names
<1>8. \A members \in s.groups : e.id \notin members
  BY <1>1 DEF LeafFresh
<1> QED BY <1>4, <1>6, <1>7, <1>8 DEF w

\* An attack: on declared arguments.
LEMMA AttackKeepsChecked ==
  ASSUME NEW P, NEW s, CheckedState(s, P), NEW e, e.kind = "attack", e.attack.pos \in Seq(Step),
         Precondition(s, e)
  PROVE  /\ CheckedState(RawEdit(s, e), P)
         /\ RawEdit(s, e).rows = s.rows /\ RawEdit(s, e).leaves = s.leaves
         /\ RawEdit(s, e).groups = s.groups
         /\ \A k \in DOMAIN s.attacks : RawEdit(s, e).attacks[k] = s.attacks[k]
<1> DEFINE w == RawEdit(s, e)
           a == Append(s.attacks, e.attack)
           n == Len(s.attacks)
<1>1. e.attack.src \in Names(s) /\ e.attack.tgt \in Names(s)
  <2>1. EndpointDeclared(s, e.attack)
    BY DEF Precondition
  <2>2. s.rows \in Seq(Range(s.rows))
    BY DEF CheckedState
  <2> QED BY <2>1, <2>2, RowFound DEF EndpointDeclared
<1>2. w = [rows |-> s.rows, leaves |-> s.leaves, metas |-> s.metas, attacks |-> a, groups |-> s.groups]
  <2>1. w = [s EXCEPT !.attacks = a]
    BY DEF RawEdit
  <2> HIDE DEF w, a
  <2> QED BY <2>1 DEF CheckedState
<1>3. s.attacks \in Seq(Range(s.attacks))
  BY DEF CheckedState
<1>4. a \in Seq(Range(a))
  BY <1>3, AppendOwn
<1>5. /\ n \in Nat /\ DOMAIN s.attacks = 1 .. n /\ DOMAIN a = 1 .. (n + 1)
      /\ \A i \in 1 .. n : a[i] = s.attacks[i]
      /\ a[n + 1] = e.attack
  BY <1>3, AppendOne
<1> HIDE DEF w, a, n
<1>6. /\ w.rows = s.rows /\ w.leaves = s.leaves /\ w.metas = s.metas /\ w.attacks = a /\ w.groups = s.groups
      /\ w = [rows |-> w.rows, leaves |-> w.leaves, metas |-> w.metas,
              attacks |-> w.attacks, groups |-> w.groups]
  BY <1>2
<1>7. \A k \in DOMAIN a : a[k].src \in Names(s) /\ a[k].tgt \in Names(s) /\ a[k].pos \in Seq(Step)
  <2>1. \A i \in 1 .. (n + 1) : i \in 1 .. n \/ i = n + 1
    BY <1>5
  <2> QED BY <1>1, <1>5, <2>1 DEF CheckedState
<1>8. Names(w) = Names(s)
  BY <1>6 DEF Names
<1>9. CheckedState(w, P)
  BY <1>4, <1>6, <1>7, <1>8 DEF CheckedState
<1> QED BY <1>5, <1>6, <1>9 DEF w

\* A new argument, under a new name.
LEMMA InstanceKeepsChecked ==
  ASSUME NEW P, NEW s, CheckedState(s, P), NEW e, e.kind = "instance", e.term \in P,
         Precondition(s, e)
  PROVE  /\ CheckedState(RawEdit(s, e), P)
         /\ RawEdit(s, e).leaves = s.leaves /\ RawEdit(s, e).attacks = s.attacks
         /\ RawEdit(s, e).groups = s.groups
         /\ \A i \in DOMAIN s.rows : i \in DOMAIN RawEdit(s, e).rows /\ RawEdit(s, e).rows[i] = s.rows[i]
<1> DEFINE w == RawEdit(s, e)
           new == [name |-> e.name, term |-> e.term]
           r == Append(s.rows, new)
           n == Len(s.rows)
<1>1. \A i \in DOMAIN s.rows : s.rows[i].name # e.name
  <2>1. InstanceFresh(s, e.name, e.term)
    BY DEF Precondition
  <2> QED BY <2>1 DEF InstanceFresh
<1>2. w = [rows |-> r, leaves |-> s.leaves, metas |-> s.metas, attacks |-> s.attacks, groups |-> s.groups]
  <2>1. w = [s EXCEPT !.rows = r]
    BY DEF RawEdit
  <2> HIDE DEF w, r
  <2> QED BY <2>1 DEF CheckedState
<1>3. s.rows \in Seq(Range(s.rows))
  BY DEF CheckedState
<1>4. r \in Seq(Range(r))
  <2> HIDE DEF new
  <2> QED BY <1>3, AppendOwn
<1>5. /\ n \in Nat /\ DOMAIN s.rows = 1 .. n /\ DOMAIN r = 1 .. (n + 1)
      /\ \A i \in 1 .. n : r[i] = s.rows[i]
      /\ r[n + 1] = new
  <2> HIDE DEF new
  <2> QED BY <1>3, AppendOne
<1>6. new = [name |-> new.name, term |-> new.term] /\ new.name = e.name /\ new.term \in P
  OBVIOUS
<1> HIDE DEF w, r, n, new
<1>7. /\ w.rows = r /\ w.leaves = s.leaves /\ w.metas = s.metas /\ w.attacks = s.attacks /\ w.groups = s.groups
      /\ w = [rows |-> w.rows, leaves |-> w.leaves, metas |-> w.metas,
              attacks |-> w.attacks, groups |-> w.groups]
  BY <1>2
<1>8. /\ \A i \in 1 .. (n + 1) : i \in 1 .. n \/ i = n + 1
      /\ \A i \in 1 .. n : i \in 1 .. (n + 1)
  BY <1>5
<1>9. \A i \in DOMAIN r : r[i] = [name |-> r[i].name, term |-> r[i].term] /\ r[i].term \in P
  BY <1>5, <1>6, <1>8 DEF CheckedState
<1>10. \A i, j \in DOMAIN r : r[i].name = r[j].name => i = j
  BY <1>1, <1>5, <1>6, <1>8 DEF CheckedState
<1>11. Names(s) \subseteq Names(w)
  BY <1>5, <1>7, <1>8 DEF Names
<1>12. CheckedState(w, P)
  BY <1>4, <1>7, <1>9, <1>10, <1>11 DEF CheckedState
<1> QED BY <1>5, <1>7, <1>8, <1>12 DEF w

\* The row a discharge rewrites: the one of its name, where the site is open.
LEMMA DischargeRow ==
  ASSUME NEW P, Closed(P), NEW s, CheckedState(s, P),
         NEW e, e.kind = "discharge", e.term \in P, e.pos \in Seq(Step), Precondition(s, e)
  PROVE  \E k \in DOMAIN s.rows :
           /\ s.rows[k].name = e.name
           /\ Open(P, s.rows[k].term, e.pos, e.question, e.term)
<1>1. DischargeOpen(s, e.name, e.pos, e.question)
  BY DEF Precondition
<1>2. s.rows \in Seq(Range(s.rows))
  BY DEF CheckedState
<1> DEFINE k == Row(s, e.name)
<1>3. k # 0 /\ OpenAt(s.rows[k].term, e.pos, e.question)
  BY <1>1 DEF DischargeOpen
<1>4. k \in DOMAIN s.rows /\ s.rows[k].name = e.name
  BY <1>2, <1>3, RowFound
<1> HIDE DEF k
<1>5. Open(P, s.rows[k].term, e.pos, e.question, e.term)
  BY <1>3, <1>4 DEF Open, OpenAt, CheckedState
<1> QED BY <1>4, <1>5

\* What becomes of the rows.
LEMMA DischargedRows ==
  ASSUME NEW P, NEW s, CheckedState(s, P), NEW e, NEW k \in DOMAIN s.rows,
         s.rows[k].name = e.name, Open(P, s.rows[k].term, e.pos, e.question, e.term)
  PROVE  LET r == DischargeRows(s.rows, e)
         IN /\ DOMAIN r = DOMAIN s.rows
            /\ r[k] = [name |-> e.name,
                       term |-> DischargeAt(s.rows[k].term, e.pos, e.question, e.term)]
            /\ \A i \in DOMAIN s.rows : i # k => r[i] = s.rows[i]
            /\ r \in Seq(Range(r))
<1> DEFINE r == DischargeRows(s.rows, e)
           u == DischargeAt(s.rows[k].term, e.pos, e.question, e.term)
<1>1. DOMAIN r = DOMAIN s.rows
  BY DEF DischargeRows
<1>2. \A i \in DOMAIN s.rows : i # k => r[i] = s.rows[i]
  BY DEF DischargeRows, CheckedState
<1>3. OpenAt(s.rows[k].term, e.pos, e.question)
  BY DEF Open, OpenAt
<1>4. r[k] = [s.rows[k] EXCEPT !.term = u]
  BY <1>3 DEF DischargeRows
<1>5. s.rows[k] = [name |-> s.rows[k].name, term |-> s.rows[k].term]
  BY DEF CheckedState
<1>6. r[k] = [name |-> e.name, term |-> u]
  <2> HIDE DEF r, u
  <2> QED BY <1>4, <1>5
<1>7. r \in Seq(Range(r))
  <2>1. DOMAIN s.rows = 1 .. Len(s.rows) /\ Len(s.rows) \in Nat
    BY LenProperties DEF CheckedState
  <2>2. r = [i \in 1 .. Len(s.rows) |-> r[i]]
    BY <2>1 DEF DischargeRows
  <2>3. \A i \in 1 .. Len(s.rows) : r[i] \in Range(r)
    BY <1>1, <2>1 DEF Range
  <2> HIDE DEF r
  <2> QED BY <2>1, <2>2, <2>3, IsASeq
<1> QED BY <1>1, <1>2, <1>6, <1>7

\* A discharge: one argument is rewritten, under its name and in its place.
LEMMA DischargeKeepsChecked ==
  ASSUME NEW P, Closed(P), NEW s, CheckedState(s, P),
         NEW e, e.kind = "discharge", e.term \in P, e.pos \in Seq(Step), Precondition(s, e)
  PROVE  /\ \E Q : P \subseteq Q /\ Closed(Q) /\ CheckedState(RawEdit(s, e), Q)
         /\ RawEdit(s, e).rows = DischargeRows(s.rows, e)
         /\ RawEdit(s, e).leaves = s.leaves /\ RawEdit(s, e).attacks = s.attacks
         /\ RawEdit(s, e).groups = s.groups
<1> DEFINE w == RawEdit(s, e)
           r == DischargeRows(s.rows, e)
<1>1. PICK k \in DOMAIN s.rows :
           /\ s.rows[k].name = e.name
           /\ Open(P, s.rows[k].term, e.pos, e.question, e.term)
  BY DischargeRow
<1> DEFINE u == DischargeAt(s.rows[k].term, e.pos, e.question, e.term)
<1>2. /\ DOMAIN r = DOMAIN s.rows
      /\ r[k] = [name |-> e.name, term |-> u]
      /\ \A i \in DOMAIN s.rows : i # k => r[i] = s.rows[i]
      /\ r \in Seq(Range(r))
  BY <1>1, DischargedRows
<1>3. w = [rows |-> r, leaves |-> s.leaves, metas |-> s.metas, attacks |-> s.attacks, groups |-> s.groups]
  <2>1. w = [s EXCEPT !.rows = r]
    BY DEF RawEdit
  <2> HIDE DEF w, r
  <2> QED BY <2>1 DEF CheckedState
<1>4. PICK Q : P \subseteq Q /\ Closed(Q) /\ u \in Q
  BY <1>1, DischargeDescent
<1> HIDE DEF w, r, u
<1>5. /\ w.rows = r /\ w.leaves = s.leaves /\ w.metas = s.metas /\ w.attacks = s.attacks /\ w.groups = s.groups
      /\ w = [rows |-> w.rows, leaves |-> w.leaves, metas |-> w.metas,
              attacks |-> w.attacks, groups |-> w.groups]
  BY <1>3
<1>6. \A i \in DOMAIN r : r[i].name = s.rows[i].name
  BY <1>1, <1>2
<1>7. \A i \in DOMAIN r : r[i] = [name |-> r[i].name, term |-> r[i].term] /\ r[i].term \in Q
  <2>1. r[k] = [name |-> r[k].name, term |-> r[k].term] /\ r[k].term \in Q
    BY <1>2, <1>4
  <2> QED BY <1>2, <1>4, <2>1 DEF CheckedState
<1>8. \A i, j \in DOMAIN r : r[i].name = r[j].name => i = j
  BY <1>2, <1>6 DEF CheckedState
<1>9. Names(w) = Names(s)
  BY <1>2, <1>5, <1>6 DEF Names
<1>10. CheckedState(w, Q)
  BY <1>2, <1>5, <1>7, <1>8, <1>9 DEF CheckedState
<1> QED BY <1>4, <1>5, <1>10 DEF w, r

-----------------------------------------------------------------------------
(* The edits of a batch one update at a time. *)

\* The function OneAtATime chooses, on the first n edits.
After(s, b, n, f) ==
  f = [m \in 0 .. n |->
         IF m = 0 THEN <<s, TRUE>>
         ELSE LET x == f[m - 1] IN <<RawEdit(x[1], b[m]), x[2] /\ Precondition(x[1], b[m])>>]

\* Such a function exists for every number of edits.
LEMMA AfterExists ==
  ASSUME NEW s, NEW b, NEW n \in Nat
  PROVE  \E f : After(s, b, n, f)
<1> DEFINE Bad == {m \in Nat : ~ \E f : After(s, b, m, f)}
           Next1(x, m) == <<RawEdit(x[1], b[m]), x[2] /\ Precondition(x[1], b[m])>>
<1>1. SUFFICES ASSUME Bad # {} PROVE FALSE
  OBVIOUS
<1>2. PICK m \in Bad : \A k \in Bad : m <= k
  BY <1>1, LeastNat
<1>3. m # 0
  <2> SUFFICES ASSUME m = 0 PROVE FALSE
    OBVIOUS
  <2> DEFINE g == [i \in 0 .. m |-> <<s, TRUE>>]
  <2>1. \A i \in 0 .. m : i = 0
    OBVIOUS
  <2>2. After(s, b, m, g)
    BY <2>1 DEF After
  <2> QED BY <2>2
<1>4. m - 1 \in Nat /\ m - 1 \notin Bad /\ m \in Nat
  BY <1>2, <1>3
<1>5. PICK g : After(s, b, m - 1, g)
  BY <1>4
<1> DEFINE h == [i \in 0 .. m |-> IF i = m THEN Next1(g[m - 1], m) ELSE g[i]]
<1>6. \A i \in 0 .. (m - 1) : g[i] = IF i = 0 THEN <<s, TRUE>> ELSE Next1(g[i - 1], i)
  BY <1>5 DEF After
<1> HIDE DEF Next1
<1>7. ASSUME NEW i \in 0 .. m
      PROVE  h[i] = IF i = 0 THEN <<s, TRUE>> ELSE Next1(h[i - 1], i)
  <2>1. CASE i = m
    <3>1. i - 1 \in 0 .. m /\ i - 1 # m /\ i # 0
      BY <1>3, <1>4, <2>1
    <3> QED BY <2>1, <3>1
  <2>2. CASE i # m
    <3>1. i \in 0 .. (m - 1) /\ (i # 0 => i - 1 \in 0 .. m /\ i - 1 # m)
      BY <1>4, <2>2
    <3> QED BY <1>6, <2>2, <3>1
  <2> QED BY <2>1, <2>2
<1>8. After(s, b, m, h)
  <2>1. h = [i \in 0 .. m |-> IF i = 0 THEN <<s, TRUE>> ELSE Next1(h[i - 1], i)]
    <3>1. h = [i \in 0 .. m |-> h[i]]
      OBVIOUS
    <3> HIDE DEF h
    <3> QED BY <1>7, <3>1
  <2> HIDE DEF h
  <2> QED BY <2>1 DEF After, Next1
<1> QED BY <1>2, <1>8

\* Two such functions agree on the edits both have.
LEMMA AfterAgree ==
  ASSUME NEW s, NEW b, NEW c, NEW m \in Nat, NEW n \in Nat, NEW f, NEW g,
         After(s, b, m, f), After(s, c, n, g),
         NEW k \in Nat, k <= m, k <= n, \A i \in 1 .. k : b[i] = c[i]
  PROVE  f[k] = g[k]
<1> DEFINE Bad == {j \in 0 .. k : f[j] # g[j]}
           One(x, e) == <<RawEdit(x[1], e), x[2] /\ Precondition(x[1], e)>>
<1>1. SUFFICES ASSUME Bad # {} PROVE FALSE
  OBVIOUS
<1>2. PICK j \in Bad : \A i \in Bad : j <= i
  <2>1. Bad \in SUBSET Nat
    OBVIOUS
  <2> HIDE DEF Bad
  <2> QED BY <1>1, <2>1, LeastNat
<1>3. /\ \A i \in 0 .. m : f[i] = IF i = 0 THEN <<s, TRUE>> ELSE One(f[i - 1], b[i])
      /\ \A i \in 0 .. n : g[i] = IF i = 0 THEN <<s, TRUE>> ELSE One(g[i - 1], c[i])
  BY DEF After
<1> HIDE DEF One
<1>4. j \in 0 .. m /\ j \in 0 .. n
  BY <1>2
<1>5. j # 0
  BY <1>2, <1>3, <1>4
<1>6. j - 1 \in 0 .. k /\ j - 1 \notin Bad /\ j \in 1 .. k
  BY <1>2, <1>5
<1>7. f[j - 1] = g[j - 1] /\ b[j] = c[j]
  BY <1>6
<1> QED BY <1>2, <1>3, <1>4, <1>5, <1>7

\* What the edits of a batch make of a state one at a time, and whether each was allowed.
AfterAll(s, b) ==
  LET after[n \in 0..Len(b)] ==
        IF n = 0 THEN <<s, TRUE>>
        ELSE LET x == after[n - 1]
             IN <<RawEdit(x[1], b[n]), x[2] /\ Precondition(x[1], b[n])>>
  IN after[Len(b)]

\* It is the last value of such a function.
LEMMA AfterAllLast ==
  ASSUME NEW s, NEW b, Len(b) \in Nat
  PROVE  \E f : After(s, b, Len(b), f) /\ AfterAll(s, b) = f[Len(b)]
<1> DEFINE F == CHOOSE f : After(s, b, Len(b), f)
<1>1. After(s, b, Len(b), F)
  BY AfterExists
<1>2. AfterAll(s, b) = F[Len(b)]
  BY DEF AfterAll, After
<1> QED BY <1>1, <1>2

\* No edits leave the state.
LEMMA AfterNone ==
  ASSUME NEW s
  PROVE  AfterAll(s, <<>>) = <<s, TRUE>>
<1>1. Len(<<>>) = 0
  OBVIOUS
<1>2. PICK f : After(s, <<>>, 0, f) /\ AfterAll(s, <<>>) = f[0]
  BY <1>1, AfterAllLast
<1>3. f[0] = <<s, TRUE>>
  BY <1>2 DEF After
<1> QED BY <1>2, <1>3

\* One more allowed edit is made of what the others left.
LEMMA AfterOneMore ==
  ASSUME NEW S, NEW b \in Seq(S), NEW s, NEW w, AfterAll(s, b) = <<w, TRUE>>,
         NEW e, Precondition(w, e)
  PROVE  AfterAll(s, Append(b, e)) = <<RawEdit(w, e), TRUE>>
<1> DEFINE c == Append(b, e)
           n == Len(b)
<1>1. /\ n \in Nat /\ Len(c) = n + 1 /\ c[n + 1] = e
      /\ \A i \in 1 .. n : c[i] = b[i]
  BY AppendOne
<1> HIDE DEF c
<1>2. PICK f : After(s, b, n, f) /\ AfterAll(s, b) = f[n]
  BY <1>1, AfterAllLast
<1>3. PICK g : After(s, c, n + 1, g) /\ AfterAll(s, c) = g[n + 1]
  BY <1>1, AfterAllLast
<1>4. f[n] = g[n]
  <2> DEFINE m == n + 1
  <2>1. n \in Nat /\ m \in Nat /\ n <= n /\ n <= m /\ \A i \in 1 .. n : b[i] = c[i]
    BY <1>1
  <2>2. After(s, b, n, f) /\ After(s, c, m, g)
    BY <1>2, <1>3
  <2> HIDE DEF n, m
  <2> QED BY <2>1, <2>2, AfterAgree
<1>5. g[n + 1] = <<RawEdit(g[n][1], c[n + 1]), g[n][2] /\ Precondition(g[n][1], c[n + 1])>>
  <2>1. n + 1 \in 0 .. (n + 1) /\ n + 1 # 0 /\ (n + 1) - 1 = n
    BY <1>1
  <2> HIDE DEF n
  <2> QED BY <1>3, <2>1 DEF After
<1>6. g[n] = <<w, TRUE>>
  BY <1>2, <1>4
<1>7. g[n][1] = w /\ g[n][2] = TRUE
  BY <1>6
<1> QED BY <1>1, <1>3, <1>5, <1>7 DEF c

-----------------------------------------------------------------------------
(* The invariant. *)

\* A state over some terms is one over more.
LEMMA CheckedMonotonic ==
  ASSUME NEW P, NEW Q, P \subseteq Q, NEW s, CheckedState(s, P)
  PROVE  CheckedState(s, Q)
BY DEF CheckedState

\* An edit is of one of four kinds, with what its kind asks.
LEMMA EditKinds ==
  ASSUME NEW e \in Edits
  PROVE  \/ e.kind = "leaf"
         \/ e.kind = "attack" /\ e.attack.pos \in Seq(Step)
         \/ e.kind = "instance" /\ e.term \in Parts
         \/ /\ e.kind = "discharge" /\ e.term \in Parts
            /\ e.pos \in Positions /\ e.pos \in Seq(Step)
BY UpdateAssumption

\* An edit whose side condition holds leaves a checked state, the same groups,
\* and each group the leaves it had.
LEMMA EditKeepsChecked ==
  ASSUME NEW P, Parts \subseteq P, Closed(P), NEW s, CheckedState(s, P),
         NEW e \in Edits, Precondition(s, e)
  PROVE  LET w == RawEdit(s, e)
         IN /\ \E Q : P \subseteq Q /\ Closed(Q) /\ CheckedState(w, Q)
            /\ w.groups = s.groups
            /\ \A members \in s.groups :
                 members \cap Range(w.leaves) = members \cap Range(s.leaves)
<1> DEFINE w == RawEdit(s, e)
<1>1. CASE e.kind = "leaf"
  <2>1. /\ CheckedState(w, P) /\ w.groups = s.groups
        /\ Range(w.leaves) = Range(s.leaves) \cup {e.id}
        /\ \A members \in s.groups : e.id \notin members
    BY <1>1, LeafKeepsChecked
  <2> HIDE DEF w
  <2>2. \A members \in s.groups : members \cap Range(w.leaves) = members \cap Range(s.leaves)
    BY <2>1
  <2> QED BY <2>1, <2>2 DEF w
<1>2. CASE e.kind = "attack" /\ e.attack.pos \in Seq(Step)
  <2>1. CheckedState(w, P) /\ w.groups = s.groups /\ w.leaves = s.leaves
    BY <1>2, AttackKeepsChecked
  <2> HIDE DEF w
  <2> QED BY <2>1 DEF w
<1>3. CASE e.kind = "instance" /\ e.term \in Parts
  <2>1. CheckedState(w, P) /\ w.groups = s.groups /\ w.leaves = s.leaves
    BY <1>3, InstanceKeepsChecked
  <2> HIDE DEF w
  <2> QED BY <2>1 DEF w
<1>4. CASE e.kind = "discharge" /\ e.term \in Parts /\ e.pos \in Seq(Step)
  <2>1. /\ \E Q : P \subseteq Q /\ Closed(Q) /\ CheckedState(w, Q)
        /\ w.groups = s.groups /\ w.leaves = s.leaves
    BY <1>4, DischargeKeepsChecked
  <2> HIDE DEF w
  <2> QED BY <2>1 DEF w
<1> QED BY <1>1, <1>2, <1>3, <1>4, EditKinds

\* The caller's state and the one a batch is building are checked states over
\* the same terms, the batch declared no member of a group, and it is its edits
\* one after the other.
UpdateInv ==
  /\ \E P : Parts \subseteq P /\ Closed(P) /\ CheckedState(source, P) /\ CheckedState(work, P)
  /\ batch \in Seq(Edits)
  /\ work.groups = source.groups
  /\ \A members \in source.groups :
       members \cap Range(work.leaves) = members \cap Range(source.leaves)
  /\ OneAtATime

\* A batch of no edits on the state it started from.
LEMMA NoEditsYet ==
  ASSUME batch = <<>>, work = source
  PROVE  OneAtATime
<1>1. OneAtATime <=> AfterAll(source, batch) = <<work, TRUE>>
  BY DEF OneAtATime, AfterAll
<1> QED BY <1>1, AfterNone

\* The sources are checked states over the terms there are.
LEMMA SourceChecked ==
  ASSUME NEW s \in Sources
  PROVE  CheckedState(s, Parts)
<1> DEFINE N == {s.rows[i].name : i \in DOMAIN s.rows}
<1>1. /\ s = [rows |-> s.rows, leaves |-> s.leaves, metas |-> s.metas,
              attacks |-> s.attacks, groups |-> s.groups]
      /\ s.rows \in Seq([name : N, term : Parts])
      /\ IsInjective([i \in DOMAIN s.rows |-> s.rows[i].name])
      /\ s.leaves \in Seq(Range(s.leaves)) /\ IsInjective(s.leaves) /\ s.metas = s.leaves
      /\ s.attacks \in Seq(Range(s.attacks))
      /\ \A k \in DOMAIN s.attacks :
           {s.attacks[k].src, s.attacks[k].tgt} \subseteq N /\ s.attacks[k].pos \in Seq(Step)
  BY UpdateAssumption
<1>2. N = Names(s)
  BY DEF Names
<1> HIDE DEF N
<1>3. DOMAIN s.rows = 1 .. Len(s.rows) /\ Len(s.rows) \in Nat
  BY <1>1, LenProperties
<1>4. \A i \in DOMAIN s.rows : s.rows[i] \in [name : N, term : Parts]
  BY <1>1, <1>3, ElementOfSeq
<1>5. s.rows \in Seq(Range(s.rows))
  <2>1. s.rows = [i \in 1 .. Len(s.rows) |-> s.rows[i]]
    BY <1>1, <1>3
  <2>2. \A i \in 1 .. Len(s.rows) : s.rows[i] \in Range(s.rows)
    BY <1>3 DEF Range
  <2> QED BY <1>3, <2>1, <2>2, IsASeq
<1>6. \A i, j \in DOMAIN s.rows : s.rows[i].name = s.rows[j].name => i = j
  BY <1>1 DEF IsInjective
<1>7. \A k \in DOMAIN s.attacks :
         s.attacks[k].src \in Names(s) /\ s.attacks[k].tgt \in Names(s) /\ s.attacks[k].pos \in Seq(Step)
  BY <1>1, <1>2
<1> QED BY <1>1, <1>4, <1>5, <1>6, <1>7 DEF CheckedState

\* It holds at the start.
LEMMA UpdateInvInit == UpdateInit => UpdateInv
<1> SUFFICES ASSUME UpdateInit PROVE UpdateInv
  OBVIOUS
<1>1. source \in Sources /\ work = source /\ batch = <<>>
  BY DEF UpdateInit
<1>2. CheckedState(source, Parts) /\ Closed(Parts)
  BY <1>1, SourceChecked, PartsClosed
<1>3. OneAtATime
  BY <1>1, NoEditsYet
<1>4. batch \in Seq(Edits)
  BY <1>1
<1> QED BY <1>1, <1>2, <1>3, <1>4 DEF UpdateInv

\* Every step keeps it.
LEMMA UpdateInvNext == UpdateInv /\ [UpdateNext]_updateVars => UpdateInv'
<1> SUFFICES ASSUME UpdateInv, [UpdateNext]_updateVars
             PROVE  UpdateInv'
  OBVIOUS
<1>1. PICK P : Parts \subseteq P /\ Closed(P) /\ CheckedState(source, P) /\ CheckedState(work, P)
  BY DEF UpdateInv
<1>2. CASE Edit
  <2>1. PICK e \in Edits : Precondition(work, e) /\ work' = RawEdit(work, e) /\ batch' = Append(batch, e)
    BY <1>2 DEF Edit, CheckedAgainst
  <2>2. source' = source
    BY <1>2 DEF Edit
  <2>3. /\ \E Q : P \subseteq Q /\ Closed(Q) /\ CheckedState(work', Q)
        /\ work'.groups = work.groups
        /\ \A members \in work.groups :
             members \cap Range(work'.leaves) = members \cap Range(work.leaves)
    BY <1>1, <2>1, EditKeepsChecked
  <2>4. PICK Q : P \subseteq Q /\ Closed(Q) /\ CheckedState(work', Q)
    BY <2>3
  <2>5. Parts \subseteq Q /\ CheckedState(source, Q)
    BY <1>1, <2>4, CheckedMonotonic
  <2>6. CheckedState(source', Q)
    BY <2>2, <2>5
  <2>7. batch' \in Seq(Edits)
    BY <2>1, AppendProperties DEF UpdateInv
  <2>8. OneAtATime'
    <3>1. AfterAll(source, batch) = <<work, TRUE>>
      BY DEF UpdateInv, OneAtATime, AfterAll
    <3>2. AfterAll(source, Append(batch, e)) = <<RawEdit(work, e), TRUE>>
      BY <2>1, <3>1, AfterOneMore DEF UpdateInv
    <3>3. AfterAll(source', batch') = <<work', TRUE>>
      BY <2>1, <2>2, <3>2
    <3>4. OneAtATime' <=> AfterAll(source', batch') = <<work', TRUE>>
      BY DEF OneAtATime, AfterAll
    <3> QED BY <3>3, <3>4
  <2>9. /\ work'.groups = source'.groups
        /\ \A members \in source'.groups :
             members \cap Range(work'.leaves) = members \cap Range(source'.leaves)
    BY <2>2, <2>3 DEF UpdateInv
  <2>10. \E R : Parts \subseteq R /\ Closed(R) /\ CheckedState(source', R) /\ CheckedState(work', R)
    BY <2>4, <2>5, <2>6
  <2> QED BY <2>7, <2>8, <2>9, <2>10 DEF UpdateInv
<1>3. CASE Reject
  <2>1. work' = source /\ source' = source /\ batch' = <<>>
    BY <1>3 DEF Reject, KeptOnRejection
  <2>2. OneAtATime'
    <3>1. AfterAll(source', batch') = <<work', TRUE>>
      BY <2>1, AfterNone
    <3>2. OneAtATime' <=> AfterAll(source', batch') = <<work', TRUE>>
      BY DEF OneAtATime, AfterAll
    <3> QED BY <3>1, <3>2
  <2>3. batch' \in Seq(Edits)
    BY <2>1
  <2>4. CheckedState(source', P) /\ CheckedState(work', P)
    BY <1>1, <2>1
  <2> QED BY <1>1, <2>1, <2>2, <2>3, <2>4 DEF UpdateInv
<1>4. CASE Accept
  <2>1. work' = work /\ source' = work /\ batch' = <<>>
    BY <1>4 DEF Accept
  <2>2. OneAtATime'
    <3>1. AfterAll(source', batch') = <<work', TRUE>>
      BY <2>1, AfterNone
    <3>2. OneAtATime' <=> AfterAll(source', batch') = <<work', TRUE>>
      BY DEF OneAtATime, AfterAll
    <3> QED BY <3>1, <3>2
  <2>3. batch' \in Seq(Edits)
    BY <2>1
  <2>4. CheckedState(source', P) /\ CheckedState(work', P)
    BY <1>1, <2>1
  <2> QED BY <1>1, <2>1, <2>2, <2>3, <2>4 DEF UpdateInv
<1>5. CASE UNCHANGED updateVars
  <2>1. source' = source /\ work' = work /\ batch' = batch
    BY <1>5 DEF updateVars
  <2>2. OneAtATime'
    <3>1. AfterAll(source, batch) = <<work, TRUE>>
      BY DEF UpdateInv, OneAtATime, AfterAll
    <3>2. AfterAll(source', batch') = <<work', TRUE>>
      BY <2>1, <3>1
    <3>3. OneAtATime' <=> AfterAll(source', batch') = <<work', TRUE>>
      BY DEF OneAtATime, AfterAll
    <3> QED BY <3>2, <3>3
  <2>3. CheckedState(source', P) /\ CheckedState(work', P)
    BY <1>1, <2>1
  <2>4. batch' \in Seq(Edits)
    BY <2>1 DEF UpdateInv
  <2>5. /\ work'.groups = source'.groups
        /\ \A members \in source'.groups :
             members \cap Range(work'.leaves) = members \cap Range(source'.leaves)
    BY <2>1 DEF UpdateInv
  <2> QED BY <1>1, <2>2, <2>3, <2>4, <2>5 DEF UpdateInv
<1> QED BY <1>2, <1>3, <1>4, <1>5 DEF UpdateNext

\* The states the caller and a batch hold stay checked, whatever batches are
\* applied (Lara.Update: applyUpdate, applyBatch, applyRawEdit).
THEOREM UpdateInvariant == UpdateSpec => []UpdateInv
BY UpdateInvInit, UpdateInvNext, PTL DEF UpdateSpec

\* A checked state declares nothing twice and answers no question twice.
LEMMA CheckedIdentities ==
  ASSUME NEW P, Closed(P), NEW s, CheckedState(s, P)
  PROVE  /\ s.metas = s.leaves
         /\ IsInjective(s.leaves)
         /\ IsInjective([i \in DOMAIN s.rows |-> s.rows[i].name])
         /\ \A i \in DOMAIN s.rows, pos \in Positions :
              LET u == Subterm(s.rows[i].term, pos) IN u # OffRange => AnsweredOnce(u)
<1>1. s.metas = s.leaves /\ IsInjective(s.leaves)
  BY DEF CheckedState
<1>2. IsInjective([i \in DOMAIN s.rows |-> s.rows[i].name])
  BY DEF CheckedState, IsInjective
<1>3. ASSUME NEW i \in DOMAIN s.rows, NEW pos \in Positions, Subterm(s.rows[i].term, pos) # OffRange
      PROVE  AnsweredOnce(Subterm(s.rows[i].term, pos))
  <2> DEFINE t == s.rows[i].term
  <2>1. t \in P /\ pos \in Seq(Step)
    BY UpdateAssumption DEF CheckedState
  <2> HIDE DEF t
  <2>2. Subterm(t, pos) \in P \cup {OffRange}
    BY <2>1, DescentIn
  <2>3. NodeOver(Subterm(t, pos), P)
    BY <1>3, <2>2 DEF Closed, t
  <2> QED BY <2>3 DEF NodeOver, t
<1> QED BY <1>1, <1>2, <1>3

\* Whatever batches are applied, no leaf or argument is declared twice, the
\* metadata follow the leaves, and no answer is shadowed (applyRawEdit).
THEOREM IdentitiesAlwaysHold == UpdateSpec => []IdentitiesHold
<1>1. UpdateInv => IdentitiesHold
  <2> SUFFICES ASSUME UpdateInv PROVE IdentitiesHold
    OBVIOUS
  <2>1. PICK P : Closed(P) /\ CheckedState(source, P) /\ CheckedState(work, P)
    BY DEF UpdateInv
  <2>2. ASSUME NEW s \in {source, work}
        PROVE  CheckedState(s, P)
    BY <2>1
  <2> QED BY <2>1, <2>2, CheckedIdentities DEF IdentitiesHold
<1> QED BY <1>1, UpdateInvariant, PTL

\* A batch is its edits one update at a time, and no step adds a declared
\* member to a group of duplicate reports (applyBatch, leaf freshness).
THEOREM BatchesAlwaysCompose == UpdateSpec => BatchesCompose
<1> DEFINE A == /\ OneAtATime
                /\ \A members \in source.groups :
                     members \cap Range(source'.leaves) = members \cap Range(source.leaves)
<1>1. UpdateInv /\ [UpdateNext]_updateVars => A
  <2> SUFFICES ASSUME UpdateInv, [UpdateNext]_updateVars PROVE A
    OBVIOUS
  <2>1. OneAtATime
    BY DEF UpdateInv
  <2>2. source' = source \/ source' = work
    BY DEF UpdateNext, Edit, Reject, Accept, updateVars
  <2>3. \A members \in source.groups :
          members \cap Range(work.leaves) = members \cap Range(source.leaves)
    BY DEF UpdateInv
  <2> QED BY <2>1, <2>2, <2>3
<1> QED BY <1>1, UpdateInvariant, PTL DEF UpdateSpec, BatchesCompose

-----------------------------------------------------------------------------
(* Attacks under edits. *)

\* The occurrence an attack addresses, in the row of its target.
LEMMA AddressedIn ==
  ASSUME NEW P, NEW s, CheckedState(s, P), NEW k, NEW i \in DOMAIN s.rows,
         s.rows[i].name = s.attacks[k].tgt
  PROVE  Addressed(s, k) = Subterm(s.rows[i].term, s.attacks[k].pos)
<1>1. Row(s, s.attacks[k].tgt) = i
  BY RowOfName
<1>2. s.attacks[k].tgt \in Names(s)
  BY DEF Names
<1> QED BY <1>1, <1>2 DEF Addressed

\* An edit whose side condition holds moves no attack to another occurrence.
LEMMA EditKeepsAim ==
  ASSUME NEW P, Parts \subseteq P, Closed(P), NEW s, CheckedState(s, P),
         NEW e \in Edits, Precondition(s, e), NEW k \in DOMAIN s.attacks
  PROVE  /\ RawEdit(s, e).attacks[k] = s.attacks[k]
         /\ Addressed(s, k) # OffRange =>
              /\ Addressed(RawEdit(s, e), k) # OffRange
              /\ Addressed(RawEdit(s, e), k).root = Addressed(s, k).root
<1> DEFINE w == RawEdit(s, e)
<1>1. PICK Q : P \subseteq Q /\ Closed(Q) /\ CheckedState(w, Q)
  BY EditKeepsChecked
<1>2. PICK i \in DOMAIN s.rows : s.rows[i].name = s.attacks[k].tgt
  BY DEF CheckedState, Names
<1>3. s.attacks[k].pos \in Seq(Step) /\ s.rows[i].term \in P
  BY DEF CheckedState
<1>4. Addressed(s, k) = Subterm(s.rows[i].term, s.attacks[k].pos)
  BY <1>2, AddressedIn
<1>5. CASE e.kind \in {"leaf", "attack", "instance"}
  <2>1. /\ w.attacks[k] = s.attacks[k]
        /\ i \in DOMAIN w.rows /\ w.rows[i] = s.rows[i]
    <3>1. CASE e.kind = "leaf"
      <4>1. w.rows = s.rows /\ w.attacks = s.attacks
        BY <3>1, LeafKeepsChecked
      <4> QED BY <4>1
    <3>2. CASE e.kind = "attack"
      <4>1. e.attack.pos \in Seq(Step)
        BY <3>2, EditKinds
      <4>2. w.rows = s.rows /\ w.attacks[k] = s.attacks[k]
        BY <3>2, <4>1, AttackKeepsChecked
      <4> QED BY <4>2
    <3>3. CASE e.kind = "instance"
      <4>1. e.term \in P
        BY <3>3, EditKinds
      <4>2. w.attacks = s.attacks /\ i \in DOMAIN w.rows /\ w.rows[i] = s.rows[i]
        BY <3>3, <4>1, InstanceKeepsChecked
      <4> QED BY <4>2
    <3> QED BY <1>5, <3>1, <3>2, <3>3
  <2>2. Addressed(w, k) = Subterm(w.rows[i].term, w.attacks[k].pos)
    <3> HIDE DEF w
    <3> QED BY <1>1, <1>2, <2>1, AddressedIn
  <2> HIDE DEF w
  <2> QED BY <1>4, <2>1, <2>2 DEF w
<1>6. CASE e.kind = "discharge"
  <2>1. e.term \in P /\ e.pos \in Seq(Step)
    BY <1>6, EditKinds
  <2>2. w.rows = DischargeRows(s.rows, e) /\ w.attacks = s.attacks
    BY <1>6, <2>1, DischargeKeepsChecked
  <2>3. PICK j \in DOMAIN s.rows :
           /\ s.rows[j].name = e.name
           /\ Open(P, s.rows[j].term, e.pos, e.question, e.term)
    BY <1>6, <2>1, DischargeRow
  <2> DEFINE t == s.rows[j].term
             u == DischargeAt(t, e.pos, e.question, e.term)
  <2>4. /\ DOMAIN w.rows = DOMAIN s.rows
        /\ w.rows[j] = [name |-> e.name, term |-> u]
        /\ \A m \in DOMAIN s.rows : m # j => w.rows[m] = s.rows[m]
    <3> DEFINE r == DischargeRows(s.rows, e)
    <3>1. /\ DOMAIN r = DOMAIN s.rows
          /\ r[j] = [name |-> e.name, term |-> u]
          /\ \A m \in DOMAIN s.rows : m # j => r[m] = s.rows[m]
      BY <2>3, DischargedRows
    <3> HIDE DEF w, r
    <3> QED BY <2>2, <3>1 DEF r
  <2>5. i \in DOMAIN w.rows /\ w.rows[i].name = s.rows[i].name
    <3> HIDE DEF w, u
    <3> QED BY <2>3, <2>4
  <2>6. Addressed(w, k) = Subterm(w.rows[i].term, w.attacks[k].pos)
    <3> HIDE DEF w
    <3> QED BY <1>1, <1>2, <2>2, <2>5, AddressedIn
  <2>7. CASE i = j
    <3> DEFINE p == s.attacks[k].pos
    <3>1. Open(P, t, e.pos, e.question, e.term) /\ p \in Seq(Step)
      BY <1>3, <2>3
    <3>2. Addressed(s, k) = Subterm(t, p) /\ Addressed(w, k) = Subterm(u, p)
      <4> HIDE DEF w, u
      <4> QED BY <1>4, <2>2, <2>4, <2>6, <2>7
    <3>3. Subterm(t, p) # OffRange => Subterm(u, p) # OffRange /\ Subterm(u, p).root = Subterm(t, p).root
      <4> HIDE DEF t, p
      <4> QED BY <3>1, DischargeKeepsRoots
    <3> HIDE DEF w, u, t, p
    <3> QED BY <2>2, <3>2, <3>3 DEF w
  <2>8. CASE i # j
    <3> HIDE DEF w
    <3> QED BY <1>4, <2>2, <2>4, <2>6, <2>8 DEF w
  <2> QED BY <2>7, <2>8
<1> QED BY <1>5, <1>6, EditKinds

\* It changes at most one argument, along the path to one occurrence.
LEMMA EditChangesOne ==
  ASSUME NEW P, Parts \subseteq P, Closed(P), NEW s, CheckedState(s, P),
         NEW e \in Edits, Precondition(s, e)
  PROVE  LET w == RawEdit(s, e)
             changed == {i \in DOMAIN s.rows : w.rows[i] # s.rows[i]}
         IN /\ \A i, j \in changed : i = j
            /\ \A i \in changed :
                 LET t == s.rows[i].term  u == w.rows[i].term
                 IN \E site \in ChangedAt(t, u) :
                      /\ ChangedAt(t, u) = {SubSeq(site, 1, n) : n \in 0..Len(site)}
                      /\ AnsweredAt(t, u, site)
<1> DEFINE w == RawEdit(s, e)
           changed == {i \in DOMAIN s.rows : w.rows[i] # s.rows[i]}
<1>1. CASE e.kind \in {"leaf", "attack", "instance"}
  <2>1. \A i \in DOMAIN s.rows : w.rows[i] = s.rows[i]
    <3>1. CASE e.kind = "leaf"
      <4>1. w.rows = s.rows
        BY <3>1, LeafKeepsChecked
      <4> QED BY <4>1
    <3>2. CASE e.kind = "attack"
      <4>1. e.attack.pos \in Seq(Step)
        BY <3>2, EditKinds
      <4>2. w.rows = s.rows
        BY <3>2, <4>1, AttackKeepsChecked
      <4> QED BY <4>2
    <3>3. CASE e.kind = "instance"
      <4>1. e.term \in P
        BY <3>3, EditKinds
      <4> QED BY <3>3, <4>1, InstanceKeepsChecked
    <3> QED BY <1>1, <3>1, <3>2, <3>3
  <2> HIDE DEF w
  <2>2. changed = {}
    BY <2>1
  <2> HIDE DEF changed
  <2> QED BY <2>2 DEF changed, w
<1>2. CASE e.kind = "discharge"
  <2>1. e.term \in P /\ e.pos \in Seq(Step) /\ e.pos \in Positions
    BY <1>2, EditKinds
  <2>2. w.rows = DischargeRows(s.rows, e)
    BY <1>2, <2>1, DischargeKeepsChecked
  <2>3. PICK j \in DOMAIN s.rows :
           /\ s.rows[j].name = e.name
           /\ Open(P, s.rows[j].term, e.pos, e.question, e.term)
    BY <1>2, <2>1, DischargeRow
  <2> DEFINE t == s.rows[j].term
             u == DischargeAt(t, e.pos, e.question, e.term)
  <2>4. /\ w.rows[j] = [name |-> e.name, term |-> u]
        /\ \A m \in DOMAIN s.rows : m # j => w.rows[m] = s.rows[m]
    <3> HIDE DEF w
    <3> QED BY <2>2, <2>3, DischargedRows
  <2>5. ChangedAt(t, u) = {SubSeq(e.pos, 1, n) : n \in 0 .. Len(e.pos)}
    <3> DEFINE p == e.pos
               q == e.question
               a == e.term
    <3>1. p \in Positions /\ Open(P, t, p, q, a)
      BY <2>1, <2>3
    <3> HIDE DEF t, p, q, a
    <3>2. \A x : x \in ChangedAt(t, DischargeAt(t, p, q, a)) <=>
                 \E n \in 0 .. Len(p) : x = SubSeq(p, 1, n)
      BY <3>1, DischargeChanges
    <3>3. ChangedAt(t, DischargeAt(t, p, q, a)) = {SubSeq(p, 1, n) : n \in 0 .. Len(p)}
      BY <3>2
    <3> QED BY <3>3 DEF p, q, a
  <2>6. AnsweredAt(t, u, e.pos)
    BY <2>3, DischargeAnswers
  <2>7. e.pos \in ChangedAt(t, u)
    <3>1. SubSeq(e.pos, 1, Len(e.pos)) = e.pos /\ Len(e.pos) \in 0 .. Len(e.pos)
      BY <2>1, SubSeqFull, LenProperties
    <3> HIDE DEF t, u
    <3> QED BY <2>5, <3>1
  <2> HIDE DEF w, t, u
  <2>8. \A i \in changed : i = j
    BY <2>4
  <2>9. w.rows[j].term = u
    BY <2>4
  <2>10. \A i, j_1 \in changed : i = j_1
    BY <2>8
  <2>11. ASSUME NEW i \in changed
         PROVE  \E site \in ChangedAt(s.rows[i].term, w.rows[i].term) :
                  /\ ChangedAt(s.rows[i].term, w.rows[i].term) = {SubSeq(site, 1, n) : n \in 0..Len(site)}
                  /\ AnsweredAt(s.rows[i].term, w.rows[i].term, site)
    <3>1. s.rows[i].term = t /\ w.rows[i].term = u
      BY <2>8, <2>9 DEF t
    <3> QED BY <2>5, <2>6, <2>7, <3>1
  <2> HIDE DEF changed
  <2> QED BY <2>10, <2>11 DEF changed, w
<1> QED BY <1>1, <1>2, EditKinds

\* One edit rewrites one argument along one path, and no attack loses the
\* occurrence it addresses (applyRawEdit, dischargeAt).
THEOREM EditsAlwaysLocal == UpdateSpec => EditsAreLocal
<1> DEFINE A ==
      /\ Aimed
      /\ answer'.verdict = "none" =>
           LET changed == {i \in DOMAIN work.rows : work'.rows[i] # work.rows[i]}
           IN /\ \A i, j \in changed : i = j
              /\ \A i \in changed :
                   LET t == work.rows[i].term  u == work'.rows[i].term
                   IN \E site \in ChangedAt(t, u) :
                        /\ ChangedAt(t, u) = {SubSeq(site, 1, n) : n \in 0..Len(site)}
                        /\ AnsweredAt(t, u, site)
<1>1. UpdateInv /\ UpdateInv' /\ [UpdateNext]_updateVars => A
  <2> SUFFICES ASSUME UpdateInv, UpdateInv', [UpdateNext]_updateVars PROVE A
    OBVIOUS
  <2>1. PICK P : Parts \subseteq P /\ Closed(P) /\ CheckedState(work, P)
    BY DEF UpdateInv
  <2>2. \A k \in DOMAIN work'.attacks : {work'.attacks[k].src, work'.attacks[k].tgt} \subseteq Names(work')
    <3>1. PICK Q : CheckedState(work', Q)
      BY DEF UpdateInv
    <3> QED BY <3>1 DEF CheckedState
  <2>3. CASE Edit
    <3>1. PICK e \in Edits : Precondition(work, e) /\ work' = RawEdit(work, e)
      BY <2>3 DEF Edit, CheckedAgainst
    <3>2. Aimed
      BY <2>1, <2>2, <3>1, EditKeepsAim DEF Aimed
    <3>3. A
      BY <2>1, <3>1, <3>2, EditChangesOne
    <3> QED BY <3>3
  <2>4. CASE Reject
    <3>1. answer'.verdict = "BatchEdit"
      BY <2>4 DEF Reject, Answered
    <3> QED BY <2>2, <3>1 DEF Aimed
  <2>5. CASE Accept \/ UNCHANGED updateVars
    <3>1. work' = work
      BY <2>5 DEF Accept, updateVars
    <3>2. Aimed
      BY <2>2, <3>1 DEF Aimed
    <3> QED BY <3>1, <3>2
  <2> QED BY <2>3, <2>4, <2>5 DEF UpdateNext
<1> QED BY <1>1, UpdateInvariant, PTL DEF UpdateSpec, EditsAreLocal
=============================================================================
