------------------------------ MODULE CheckUnit ------------------------------
(***************************************************************************)
(* The executable acceptance boundary (Lara.Check.checkUnitWith): seven    *)
(* stages in fixed order, each rejecting on its first defect, then the     *)
(* partition of the checked arguments into AF nodes and located holes and  *)
(* the conflict scan.  The measurement harness runs one unit under several *)
(* ablation configurations in turn, the frozen one first; so does this     *)
(* module, keeping the verdict of each.                                    *)
(*                                                                         *)
(* An AF node is named by its checked declaration index: the code's node   *)
(* positions are the order-preserving renumbering of those indices, which  *)
(* cuNodeDecls (declOf) undoes when a defect is located.                   *)
(***************************************************************************)
EXTENDS Terms, Frameworks, Sequences, Naturals

CONSTANTS
  ArgLists,      \* the argument term lists a unit can declare
  AttackLists,   \* the raw attack lists a unit can declare
  Contraries,    \* the contrary relations (pairs of props) a policy can declare
  Exceptions,    \* the exception relations (prop, occurrence) it can declare
  Flaws          \* the sets of policy stages a unit can fail

ASSUME ListAssumption ==
  /\ ArgLists \subseteq Seq(Term)
  /\ AttackLists \subseteq Seq(RAttack)
  /\ Flaws \subseteq SUBSET {"rules", "signature", "policy"}

VARIABLES
  args, atts, contrary, exception,  \* the unit and its policy
  flaws,     \* which of the rules, the signature and the policy are defective
  result,    \* what inferSupport answers for each term
  todo,      \* the configurations still to run
  stage,     \* the stage that runs next
  at,        \* the declaration it looks at
  nodes,     \* cuNodeDecls
  holes,     \* the declaration indices of cuHoles
  verdicts   \* the verdict of each configuration that has run

input == <<args, atts, contrary, exception, flaws, result>>
vars  == <<input, todo, stage, at, nodes, holes, verdicts>>

-----------------------------------------------------------------------------
(* Configurations (CheckConfig). *)

Config == [promote : BOOLEAN, typed : BOOLEAN, scan : BOOLEAN]

Full           == [promote |-> FALSE, typed |-> TRUE,  scan |-> TRUE]
NoCQ           == [promote |-> TRUE,  typed |-> TRUE,  scan |-> TRUE]
NoTyped        == [promote |-> FALSE, typed |-> FALSE, scan |-> FALSE]
NoConflictScan == [promote |-> FALSE, typed |-> TRUE,  scan |-> FALSE]

AllConfigs == <<Full, NoCQ, NoTyped, NoConflictScan>>

cfg == Head(todo)

-----------------------------------------------------------------------------
(* The unit. *)

Decls == 1..Len(args)

RawAttacks == {atts[k] : k \in 1..Len(atts)}

\* What inferSupport can answer: a term with a failing occurrence fails, and
\* the obligations of an occurrence are obligations of the whole term.
Inference ==
  {r \in [Term -> {"complete", "hole", "error"}] :
     \A t \in Term :
       /\ Mode[t] = "leaf" => r[t] # "hole"
       /\ Mode[t] = "missing" => r[t] = "error"
       /\ \A s \in Sub[t] : /\ r[s] = "error" => r[t] = "error"
                            /\ r[s] = "hole" => r[t] # "complete"}

\* Path B: no strict conclusion is on either side of a contrary pair.
PathB(c) ==
  \A t \in Term, p \in c : Mode[t] = "strict" => Concl[t] \notin {p[1], p[2]}

Init ==
  /\ args \in ArgLists
  /\ atts \in AttackLists
  /\ contrary \in Contraries
  /\ exception \in Exceptions
  /\ flaws \in Flaws
  /\ ~ PathB(contrary) => "policy" \in flaws
  /\ result \in Inference
  /\ todo = AllConfigs
  /\ stage = "rules"
  /\ at = 1
  /\ nodes = {}
  /\ holes = {}
  /\ verdicts = <<>>

-----------------------------------------------------------------------------
(* Verdicts. *)

Rejection(where, i, j) == [outcome |-> "reject", stage |-> where, at |-> <<i, j>>]
Accepted(ns, hs, live) ==
  [outcome |-> "accept", nodes |-> ns, holes |-> hs, live |-> live]

\* The run under cfg is over; the harness goes on with the next one.
Deliver(v) ==
  /\ verdicts' = Append(verdicts, v)
  /\ todo' = Tail(todo)
  /\ stage' = IF Len(todo) = 1 THEN "done" ELSE "rules"
  /\ at' = 1
  /\ nodes' = {}
  /\ holes' = {}
  /\ UNCHANGED input

GoTo(next) ==
  /\ stage' = next
  /\ at' = 1
  /\ UNCHANGED <<input, todo, nodes, holes, verdicts>>

Advance ==
  /\ at' = at + 1
  /\ UNCHANGED <<input, todo, stage, nodes, holes, verdicts>>

-----------------------------------------------------------------------------
(* Stages 1-3: duplicate rule ids, sorts (R2), policy validity (R12). *)

\* Each of the three scans the policy once; its defect is an input here.
FrontStages == [rules |-> "signature", signature |-> "policy", policy |-> "duplicates"]

CheckFront ==
  /\ stage \in DOMAIN FrontStages
  /\ IF stage \in flaws THEN Deliver(Rejection(stage, 0, 0))
     ELSE GoTo(FrontStages[stage])

-----------------------------------------------------------------------------
(* Stages 4-6: duplicate arguments, support, attacks. *)

DuplicatePairs == {p \in Decls \X Decls : p[1] < p[2] /\ args[p[1]] = args[p[2]]}

\* The first pair of a set, the first coordinate scanned first.
FirstPairTargetMajor(S) ==
  CHOOSE p \in S : \A q \in S : p[2] < q[2] \/ (p[2] = q[2] /\ p[1] <= q[1])
FirstPair(S) ==
  CHOOSE p \in S : \A q \in S : p[1] < q[1] \/ (p[1] = q[1] /\ p[2] <= q[2])

CheckDuplicates ==
  /\ stage = "duplicates"
  /\ IF DuplicatePairs = {} THEN GoTo("support")
     ELSE LET p == FirstPair(DuplicatePairs)
          IN Deliver(Rejection("duplicates", p[1], p[2]))

\* checkArguments: a typed hole is kept, only an inference error rejects.
CheckArgument ==
  /\ stage = "support"
  /\ \/ /\ at > Len(args)
        /\ GoTo("attacks")
     \/ /\ at \in Decls
        /\ IF result[args[at]] = "error" THEN Deliver(Rejection("support", at, 0))
           ELSE Advance

\* Both endpoints declared (R1), then the attack's typing unless ablated.
AttackFails(c, k) ==
  \/ \E t \in {k.src, k.tgt} : t \notin {args[i] : i \in Decls}
  \/ c.typed /\ AttackTargetClass(k, contrary, exception) # "ok"

CheckAttack ==
  /\ stage = "attacks"
  /\ \/ /\ at > Len(atts)
        /\ GoTo("partition")
     \/ /\ at \in 1..Len(atts)
        /\ IF AttackFails(cfg, atts[at]) THEN Deliver(Rejection("attacks", at, 0))
           ELSE Advance

-----------------------------------------------------------------------------
(* Stage 7: the partition, the conflict scan and the compiled program. *)

CompleteDecls == {i \in Decls : result[args[i]] = "complete"}

NodesByTyping(c)  == IF ~ c.typed THEN Decls ELSE CompleteDecls
NodesOf(c)        == IF c.promote THEN Decls ELSE CompleteDecls

PartitionCache ==
  /\ stage = "partition"
  /\ nodes' = NodesOf(cfg)
  /\ holes' = Decls \ CompleteDecls
  /\ stage' = "scan"
  /\ UNCHANGED <<input, todo, at, verdicts>>

\* The attacks that compile: sourced at an AF node, whatever their target.
LiveAttacks(ns) == {k \in RawAttacks : \E i \in ns : k.src = args[i]}

\* The attackable contrary pairs of nodes no raw attack covers.
MissingConflictsDistinct(ns) ==
  {p \in ns \X ns : /\ p[1] # p[2]
                    /\ <<Concl[args[p[1]]], Concl[args[p[2]]]>> \in contrary
                    /\ ConflictAttackable(args[p[2]])
                    /\ ~ Covered(RawAttacks, args[p[1]], args[p[2]])}
MissingConflicts(ns) ==
  {p \in ns \X ns : /\ <<Concl[args[p[1]]], Concl[args[p[2]]]>> \in contrary
                    /\ ConflictAttackable(args[p[2]])
                    /\ ~ Covered(RawAttacks, args[p[1]], args[p[2]])}

ScanConflicts ==
  /\ stage = "scan"
  /\ IF cfg.scan /\ MissingConflicts(nodes) # {}
     THEN LET p == FirstPair(MissingConflicts(nodes))
          IN Deliver(Rejection("scan", p[1], p[2]))
     ELSE Deliver(Accepted(nodes, holes, LiveAttacks(nodes)))

Next ==
  \/ CheckFront
  \/ CheckDuplicates
  \/ CheckArgument
  \/ CheckAttack
  \/ PartitionCache
  \/ ScanConflicts

Spec == Init /\ [][Next]_vars

-----------------------------------------------------------------------------
(* What an accepting verdict compiles to. *)

\* The compiled edges between the nodes of v (edgeB).
Edges(v) ==
  {e \in v.nodes \X v.nodes : Covered(v.live, args[e[1]], args[e[2]])}

Run(c)      == {n \in 1..Len(verdicts) : AllConfigs[n] = c}
Accepts(c)  == {n \in Run(c) : verdicts[n].outcome = "accept"}
Accepting   == {n \in 1..Len(verdicts) : verdicts[n].outcome = "accept"}

-----------------------------------------------------------------------------
(* Properties. *)

Stages == {"rules", "signature", "policy", "duplicates", "support", "attacks",
           "partition", "scan"}

\* A located rejection, or what an accepted unit compiles to.
Verdict ==
  [outcome : {"reject"}, stage : Stages, at : Nat \X Nat]
  \cup [outcome : {"accept"}, nodes : SUBSET Decls, holes : SUBSET Decls,
        live : SUBSET RawAttacks]

TypeOK ==
  /\ args \in ArgLists /\ atts \in AttackLists
  /\ contrary \in Contraries /\ exception \in Exceptions
  /\ flaws \in Flaws
  /\ result \in Inference
  /\ verdicts \in Seq(Verdict)
  /\ Len(verdicts) \in 0..Len(AllConfigs)
  /\ todo = SubSeq(AllConfigs, Len(verdicts) + 1, Len(AllConfigs))
  /\ stage \in Stages \cup {"done"}
  /\ at \in 1..(Len(args) + Len(atts) + 1)
  /\ nodes \subseteq Decls /\ holes \subseteq Decls

\* The whole of what can be wrong with the unit under c, each defect at its
\* stage and declaration, stated without reference to the order of checking.
StageRank == [rules |-> 1, signature |-> 2, policy |-> 3, duplicates |-> 4,
              support |-> 5, attacks |-> 6, scan |-> 7]

Defects(c) ==
  {<<f, 0, 0>> : f \in flaws}
  \cup {<<"duplicates", q[1], q[2]>> : q \in
          {p \in Decls \X Decls : p[1] < p[2] /\ args[p[1]] = args[p[2]]}}
  \cup {<<"support", i, 0>> : i \in {x \in Decls : result[args[x]] = "error"}}
  \cup {<<"attacks", k, 0>> : k \in
          {x \in 1..Len(atts) :
             \/ ~ {atts[x].src, atts[x].tgt} \subseteq {args[i] : i \in Decls}
             \/ c.typed /\ AttackTargetClass(atts[x], contrary, exception) # "ok"}}
  \cup {<<"scan", q[1], q[2]>> : q \in
          {p \in Decls \X Decls :
             /\ c.scan
             /\ c.promote \/ \A x \in {p[1], p[2]} : result[args[x]] = "complete"
             /\ <<Concl[args[p[1]]], Concl[args[p[2]]]>> \in contrary
             /\ Mode[args[p[2]]] \in {"leaf", "defeasible"}
             /\ \A k \in 1..Len(atts) :
                  ~ (/\ atts[k].src = args[p[1]]
                     /\ atts[k].occ # NoTerm
                     /\ atts[k].occ \in Sub[args[p[2]]])}}

Before(d, e) ==
  \/ StageRank[d[1]] < StageRank[e[1]]
  \/ d[1] = e[1] /\ (d[2] < e[2] \/ (d[2] = e[2] /\ d[3] <= e[3]))

\* A unit is accepted iff it has no defect, and a rejection is located at its
\* first defect: no early return hides one stage's defect behind a later one.
VerdictIsFirstDefect ==
  \A n \in 1..Len(verdicts) :
    LET v == verdicts[n]
        D == Defects(AllConfigs[n])
    IN IF v.outcome = "accept" THEN D = {}
       ELSE LET d == <<v.stage, v.at[1], v.at[2]>>
            IN d \in D /\ \A e \in D : Before(d, e)

\* Under the frozen configuration nothing with an open question, and nothing
\* that rests on one, becomes an AF node.
NodesRestOnNoHole ==
  \A n \in Accepts(Full) : \A i \in verdicts[n].nodes : \A s \in Sub[args[i]] :
    result[s] = "complete"

\* Wherever the scan ran, each attackable contrary pair of nodes is an edge of
\* the compiled graph, although the scan read the raw attacks and the graph is
\* compiled from the live ones, and although an attack aimed at a hole covers.
AttackComplete ==
  \A n \in Accepting :
    AllConfigs[n].scan =>
      \A i, j \in verdicts[n].nodes :
        /\ <<Concl[args[i]], Concl[args[j]]>> \in contrary
        /\ ConflictAttackable(args[j])
        => <<i, j>> \in Edges(verdicts[n])

\* No complete extension of an accepted unit holds two contrary conclusions:
\* the conflict scan covers the attackable targets, path B the strict ones.
DirectConsistency ==
  \A n \in Accepting :
    AllConfigs[n].scan =>
      \A E \in SUBSET verdicts[n].nodes :
        Complete(verdicts[n].nodes, Edges(verdicts[n]), E) =>
          \A i, j \in E : <<Concl[args[i]], Concl[args[j]]>> \notin contrary

\* Accepting an argument accepts every node that occurs in it: what attacks a
\* part attacks the whole, so the whole cannot be defended without the part.
SubargumentsAccepted ==
  \A n \in Accepting :
    \A E \in SUBSET verdicts[n].nodes :
      Complete(verdicts[n].nodes, Edges(verdicts[n]), E) =>
        \A i \in verdicts[n].nodes, m \in E : args[i] \in Sub[args[m]] => i \in E

\* Both: a node rests on complete parts alone, and is accepted only with those
\* of them that are nodes.
NodesStandOnParts == NodesRestOnNoHole /\ SubargumentsAccepted

\* Relaxing a rejection arm changes no accepted verdict, and promoting holes
\* changes none that has no hole.
AblationScope ==
  \A f \in Accepts(Full) :
    /\ \A n \in Run(NoTyped) \cup Run(NoConflictScan) : verdicts[n] = verdicts[f]
    /\ verdicts[f].holes = {} => \A n \in Run(NoCQ) : verdicts[n] = verdicts[f]
=============================================================================
