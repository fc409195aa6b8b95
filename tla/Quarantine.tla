----------------------------- MODULE Quarantine -----------------------------
(***************************************************************************)
(* One check of a unit whose evidence is partly quarantined, from the      *)
(* prune to the published statuses (Lara.Blocked, Lara.Driver).  The prune *)
(* removes leaves, the arguments that use them and the attacks that lose   *)
(* an endpoint; the smaller program is checked and grounded; the forward   *)
(* closure of what the prune touched decides which statuses are published  *)
(* and which are reported evidence-blocked.                                *)
(*                                                                         *)
(* Arguments are named by their declared index throughout: the code's      *)
(* checked positions are mapped back to it by retainedIndices.             *)
(***************************************************************************)
EXTENDS Terms, Frameworks, Naturals

CONSTANTS
  Arg,        \* the declared argument indices
  LeafId,     \* the leaf ids a unit or a group can name
  LeafOf,     \* the leaf of a leaf term
  Prop,       \* the propositions a leaf can report
  NoProp,     \* a leaf id that is not declared
  Decls,      \* the argument declarations (Arg -> Term) of the instance
  Attacks,    \* the sets of declared attacks
  Groups,     \* the sets of duplicate-report groups (sets of leaf ids)
  Gammas,     \* the leaf declarations (LeafId -> Prop or NoProp)
  Query       \* the queried propositions

ASSUME ArgAssumption == IsFiniteSet(Arg)

\* A declared attack: its endpoints are arguments, its occurrence a term.
DeclaredAttack == [src : Arg, tgt : Arg, occ : Term \cup {NoTerm}]

ASSUME DeclAssumption ==
  /\ \A t \in Term : Mode[t] = "leaf" => LeafOf[t] \in LeafId
  /\ Decls \subseteq [Arg -> Term]
  /\ Attacks \subseteq SUBSET DeclaredAttack
  /\ Groups \subseteq SUBSET SUBSET LeafId
  /\ Gammas \subseteq [LeafId -> Prop \cup {NoProp}]

VARIABLES
  decl, attacks, gamma, groups,   \* the declared unit
  reject,    \* unitGroupMode = RejectOnConflict
  seed,      \* the leaves the admission policy quarantines
  result,    \* what inferSupport answers under the full declared context
  stage,     \* which stage runs next
  removed,   \* removedLeafSet
  kept,      \* retainedIndices
  keptAtts,  \* the retained attacks
  nodes,     \* carrierChecked: the declared indices of the AF nodes
  ext,       \* the grounded iteration over the checked framework
  round,     \* its round
  blocked,   \* the forward closure so far
  public     \* the public status of each query

unit == <<decl, attacks, gamma, groups, reject, seed, result>>
vars == <<unit, stage, removed, kept, keptAtts, nodes, ext, round, blocked, public>>

-----------------------------------------------------------------------------
(* The unit. *)

Leaves(t) == {LeafOf[s] : s \in {x \in Sub[t] : Mode[x] = "leaf"}}

\* inferSupport under the declared leaves: an undeclared leaf fails (R1).
Inference ==
  {r \in [Term -> {"complete", "hole", "error"}] :
     \A t \in Term :
       /\ Mode[t] = "leaf" =>
            r[t] = IF gamma[LeafOf[t]] = NoProp THEN "error" ELSE "complete"
       /\ Mode[t] = "missing" => r[t] = "error"
       /\ \A s \in Sub[t] : /\ r[s] = "error" => r[t] = "error"
                            /\ r[s] = "hole" => r[t] # "complete"}

Init ==
  /\ decl \in Decls
  /\ attacks \in {K \in Attacks : \A k \in K : k.occ \in Sub[decl[k.tgt]] \cup {NoTerm}}
  /\ gamma \in Gammas
  /\ groups \in Groups
  /\ reject \in BOOLEAN
  /\ seed \in SUBSET LeafId
  /\ result \in Inference
  /\ stage = "prune"
  /\ removed = {} /\ kept = {} /\ keptAtts = {} /\ nodes = {}
  /\ ext = {} /\ round = 0 /\ blocked = {}
  /\ public = [q \in Query |-> <<"none", "gap">>]

-----------------------------------------------------------------------------
(* The prune. *)

\* A dangling member makes its group inconsistent, as a differing one does.
GroupConsistent(g) ==
  \A m, n \in g : gamma[m] # NoProp /\ gamma[m] = gamma[n]

InconsistentGroups == {g \in groups : ~ GroupConsistent(g)}

PolicyLeaves == {l \in seed : gamma[l] # NoProp}

UsesOnlyAtRoot(t, L) == Mode[t] = "leaf" /\ LeafOf[t] \in L
Uses(t, L)           == Leaves(t) \cap L # {}

KeepsAttack(ks, k) == {k.src, k.tgt} \subseteq ks

PruneUnit ==
  /\ stage = "prune"
  /\ removed' = PolicyLeaves \cup UNION InconsistentGroups
  /\ kept' = {i \in Arg : ~ Uses(decl[i], removed')}
  /\ keptAtts' = {k \in attacks : KeepsAttack(kept', k)}
  /\ stage' = "groups"
  /\ UNCHANGED <<unit, nodes, ext, round, blocked, public>>

\* An escalated conflict rejects the declared unit before it is checked (R9).
GroupBoundary ==
  /\ stage = "groups"
  /\ stage' = IF reject /\ InconsistentGroups # {} THEN "reject" ELSE "check"
  /\ UNCHANGED <<unit, removed, kept, keptAtts, nodes, ext, round, blocked, public>>

-----------------------------------------------------------------------------
(* The checker on the retained unit (module CheckUnit). *)

\* Two retained arguments with one term, or a retained term that fails.
Defective ==
  \/ \E i, j \in kept : i # j /\ decl[i] = decl[j]
  \/ \E i \in kept : result[decl[i]] = "error"

\* The AF nodes: the retained arguments with no open obligation.
CompleteNodes    == {i \in kept : result[decl[i]] = "complete"}

\* No retained term uses a removed leaf, so it infers what it infers under the
\* declared context.  The other stages of the checker may reject as well.
CheckAccepts ==
  /\ stage = "check"
  /\ ~ Defective
  /\ nodes' = CompleteNodes
  /\ stage' = "ground"
  /\ UNCHANGED <<unit, removed, kept, keptAtts, ext, round, blocked, public>>

CheckRejects ==
  /\ stage = "check"
  /\ stage' = "reject"
  /\ UNCHANGED <<unit, removed, kept, keptAtts, nodes, ext, round, blocked, public>>

-----------------------------------------------------------------------------
(* The two frameworks in declared index space. *)

\* resolveAttacks: the attacks over terms.
Resolved(ks) == {[src |-> decl[k.src], occ |-> k.occ] : k \in ks}

EdgesOf(ks) == {e \in Arg \X Arg : Covered(Resolved(ks), decl[e[1]], decl[e[2]])}

DeclaredEdges == EdgesOf(attacks)
RetainedEdges == EdgesOf(keptAtts)

CheckedEdges == RetainedEdges \cap (nodes \X nodes)

\* carrierReference: what is not a typed hole under the declared context; a
\* quarantined term whose inference fails stays as a conservative node.
ReferenceWithHoles == Arg
Reference ==
  {i \in Arg : IF i \in kept THEN i \in nodes ELSE result[decl[i]] # "hole"}

\* The grounded extension of the checked framework, |nodes| rounds.
Ground ==
  /\ stage = "ground"
  /\ round < Cardinality(nodes)
  /\ ext' = CharStep(nodes, CheckedEdges, ext)
  /\ round' = round + 1
  /\ UNCHANGED <<unit, stage, removed, kept, keptAtts, nodes, blocked, public>>

-----------------------------------------------------------------------------
(* Conservative reporting. *)

\* Reference nodes that are not checked nodes, and checked nodes that lost an
\* incoming edge from a checked node.
MissingNodes == Reference \ nodes
LostEdges    == {j \in nodes : \E i \in nodes : <<i, j>> \in DeclaredEdges \ RetainedEdges}

SeedNodesOnly == MissingNodes
BlockedSeed   == MissingNodes \cup LostEdges

FastPath == kept = Arg /\ keptAtts = attacks

\* The fast path blocks nothing and runs no closure.
StartClosure ==
  /\ stage = "ground"
  /\ round = Cardinality(nodes)
  /\ blocked' = IF FastPath THEN {} ELSE BlockedSeed \cap Reference
  /\ stage' = IF FastPath THEN "publish" ELSE "close"
  /\ UNCHANGED <<unit, removed, kept, keptAtts, nodes, ext, round, public>>

\* The forward closure under the declared edges, iterated to stability.
CloseForgetting ==
  {y \in Reference : \E x \in blocked : <<x, y>> \in DeclaredEdges}
CloseOver == ClosureStep(Reference, DeclaredEdges, blocked)

Close ==
  /\ stage = "close"
  /\ blocked' = CloseOver
  /\ stage' = IF blocked' = blocked THEN "publish" ELSE "close"
  /\ UNCHANGED <<unit, removed, kept, keptAtts, nodes, ext, round, public>>

\* claimSupportFor, over the checked nodes.
Support(q) == {i \in nodes : Concl[decl[i]] = q}

ConditionalStatus(q) ==
  StatusWith([i \in nodes |-> LabelWith(nodes, CheckedEdges, ext, i)], Support(q))

BlockedQuery(q) == Support(q) \cap blocked # {}

Publish ==
  /\ stage = "publish"
  /\ public' = [q \in Query |->
       <<IF BlockedQuery(q) THEN "evidence-blocked" ELSE "published",
         ConditionalStatus(q)>>]
  /\ stage' = "done"
  /\ UNCHANGED <<unit, removed, kept, keptAtts, nodes, ext, round, blocked>>

Next ==
  \/ PruneUnit
  \/ GroupBoundary
  \/ CheckAccepts
  \/ CheckRejects
  \/ Ground
  \/ StartClosure
  \/ Close
  \/ Publish

\* A check is one evaluation that runs to its end.
Spec == Init /\ [][Next]_vars /\ WF_vars(Next)

-----------------------------------------------------------------------------
(* Properties. *)

TypeOK ==
  /\ decl \in [Arg -> Term]
  /\ attacks \subseteq DeclaredAttack
  /\ gamma \in [LeafId -> Prop \cup {NoProp}]
  /\ groups \subseteq SUBSET LeafId
  /\ reject \in BOOLEAN
  /\ seed \subseteq LeafId
  /\ result \in [Term -> {"complete", "hole", "error"}]
  /\ stage \in {"prune", "groups", "check", "ground", "close", "publish",
                "done", "reject"}
  /\ removed \subseteq LeafId
  /\ nodes \subseteq kept /\ kept \subseteq Arg
  /\ keptAtts \subseteq attacks
  /\ ext \subseteq nodes
  /\ round \in 0..Cardinality(nodes)
  /\ blocked \subseteq Reference
  /\ public \in [Query -> {"none", "published", "evidence-blocked"} \X Statuses]

\* The reference framework: the quarantined material reinstated.
ReferenceEdges == DeclaredEdges \cap (Reference \X Reference)

ReferenceSupport(q) ==
  {i \in Reference : result[decl[i]] = "complete" /\ Concl[decl[i]] = q}

\* Missing evidence never makes a claim look stronger: a claim published as
\* justified has support in every complete extension of the program with the
\* quarantined material reinstated.
JustifiedNonPromotion ==
  stage = "done" =>
    \A q \in Query :
      public[q] = <<"published", "justified">> =>
        \A E \in SUBSET Reference :
          Complete(Reference, ReferenceEdges, E) => ReferenceSupport(q) \cap E # {}

\* A published status is exact where the prune took no support: a claim that
\* is not blocked and whose complete support survived unchanged has the status
\* the reinstated program would give it.
UnblockedStatusExact ==
  stage = "done" =>
    \A q \in Query :
      public[q][1] = "published" /\ Support(q) = ReferenceSupport(q) =>
        \A E \in SUBSET Reference :
          LeastComplete(Reference, ReferenceEdges, E) =>
            public[q][2] =
              StatusWith([i \in Reference |-> LabelWith(Reference, ReferenceEdges, E, i)],
                         ReferenceSupport(q))

\* Both: what is published over quarantined material neither promotes a claim
\* nor misstates one the prune left alone.
ConditionalIsSound == JustifiedNonPromotion /\ UnblockedStatusExact

\* No checked argument rests on a leaf of an inconsistent group, and none of
\* the retained attacks has an endpoint that does.
QuarantineTotal ==
  stage \in {"ground", "close", "publish", "done"} =>
    \A g \in groups :
      (\E m, n \in g : gamma[m] = NoProp \/ gamma[m] # gamma[n]) =>
        /\ \A i \in nodes : Leaves(decl[i]) \cap g = {}
        /\ \A k \in keptAtts : \A i \in {k.src, k.tgt} : Leaves(decl[i]) \cap g = {}

\* The fast path is only a shortcut: when the prune removed no argument and no
\* attack, the full computation would block nothing either.
FastPathExact == stage = "ground" /\ FastPath => BlockedSeed = {}

\* Every check ends: the closure reaches its fixed point although the loop
\* stops on stability alone.
Terminates == <>(stage \in {"done", "reject"})
=============================================================================
