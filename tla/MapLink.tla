------------------------------- MODULE MapLink -------------------------------
(***************************************************************************)
(* The link of a multi-artifact map (Lara.Map.Qualify, Lara.Map.Link): the *)
(* members' identities are qualified, arguments with one term are merged,  *)
(* the attacks that cover contrary pairs across members are generated, and *)
(* the ordinary checker decides the linked unit.                           *)
(*                                                                         *)
(* A member is its position in the manifest, whose decoder refuses an      *)
(* alias twice.  A support term is the owner of its leaves and a shape;    *)
(* owner 0 is the term before qualification, and a shape without a leaf    *)
(* has no other owner: that is the only term two members can share.        *)
(***************************************************************************)
EXTENDS Frameworks, Naturals, Sequences

CONSTANTS
  MaxMembers,                         \* the most members a manifest declares
  Shape, ShapeSub, ShapeMode, ShapeConcl,  \* Terms, before qualification
  NoTerm,
  Infers,      \* what inferSupport answers for a shape
  Source,      \* a program by its name: policy id, backends, claims, arguments,
               \* attacks between argument positions, and whether it prepares
  PolicyText   \* a policy by its name: id, its rows, and whether it is valid

Program == DOMAIN Source
Policy  == DOMAIN PolicyText

Occurrences(sh) == ShapeSub[sh] \cup {NoTerm}

ASSUME ShapeAssumption ==
  /\ MaxMembers \in Nat
  /\ NoTerm \notin Shape \cup ((0..MaxMembers) \X Shape)
  /\ ShapeSub \in [Shape -> SUBSET Shape]
  /\ ShapeMode \in [Shape -> {"leaf", "strict", "defeasible", "missing"}]
  /\ Infers \in [Shape -> {"complete", "hole", "error"}]
  /\ \A sh \in Shape :
       /\ sh \in ShapeSub[sh]
       /\ \A s \in ShapeSub[sh] : /\ ShapeSub[s] \subseteq ShapeSub[sh]
                                  /\ Infers[sh] = "complete" => Infers[s] = "complete"
       /\ ShapeMode[sh] = "leaf" => ShapeSub[sh] = {sh}

\* What elaboration leaves: attack endpoints are declared, and a premise that
\* is not a leaf is an argument declared before the one it supports.
ASSUME SourceAssumption ==
  \A p \in Program :
    /\ Source[p].args \in Seq(Shape)
    /\ \A k \in Source[p].atts :
         /\ k.kind \in {"rebut", "undercut", "undermine"}
         /\ {k.src, k.tgt} \subseteq DOMAIN Source[p].args
         /\ k.occ \in Occurrences(Source[p].args[k.tgt])
         /\ k.kind = "rebut" => k.occ = Source[p].args[k.tgt]
    /\ \A i \in DOMAIN Source[p].args : \A s \in ShapeSub[Source[p].args[i]] :
         ShapeMode[s] = "leaf" \/ \E j \in DOMAIN Source[p].args : Source[p].args[j] = s

-----------------------------------------------------------------------------
(* Qualification. *)

LeafFree(sh) == \A s \in ShapeSub[sh] : ShapeMode[s] # "leaf"

\* qualifyTerm renames the leaf occurrences and nothing else.
Qualified(n, sh) == IF LeafFree(sh) THEN <<0, sh>> ELSE <<n, sh>>

Term  == {Qualified(n, sh) : n \in 0..MaxMembers, sh \in Shape}
Sub   == [t \in Term |-> {Qualified(t[1], s) : s \in ShapeSub[t[2]]}]
Mode  == [t \in Term |-> ShapeMode[t[2]]]
Concl == [t \in Term |-> ShapeConcl[t[2]]]

INSTANCE Terms

\* A unit as the checker receives it: terms by argument id, attacks by id.
Occurrence(n, o) == IF o = NoTerm THEN NoTerm ELSE Qualified(n, o)

Attack(k, src, tgt, occ) == [kind |-> k, src |-> src, tgt |-> tgt, occ |-> occ]

\* qualifyMember; for n = 0, the unit of the member's own check.
MemberUnit(n, p) ==
  [args |-> [h \in {n} \X DOMAIN Source[p].args |-> Qualified(n, Source[p].args[h[2]])],
   atts |-> {Attack(k.kind, <<n, k.src>>, <<n, k.tgt>>, Occurrence(n, k.occ)) :
               k \in Source[p].atts}]

-----------------------------------------------------------------------------
(* The checker (Lara.Check.checkUnit, frozen configuration), as a verdict.  *)
(* CheckUnit models its stages.                                             *)

\* Endpoints are resolved by lookup; an attack that misses is dropped.
Resolved(u) ==
  {Attack(k.kind, u.args[k.src], u.args[k.tgt], k.occ) :
     k \in {x \in u.atts : {x.src, x.tgt} \subseteq DOMAIN u.args}}

IsComplete(t) == Infers[t[2]] = "complete"
Nodes(u)      == {i \in DOMAIN u.args : IsComplete(u.args[i])}

\* An exception names a source conclusion and an instance of a rule.
Exceptions(pol) ==
  {e \in {x[1] : x \in PolicyText[pol].exception} \X Term :
     <<e[1], e[2][2]>> \in PolicyText[pol].exception}

Conflicts(u, pol) ==
  {p \in Nodes(u) \X Nodes(u) :
     /\ <<Concl[u.args[p[1]]], Concl[u.args[p[2]]]>> \in PolicyText[pol].contrary
     /\ ConflictAttackable(u.args[p[2]])}

UnitAccepted(u, pol) ==
  /\ PolicyText[pol].sound
  /\ \A i, j \in DOMAIN u.args : u.args[i] = u.args[j] => i = j
  /\ \A i \in DOMAIN u.args : Infers[u.args[i][2]] # "error"
  /\ \A k \in Resolved(u) :
       AttackTargetClass(k, PolicyText[pol].contrary, Exceptions(pol)) = "ok"
  /\ \A p \in Conflicts(u, pol) : Covered(Resolved(u), u.args[p[1]], u.args[p[2]])

\* The compiled graph: attacks sourced at a node, carried to every node that
\* contains the occurrence they hit.
Edges(u) ==
  LET live == {k \in Resolved(u) : IsComplete(k.src)}
  IN {e \in Nodes(u) \X Nodes(u) : Covered(live, u.args[e[1]], u.args[e[2]])}

-----------------------------------------------------------------------------
(* The structural merge.  ps is the members' programs, in manifest order.   *)

Handles(ps)   == UNION {{n} \X DOMAIN Source[ps[n]].args : n \in DOMAIN ps}
TermAt(ps, h) == Qualified(h[1], Source[ps[h[1]]].args[h[2]])

\* Member order, then that member's own declaration order.
AtOrBefore(g, h) == g[1] < h[1] \/ (g[1] = h[1] /\ g[2] <= h[2])

\* The first declaration of a term is the argument all its handles name.
Canonical(ps, t) ==
  CHOOSE g \in Handles(ps) :
    /\ TermAt(ps, g) = t
    /\ \A e \in Handles(ps) : TermAt(ps, e) = t => AtOrBefore(g, e)

Place(ps, h)   == Canonical(ps, TermAt(ps, h))
MergedArgs(ps) == [g \in {Place(ps, h) : h \in Handles(ps)} |-> TermAt(ps, g)]
Owners(ps, t)  == {n \in DOMAIN ps : \E h \in Handles(ps) : h[1] = n /\ TermAt(ps, h) = t}

\* The members' own attacks, re-pointed at the arguments the merge kept.
NotRepointed(ps, k) == k
Repointed(ps, k) == Attack(k.kind, Place(ps, k.src), Place(ps, k.tgt), k.occ)
Transported(ps) ==
  UNION {{Repointed(ps, k) : k \in MemberUnit(n, ps[n]).atts} : n \in DOMAIN ps}

-----------------------------------------------------------------------------
(* Saturation across members. *)

CrossMember(ps, s, t) == \E m \in Owners(ps, s), n \in Owners(ps, t) : m # n

\* Undermine a leaf at its root, rebut a rule instance.
RebutAlways(args, i, j) == Attack("rebut", i, j, args[j])
AttackFor(args, i, j) ==
  Attack(IF Mode[args[j]] = "leaf" THEN "undermine" ELSE "rebut", i, j, args[j])

\* One attack per conflict between complete arguments that crosses a boundary,
\* whether or not a member already declared one that covers it.
Generated(ps, pol) ==
  LET args == MergedArgs(ps)
      ends == {i \in DOMAIN args : IsComplete(args[i])}
  IN {AttackFor(args, p[1], p[2]) :
        p \in {q \in ends \X ends :
                 /\ CrossMember(ps, args[q[1]], args[q[2]])
                 /\ <<Concl[args[q[1]]], Concl[args[q[2]]]>> \in PolicyText[pol].contrary
                 /\ ConflictAttackable(args[q[2]])}}

LinkedUnit(ps, pol) ==
  [args |-> MergedArgs(ps), atts |-> Transported(ps) \cup Generated(ps, pol)]

-----------------------------------------------------------------------------
(* The composite verdict (evaluate). *)

\* Labels and edges are indexed by the position among the nodes, which falls
\* behind the declaration position once a hole is declared.
NodeIndex(u, i) == Cardinality({j \in Nodes(u) : AtOrBefore(j, i)})

\* Every handle of a complete argument, with its node index; the others are holes.
MapNodesByDecl(ps, u) ==
  [h \in {x \in Handles(ps) : Place(ps, x) \in Nodes(u)} |->
     Cardinality({j \in DOMAIN u.args : AtOrBefore(j, Place(ps, h))})]
MapNodes(ps, u) ==
  [h \in {x \in Handles(ps) : Place(ps, x) \in Nodes(u)} |->
     NodeIndex(u, Place(ps, h))]
MapEdges(u) == {<<NodeIndex(u, e[1]), NodeIndex(u, e[2])>> : e \in Edges(u)}

\* The status of a claim: what the nodes of the unit that conclude it say.
StatusIn(u, claim) ==
  LET g == CHOOSE S \in SUBSET Nodes(u) : LeastComplete(Nodes(u), Edges(u), S)
  IN StatusWith([i \in Nodes(u) |-> LabelWith(Nodes(u), Edges(u), g, i)],
                {i \in Nodes(u) : Concl[u.args[i]] = claim.prop})
=============================================================================
