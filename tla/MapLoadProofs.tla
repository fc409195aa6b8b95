---------------------------- MODULE MapLoadProofs ----------------------------
(***************************************************************************)
(* What linking does, for every universe of terms, every policy and every  *)
(* manifest: members that are accepted alone under one policy link into an *)
(* accepted unit; the attacks an argument of one member alone makes on     *)
(* that member's arguments stay those of its own check; and a claim that   *)
(* nothing from outside its member reaches keeps its status.               *)
(*                                                                         *)
(* The last is the directionality of the grounded labelling                *)
(* (FrameworkLemmas): the member's own framework embeds into the linked    *)
(* one, and the attacks on its image are the images of its own.            *)
(***************************************************************************)
EXTENDS MapLoad, FrameworkLemmas

-----------------------------------------------------------------------------
(* Qualification keeps a term's shape, occurrences, mode and conclusion.    *)

\* A shape without a leaf has only shapes without a leaf in it.
LEMMA LeafFreeParts ==
  ASSUME NEW sh \in Shape, LeafFree(sh), NEW s \in ShapeSub[sh]
  PROVE  LeafFree(s)
BY ShapeAssumption DEF LeafFree

\* The term a shape becomes, and what the checker reads of it.
LEMMA QualifiedTerm ==
  ASSUME NEW n \in 0..MaxMembers, NEW sh \in Shape
  PROVE  /\ Qualified(n, sh) \in Term
         /\ Qualified(n, sh)[2] = sh
         /\ Mode[Qualified(n, sh)] = ShapeMode[sh]
         /\ Concl[Qualified(n, sh)] = ShapeConcl[sh]
<1>1. Qualified(n, sh) \in Term
  BY DEF Term
<1>2. Qualified(n, sh)[2] = sh
  BY DEF Qualified
<1> QED BY <1>1, <1>2 DEF Mode, Concl

\* The occurrences of a term are the qualified occurrences of its shape.
LEMMA QualifiedParts ==
  ASSUME NEW n \in 0..MaxMembers, NEW sh \in Shape
  PROVE  Sub[Qualified(n, sh)] = {Qualified(n, s) : s \in ShapeSub[sh]}
<1>1. Sub[Qualified(n, sh)] = {Qualified(Qualified(n, sh)[1], s) : s \in ShapeSub[sh]}
  BY QualifiedTerm DEF Sub
<1>2. \A s \in ShapeSub[sh] : Qualified(Qualified(n, sh)[1], s) = Qualified(n, s)
  <2>1. CASE LeafFree(sh)
    BY <2>1, LeafFreeParts DEF Qualified
  <2>2. CASE ~ LeafFree(sh)
    BY <2>2 DEF Qualified
  <2> QED BY <2>1, <2>2
<1> QED BY <1>1, <1>2

\* An occurrence is contained in a qualified term iff its shape is in the term's.
LEMMA QualifiedContains ==
  ASSUME NEW n \in 0..MaxMembers, NEW sh \in Shape, NEW s \in Shape
  PROVE  (Qualified(n, s) \in Sub[Qualified(n, sh)]) <=> (s \in ShapeSub[sh])
BY QualifiedParts, QualifiedTerm, ShapeAssumption

-----------------------------------------------------------------------------
(* The merge. *)

\* A link is of at least one member and of no more than a manifest declares.
Linkable(ps) == ps \in Seq(Program) /\ Len(ps) \in 1..MaxMembers

\* What a handle names in a linkable map.
LEMMA HandleTerm ==
  ASSUME NEW ps, Linkable(ps), NEW n \in DOMAIN ps, NEW i \in DOMAIN Source[ps[n]].args
  PROVE  /\ n \in 1..MaxMembers /\ ps[n] \in Program
         /\ <<n, i>> \in Handles(ps)
         /\ Source[ps[n]].args[i] \in Shape
         /\ TermAt(ps, <<n, i>>) = Qualified(n, Source[ps[n]].args[i])
<1>1. n \in 1..MaxMembers /\ ps[n] \in Program
  BY ShapeAssumption DEF Linkable
<1>2. Source[ps[n]].args \in Seq(Shape)
  BY <1>1, SourceAssumption
<1>3. Source[ps[n]].args[i] \in Shape
  BY <1>2
<1>4. <<n, i>> \in Handles(ps)
  BY DEF Handles
<1> QED BY <1>1, <1>3, <1>4 DEF TermAt

\* Handles are pairs of a member and a declaration of it.
LEMMA HandleShape ==
  ASSUME NEW ps, Linkable(ps), NEW h \in Handles(ps)
  PROVE  \E n \in DOMAIN ps : \E i \in DOMAIN Source[ps[n]].args :
           h = <<n, i>> /\ n \in Nat /\ i \in Nat
<1>1. PICK n \in DOMAIN ps : h \in {n} \X DOMAIN Source[ps[n]].args
  BY DEF Handles
<1>2. PICK i \in DOMAIN Source[ps[n]].args : h = <<n, i>>
  BY <1>1
<1>3. n \in Nat /\ ps[n] \in Program
  BY DEF Linkable
<1>4. Source[ps[n]].args \in Seq(Shape)
  BY <1>3, SourceAssumption
<1>5. i \in Nat
  BY <1>2, <1>4
<1> QED BY <1>2, <1>3, <1>5

\* Every handle's term has a first declaration.
LEMMA PlaceIsDeclared ==
  ASSUME NEW ps, Linkable(ps), NEW h \in Handles(ps)
  PROVE  Place(ps, h) \in Handles(ps) /\ TermAt(ps, Place(ps, h)) = TermAt(ps, h)
<1> DEFINE t     == TermAt(ps, h)
           same  == {e \in Handles(ps) : TermAt(ps, e) = t}
           firsts == {e[1] : e \in same}
<1>1. h \in same /\ firsts \subseteq Nat /\ firsts # {}
  <2>1. \A e \in same : e[1] \in Nat
    BY HandleShape
  <2> QED BY <2>1
<1>2. PICK n \in firsts : \A m \in firsts : n <= m
  <2> HIDE DEF firsts
  <2> QED BY <1>1, LeastNatural
<1> DEFINE seconds == {e[2] : e \in {x \in same : x[1] = n}}
<1>3. seconds \subseteq Nat /\ seconds # {}
  <2>1. \A e \in same : e[2] \in Nat
    BY HandleShape
  <2>2. PICK e \in same : e[1] = n
    BY <1>2
  <2> QED BY <2>1, <2>2
<1>4. PICK i \in seconds : \A j \in seconds : i <= j
  <2> HIDE DEF seconds
  <2> QED BY <1>3, LeastNatural
<1>5. PICK g \in same : g[1] = n /\ g[2] = i
  BY <1>4
<1>6. \A e \in same : AtOrBefore(g, e)
  <2> SUFFICES ASSUME NEW e \in same PROVE AtOrBefore(g, e)
    OBVIOUS
  <2>1. e[1] \in firsts /\ e[1] \in Nat /\ n \in Nat
    BY <1>1
  <2>2. n <= e[1]
    BY <2>1, <1>2
  <2>3. e[1] = n => i <= e[2]
    BY <1>4
  <2> QED BY <2>1, <2>2, <2>3, <1>5 DEF AtOrBefore
<1>7. \E x \in Handles(ps) : /\ TermAt(ps, x) = t
                             /\ \A e \in Handles(ps) : TermAt(ps, e) = t => AtOrBefore(x, e)
  BY <1>5, <1>6
<1> HIDE DEF same, firsts, seconds
<1> QED BY <1>7 DEF Place, Canonical

\* The merged arguments are the members' terms, each declared once.
LEMMA MergedTerms ==
  ASSUME NEW ps, Linkable(ps)
  PROVE  /\ \A h \in Handles(ps) : /\ Place(ps, h) \in DOMAIN MergedArgs(ps)
                                   /\ MergedArgs(ps)[Place(ps, h)] = TermAt(ps, h)
         /\ \A g \in DOMAIN MergedArgs(ps) :
              g \in Handles(ps) /\ MergedArgs(ps)[g] = TermAt(ps, g)
         /\ \A g, h \in DOMAIN MergedArgs(ps) : MergedArgs(ps)[g] = MergedArgs(ps)[h] => g = h
<1>1. DOMAIN MergedArgs(ps) = {Place(ps, h) : h \in Handles(ps)}
  BY DEF MergedArgs
<1>2. \A g \in DOMAIN MergedArgs(ps) : g \in Handles(ps) /\ MergedArgs(ps)[g] = TermAt(ps, g)
  BY <1>1, PlaceIsDeclared DEF MergedArgs
<1>3. \A h \in Handles(ps) : /\ Place(ps, h) \in DOMAIN MergedArgs(ps)
                             /\ MergedArgs(ps)[Place(ps, h)] = TermAt(ps, h)
  BY <1>1, <1>2, PlaceIsDeclared
<1>4. \A g, h \in DOMAIN MergedArgs(ps) : MergedArgs(ps)[g] = MergedArgs(ps)[h] => g = h
  <2> SUFFICES ASSUME NEW g \in Handles(ps), NEW h \in Handles(ps),
                      TermAt(ps, g) = TermAt(ps, h)
               PROVE  Place(ps, g) = Place(ps, h)
    BY <1>1, <1>3
  <2> QED BY DEF Place
<1> QED BY <1>2, <1>3, <1>4

-----------------------------------------------------------------------------
(* The attacks. *)

\* A member's attack on the terms its owner n's arguments became.
Carried(n, p, k) ==
  Attack(k.kind, Qualified(n, Source[p].args[k.src]), Qualified(n, Source[p].args[k.tgt]),
         Occurrence(n, k.occ))

\* What elaboration says of one attack of a program.
LEMMA DeclaredAttack ==
  ASSUME NEW p \in Program, NEW k \in Source[p].atts
  PROVE  /\ k.src \in DOMAIN Source[p].args /\ k.tgt \in DOMAIN Source[p].args
         /\ Source[p].args[k.src] \in Shape /\ Source[p].args[k.tgt] \in Shape
         /\ k.occ \in Shape \cup {NoTerm}
         /\ k.kind \in {"rebut", "undercut", "undermine"}
<1>1. k.src \in DOMAIN Source[p].args /\ k.tgt \in DOMAIN Source[p].args
  BY SourceAssumption
<1>2. Source[p].args \in Seq(Shape)
  BY SourceAssumption
<1>3. Source[p].args[k.src] \in Shape /\ Source[p].args[k.tgt] \in Shape
  BY <1>1, <1>2
<1>4. k.occ \in Shape \cup {NoTerm}
  BY <1>3, SourceAssumption, ShapeAssumption DEF Occurrences
<1> QED BY <1>1, <1>3, <1>4, SourceAssumption

\* A member's own check resolves exactly its carried attacks.
LEMMA SoloResolved ==
  ASSUME NEW p \in Program
  PROVE  Resolved(MemberUnit(0, p)) = {Carried(0, p, k) : k \in Source[p].atts}
<1> DEFINE u == MemberUnit(0, p)
           raw(k) == Attack(k.kind, <<0, k.src>>, <<0, k.tgt>>, Occurrence(0, k.occ))
<1>1. u.atts = {raw(k) : k \in Source[p].atts}
  BY DEF MemberUnit
<1>2. \A k \in Source[p].atts :
        /\ {raw(k).src, raw(k).tgt} \subseteq DOMAIN u.args
        /\ Attack(raw(k).kind, u.args[raw(k).src], u.args[raw(k).tgt], raw(k).occ)
             = Carried(0, p, k)
  <2> TAKE k \in Source[p].atts
  <2>1. k.src \in DOMAIN Source[p].args /\ k.tgt \in DOMAIN Source[p].args
    BY DeclaredAttack
  <2>2. /\ raw(k).src = <<0, k.src>> /\ raw(k).tgt = <<0, k.tgt>>
        /\ raw(k).kind = k.kind /\ raw(k).occ = Occurrence(0, k.occ)
    BY DEF Attack
  <2>3. u.args = [h \in {0} \X DOMAIN Source[p].args |-> Qualified(0, Source[p].args[h[2]])]
    BY DEF MemberUnit
  <2>4. /\ <<0, k.src>> \in DOMAIN u.args /\ <<0, k.tgt>> \in DOMAIN u.args
        /\ u.args[<<0, k.src>>] = Qualified(0, Source[p].args[k.src])
        /\ u.args[<<0, k.tgt>>] = Qualified(0, Source[p].args[k.tgt])
    BY <2>1, <2>3
  <2> QED BY <2>2, <2>4 DEF Carried
<1> HIDE DEF u, raw
<1>3. Resolved(u) = {Attack(x.kind, u.args[x.src], u.args[x.tgt], x.occ) :
                       x \in {y \in u.atts : {y.src, y.tgt} \subseteq DOMAIN u.args}}
  BY DEF Resolved
<1>4. Resolved(u) = {Carried(0, p, k) : k \in Source[p].atts}
  BY <1>1, <1>2, <1>3
<1> QED BY <1>4 DEF u

\* The linked unit resolves every member's carried attack, and besides those
\* only the generated ones.
LEMMA LinkedResolved ==
  ASSUME NEW ps, Linkable(ps), NEW pol \in Policy
  PROVE  /\ \A n \in DOMAIN ps : \A k \in Source[ps[n]].atts :
              Carried(n, ps[n], k) \in Resolved(LinkedUnit(ps, pol))
         /\ \A x \in Resolved(LinkedUnit(ps, pol)) :
              \/ \E n \in DOMAIN ps : \E k \in Source[ps[n]].atts : x = Carried(n, ps[n], k)
              \/ \E g \in Generated(ps, pol) :
                   /\ {g.src, g.tgt} \subseteq DOMAIN MergedArgs(ps)
                   /\ x = Attack(g.kind, MergedArgs(ps)[g.src], MergedArgs(ps)[g.tgt], g.occ)
<1> DEFINE u == LinkedUnit(ps, pol)
           moved(n, k) == Attack(k.kind, Place(ps, <<n, k.src>>), Place(ps, <<n, k.tgt>>),
                                 Occurrence(n, k.occ))
<1>1. u.args = MergedArgs(ps) /\ u.atts = Transported(ps) \cup Generated(ps, pol)
  BY DEF LinkedUnit
<1>2. Transported(ps) = UNION {{moved(n, k) : k \in Source[ps[n]].atts} : n \in DOMAIN ps}
  <2>1. \A n \in DOMAIN ps :
          {Repointed(ps, x) : x \in MemberUnit(n, ps[n]).atts}
            = {moved(n, k) : k \in Source[ps[n]].atts}
    <3> TAKE n \in DOMAIN ps
    <3>1. MemberUnit(n, ps[n]).atts =
            {Attack(k.kind, <<n, k.src>>, <<n, k.tgt>>, Occurrence(n, k.occ)) :
               k \in Source[ps[n]].atts}
      BY DEF MemberUnit
    <3>2. \A k \in Source[ps[n]].atts :
            Repointed(ps, Attack(k.kind, <<n, k.src>>, <<n, k.tgt>>, Occurrence(n, k.occ)))
              = moved(n, k)
      BY DEF Repointed, Attack
    <3> HIDE DEF moved
    <3> QED BY <3>1, <3>2
  <2> HIDE DEF moved
  <2> QED BY <2>1 DEF Transported
<1>3. \A n \in DOMAIN ps : \A k \in Source[ps[n]].atts :
        /\ {moved(n, k).src, moved(n, k).tgt} \subseteq DOMAIN u.args
        /\ Attack(moved(n, k).kind, u.args[moved(n, k).src], u.args[moved(n, k).tgt],
                  moved(n, k).occ) = Carried(n, ps[n], k)
  <2> TAKE n \in DOMAIN ps
  <2> TAKE k \in Source[ps[n]].atts
  <2>1. ps[n] \in Program
    BY DEF Linkable
  <2>2. k.src \in DOMAIN Source[ps[n]].args /\ k.tgt \in DOMAIN Source[ps[n]].args
    BY <2>1, DeclaredAttack
  <2>3. /\ moved(n, k).src = Place(ps, <<n, k.src>>) /\ moved(n, k).tgt = Place(ps, <<n, k.tgt>>)
        /\ moved(n, k).kind = k.kind /\ moved(n, k).occ = Occurrence(n, k.occ)
    BY DEF Attack
  <2>4. /\ Place(ps, <<n, k.src>>) \in DOMAIN u.args /\ Place(ps, <<n, k.tgt>>) \in DOMAIN u.args
        /\ u.args[Place(ps, <<n, k.src>>)] = Qualified(n, Source[ps[n]].args[k.src])
        /\ u.args[Place(ps, <<n, k.tgt>>)] = Qualified(n, Source[ps[n]].args[k.tgt])
    BY <1>1, <2>2, HandleTerm, MergedTerms
  <2> QED BY <2>3, <2>4 DEF Carried
<1> HIDE DEF u, moved
<1>4. Resolved(u) = {Attack(x.kind, u.args[x.src], u.args[x.tgt], x.occ) :
                       x \in {y \in u.atts : {y.src, y.tgt} \subseteq DOMAIN u.args}}
  BY DEF Resolved
<1>5. \A n \in DOMAIN ps : \A k \in Source[ps[n]].atts : Carried(n, ps[n], k) \in Resolved(u)
  <2> TAKE n \in DOMAIN ps
  <2> TAKE k \in Source[ps[n]].atts
  <2>1. moved(n, k) \in u.atts
    BY <1>1, <1>2
  <2> QED BY <2>1, <1>3, <1>4
<1>6. \A x \in Resolved(u) :
        \/ \E n \in DOMAIN ps : \E k \in Source[ps[n]].atts : x = Carried(n, ps[n], k)
        \/ \E g \in Generated(ps, pol) :
             /\ {g.src, g.tgt} \subseteq DOMAIN MergedArgs(ps)
             /\ x = Attack(g.kind, MergedArgs(ps)[g.src], MergedArgs(ps)[g.tgt], g.occ)
  <2> TAKE x \in Resolved(u)
  <2>1. PICK y \in u.atts : /\ {y.src, y.tgt} \subseteq DOMAIN u.args
                            /\ x = Attack(y.kind, u.args[y.src], u.args[y.tgt], y.occ)
    BY <1>4
  <2>2. CASE y \in Generated(ps, pol)
    BY <2>1, <2>2, <1>1
  <2>3. CASE y \in Transported(ps)
    BY <2>1, <2>3, <1>2, <1>3
  <2> QED BY <2>2, <2>3, <1>1
<1> QED BY <1>5, <1>6 DEF u

-----------------------------------------------------------------------------
(* Typing.  The class of an attack does not depend on who owns its leaves.  *)

\* An occurrence is off range before qualification iff it is after.
LEMMA OccurrenceKept ==
  ASSUME NEW n \in 0..MaxMembers, NEW o \in Shape \cup {NoTerm}
  PROVE  /\ (Occurrence(n, o) = NoTerm) <=> (o = NoTerm)
         /\ o # NoTerm => Occurrence(n, o) = Qualified(n, o)
<1>1. o \in Shape => Qualified(n, o) # NoTerm
  BY ShapeAssumption DEF Qualified
<1>2. o # NoTerm => Occurrence(n, o) = Qualified(n, o)
  BY DEF Occurrence
<1>3. o = NoTerm => Occurrence(n, o) = NoTerm
  BY DEF Occurrence
<1> QED BY <1>1, <1>2, <1>3

\* An exception grants a qualified occurrence iff it grants its shape.
LEMMA ExceptionKept ==
  ASSUME NEW n \in 0..MaxMembers, NEW sh \in Shape, NEW c, NEW pol
  PROVE  (<<c, Qualified(n, sh)>> \in Exceptions(pol))
           <=> (<<c, sh>> \in PolicyText[pol].exception)
<1>1. Qualified(n, sh) \in Term /\ Qualified(n, sh)[2] = sh
  BY QualifiedTerm
<1>2. <<c, sh>> \in PolicyText[pol].exception => c \in {x[1] : x \in PolicyText[pol].exception}
  <2> SUFFICES ASSUME <<c, sh>> \in PolicyText[pol].exception
               PROVE  \E x \in PolicyText[pol].exception : c = x[1]
    OBVIOUS
  <2> WITNESS <<c, sh>> \in PolicyText[pol].exception
  <2> QED OBVIOUS
<1>3. <<c, Qualified(n, sh)>> \in Exceptions(pol)
        <=> /\ <<c, Qualified(n, sh)>> \in {x[1] : x \in PolicyText[pol].exception} \X Term
            /\ <<c, sh>> \in PolicyText[pol].exception
  BY <1>1 DEF Exceptions
<1> QED BY <1>1, <1>2, <1>3

\* A carried attack has the class it had in the member's own check.
LEMMA CarriedClass ==
  ASSUME NEW n \in 0..MaxMembers, NEW p \in Program, NEW k \in Source[p].atts,
         NEW pol, NEW C
  PROVE  AttackTargetClass(Carried(n, p, k), C, Exceptions(pol))
           = AttackTargetClass(Carried(0, p, k), C, Exceptions(pol))
<1> DEFINE a == Carried(n, p, k)
           b == Carried(0, p, k)
<1>1. 0 \in 0..MaxMembers
  BY ShapeAssumption
<1>2. /\ Source[p].args[k.src] \in Shape /\ Source[p].args[k.tgt] \in Shape
      /\ k.occ \in Shape \cup {NoTerm}
  BY DeclaredAttack
<1>3. a.kind = b.kind
  BY DEF Carried, Attack
<1>4. Concl[a.src] = Concl[b.src] /\ Concl[a.tgt] = Concl[b.tgt] /\ Mode[a.tgt] = Mode[b.tgt]
  BY <1>1, <1>2, QualifiedTerm DEF Carried, Attack
<1>5. a.occ = Occurrence(n, k.occ) /\ b.occ = Occurrence(0, k.occ)
  BY DEF Carried, Attack
<1>6. (a.occ = NoTerm) <=> (b.occ = NoTerm)
  BY <1>1, <1>2, <1>5, OccurrenceKept
<1>7. a.occ # NoTerm =>
        /\ Mode[a.occ] = Mode[b.occ] /\ Concl[a.occ] = Concl[b.occ]
        /\ (<<Concl[a.src], a.occ>> \in Exceptions(pol)) <=> (<<Concl[b.src], b.occ>> \in Exceptions(pol))
  <2> SUFFICES ASSUME a.occ # NoTerm
               PROVE  /\ Mode[a.occ] = Mode[b.occ] /\ Concl[a.occ] = Concl[b.occ]
                      /\ (<<Concl[a.src], a.occ>> \in Exceptions(pol))
                           <=> (<<Concl[b.src], b.occ>> \in Exceptions(pol))
    OBVIOUS
  <2>1. k.occ \in Shape /\ a.occ = Qualified(n, k.occ) /\ b.occ = Qualified(0, k.occ)
    BY <1>1, <1>2, <1>5, OccurrenceKept
  <2>2. Mode[a.occ] = Mode[b.occ] /\ Concl[a.occ] = Concl[b.occ]
    BY <1>1, <2>1, QualifiedTerm
  <2>3. (<<Concl[a.src], a.occ>> \in Exceptions(pol)) <=> (<<Concl[b.src], b.occ>> \in Exceptions(pol))
    <3> DEFINE c == Concl[a.src]
    <3>1. c = Concl[b.src]
      BY <1>4
    <3> HIDE DEF c
    <3>2. (<<c, a.occ>> \in Exceptions(pol)) <=> (<<c, b.occ>> \in Exceptions(pol))
      BY <1>1, <2>1, ExceptionKept
    <3> QED BY <3>1, <3>2 DEF c
  <2> QED BY <2>2, <2>3
<1> HIDE DEF a, b
<1>8. WrongOccurrence(a) = WrongOccurrence(b)
  BY <1>3, <1>4, <1>6, <1>7 DEF WrongOccurrence
<1>9. ~ WrongOccurrence(a) => Licensed(a, C, Exceptions(pol)) = Licensed(b, C, Exceptions(pol))
  <2> SUFFICES ASSUME ~ WrongOccurrence(a)
               PROVE  Licensed(a, C, Exceptions(pol)) = Licensed(b, C, Exceptions(pol))
    OBVIOUS
  <2>1. a.kind \in {"rebut", "undercut", "undermine"}
    BY DeclaredAttack DEF a, Carried, Attack
  <2>2. CASE a.kind = "rebut"
    BY <2>2, <1>3, <1>4 DEF Licensed
  <2>3. CASE a.kind = "undercut"
    BY <2>3, <1>3, <1>4, <1>7 DEF Licensed, WrongOccurrence
  <2>4. CASE a.kind = "undermine"
    BY <2>4, <1>3, <1>4, <1>7 DEF Licensed, WrongOccurrence
  <2> QED BY <2>1, <2>2, <2>3, <2>4
<1> QED BY <1>8, <1>9 DEF AttackTargetClass, a, b

-----------------------------------------------------------------------------
(* What a member's own acceptance says of its program. *)

\* Its arguments infer, its attacks are typed, and each conflict between its
\* complete arguments is covered by an attack of its own.
LEMMA MemberAccepted ==
  ASSUME NEW p \in Program, NEW pol \in Policy, UnitAccepted(MemberUnit(0, p), pol)
  PROVE  /\ PolicyText[pol].sound
         /\ \A i \in DOMAIN Source[p].args : Infers[Source[p].args[i]] # "error"
         /\ \A k \in Source[p].atts :
              AttackTargetClass(Carried(0, p, k), PolicyText[pol].contrary, Exceptions(pol)) = "ok"
         /\ \A i, j \in DOMAIN Source[p].args :
              /\ Infers[Source[p].args[i]] = "complete" /\ Infers[Source[p].args[j]] = "complete"
              /\ <<ShapeConcl[Source[p].args[i]], ShapeConcl[Source[p].args[j]]>>
                   \in PolicyText[pol].contrary
              /\ ShapeMode[Source[p].args[j]] \in {"leaf", "defeasible"}
              => \E k \in Source[p].atts :
                   /\ Source[p].args[k.src] = Source[p].args[i]
                   /\ k.occ # NoTerm /\ k.occ \in ShapeSub[Source[p].args[j]]
<1> DEFINE u == MemberUnit(0, p)
<1>0. 0 \in 0..MaxMembers
  BY ShapeAssumption
<1>1. \A i \in DOMAIN Source[p].args :
        /\ Source[p].args[i] \in Shape
        /\ <<0, i>> \in DOMAIN u.args
        /\ u.args[<<0, i>>] = Qualified(0, Source[p].args[i])
  <2>1. Source[p].args \in Seq(Shape)
    BY SourceAssumption
  <2>2. u.args = [h \in {0} \X DOMAIN Source[p].args |-> Qualified(0, Source[p].args[h[2]])]
    BY DEF MemberUnit
  <2> HIDE DEF u
  <2>3. TAKE i \in DOMAIN Source[p].args
  <2> QED BY <2>1, <2>2
<1>2. Resolved(u) = {Carried(0, p, k) : k \in Source[p].atts}
  BY SoloResolved
<1>3. UnitAccepted(u, pol)
  OBVIOUS
<1> HIDE DEF u
<1>4. \A i \in DOMAIN Source[p].args : Infers[Source[p].args[i]] # "error"
  <2>1. \A x \in DOMAIN u.args : Infers[u.args[x][2]] # "error"
    BY <1>3 DEF UnitAccepted
  <2> TAKE i \in DOMAIN Source[p].args
  <2>2. Infers[Qualified(0, Source[p].args[i])[2]] # "error"
    BY <1>1, <2>1
  <2>3. Qualified(0, Source[p].args[i])[2] = Source[p].args[i]
    BY <1>0, <1>1, QualifiedTerm
  <2> QED BY <2>2, <2>3
<1>5. \A k \in Source[p].atts :
        AttackTargetClass(Carried(0, p, k), PolicyText[pol].contrary, Exceptions(pol)) = "ok"
  <2>1. \A x \in Resolved(u) :
          AttackTargetClass(x, PolicyText[pol].contrary, Exceptions(pol)) = "ok"
    BY <1>3 DEF UnitAccepted
  <2> QED BY <1>2, <2>1
<1>6. ASSUME NEW i \in DOMAIN Source[p].args, NEW j \in DOMAIN Source[p].args,
             Infers[Source[p].args[i]] = "complete", Infers[Source[p].args[j]] = "complete",
             <<ShapeConcl[Source[p].args[i]], ShapeConcl[Source[p].args[j]]>>
               \in PolicyText[pol].contrary,
             ShapeMode[Source[p].args[j]] \in {"leaf", "defeasible"}
      PROVE  \E k \in Source[p].atts :
               /\ Source[p].args[k.src] = Source[p].args[i]
               /\ k.occ # NoTerm /\ k.occ \in ShapeSub[Source[p].args[j]]
  <2> DEFINE si == Source[p].args[i]
             sj == Source[p].args[j]
  <2>1. /\ si \in Shape /\ sj \in Shape
        /\ <<0, i>> \in DOMAIN u.args /\ u.args[<<0, i>>] = Qualified(0, si)
        /\ <<0, j>> \in DOMAIN u.args /\ u.args[<<0, j>>] = Qualified(0, sj)
    BY <1>1
  <2>2. <<0, i>> \in Nodes(u) /\ <<0, j>> \in Nodes(u)
    BY <1>0, <1>6, <2>1, QualifiedTerm DEF Nodes, IsComplete
  <2>3. <<<<0, i>>, <<0, j>>>> \in Conflicts(u, pol)
    <3>1. <<Concl[u.args[<<0, i>>]], Concl[u.args[<<0, j>>]]>> \in PolicyText[pol].contrary
      BY <1>0, <1>6, <2>1, QualifiedTerm
    <3>2. ConflictAttackable(u.args[<<0, j>>])
      BY <1>0, <1>6, <2>1, QualifiedTerm DEF ConflictAttackable
    <3> QED BY <2>2, <3>1, <3>2 DEF Conflicts
  <2>4. Covered(Resolved(u), Qualified(0, si), Qualified(0, sj))
    BY <1>3, <2>1, <2>3 DEF UnitAccepted
  <2>5. PICK k \in Source[p].atts :
          /\ Carried(0, p, k).src = Qualified(0, si)
          /\ Carried(0, p, k).occ # NoTerm
          /\ Carried(0, p, k).occ \in Sub[Qualified(0, sj)]
    BY <1>2, <2>4 DEF Covered, AttackClosure, ContainsB
  <2>6. /\ Source[p].args[k.src] \in Shape /\ k.occ \in Shape \cup {NoTerm}
        /\ Carried(0, p, k).src = Qualified(0, Source[p].args[k.src])
        /\ Carried(0, p, k).occ = Occurrence(0, k.occ)
    BY DeclaredAttack DEF Carried, Attack
  <2>7. Source[p].args[k.src] = si
    BY <1>0, <2>1, <2>5, <2>6, QualifiedTerm
  <2>8. k.occ # NoTerm /\ k.occ \in Shape /\ Qualified(0, k.occ) \in Sub[Qualified(0, sj)]
    BY <1>0, <2>5, <2>6, OccurrenceKept
  <2>9. k.occ \in ShapeSub[sj]
    BY <1>0, <2>1, <2>8, QualifiedContains
  <2> QED BY <2>7, <2>8, <2>9
<1>7. PolicyText[pol].sound
  BY <1>3 DEF UnitAccepted
<1> QED BY <1>4, <1>5, <1>6, <1>7

-----------------------------------------------------------------------------
(* The link. *)

\* An argument of the linked unit is a member's term.
LEMMA LinkedArgument ==
  ASSUME NEW ps, Linkable(ps), NEW g \in DOMAIN MergedArgs(ps)
  PROVE  \E n \in DOMAIN ps : \E i \in DOMAIN Source[ps[n]].args :
           /\ g = <<n, i>> /\ n \in 0..MaxMembers /\ ps[n] \in Program
           /\ Source[ps[n]].args[i] \in Shape
           /\ MergedArgs(ps)[g] = Qualified(n, Source[ps[n]].args[i])
<1>1. g \in Handles(ps) /\ MergedArgs(ps)[g] = TermAt(ps, g)
  BY MergedTerms
<1>2. PICK n \in DOMAIN ps : \E i \in DOMAIN Source[ps[n]].args : g = <<n, i>>
  BY <1>1, HandleShape
<1>5. PICK i \in DOMAIN Source[ps[n]].args : g = <<n, i>>
  BY <1>2
<1>3. /\ n \in 0..MaxMembers /\ ps[n] \in Program /\ Source[ps[n]].args[i] \in Shape
      /\ TermAt(ps, <<n, i>>) = Qualified(n, Source[ps[n]].args[i])
  BY HandleTerm, ShapeAssumption
<1> QED BY <1>1, <1>5, <1>3

\* An attack generated for a conflict is typed by the policy.
LEMMA GeneratedIsTyped ==
  ASSUME NEW ps, Linkable(ps), NEW pol \in Policy, NEW g \in Generated(ps, pol),
         {g.src, g.tgt} \subseteq DOMAIN MergedArgs(ps)
  PROVE  AttackTargetClass(Attack(g.kind, MergedArgs(ps)[g.src], MergedArgs(ps)[g.tgt], g.occ),
                           PolicyText[pol].contrary, Exceptions(pol)) = "ok"
<1> DEFINE args == MergedArgs(ps)
           x == Attack(g.kind, args[g.src], args[g.tgt], g.occ)
<1>1. PICK i \in DOMAIN args, j \in DOMAIN args :
        /\ g = AttackFor(args, i, j)
        /\ <<Concl[args[i]], Concl[args[j]]>> \in PolicyText[pol].contrary
        /\ ConflictAttackable(args[j])
  BY DEF Generated
<1>2. /\ g.src = i /\ g.tgt = j /\ g.occ = args[j]
      /\ g.kind = (IF Mode[args[j]] = "leaf" THEN "undermine" ELSE "rebut")
  BY <1>1 DEF AttackFor, Attack
<1>3. args[j] # NoTerm
  <2>1. PICK n \in 0..MaxMembers, sh \in Shape : args[j] = Qualified(n, sh)
    BY LinkedArgument
  <2>2. Qualified(n, sh) \in (0..MaxMembers) \X Shape
    BY ShapeAssumption DEF Qualified
  <2> QED BY <2>1, <2>2, ShapeAssumption
<1>4. /\ x.src = args[i] /\ x.tgt = args[j] /\ x.occ = args[j] /\ x.kind = g.kind
  BY <1>2 DEF Attack
<1> HIDE DEF args, x
<1>5. CASE Mode[args[j]] = "leaf"
  <2>1. x.kind = "undermine"
    BY <1>2, <1>4, <1>5
  <2>2. ~ WrongOccurrence(x)
    BY <1>3, <1>4, <1>5, <2>1 DEF WrongOccurrence
  <2>3. Licensed(x, PolicyText[pol].contrary, Exceptions(pol))
    BY <1>1, <1>4, <2>1 DEF Licensed
  <2> QED BY <2>2, <2>3 DEF AttackTargetClass, x, args
<1>6. CASE Mode[args[j]] = "defeasible"
  <2>1. x.kind = "rebut"
    BY <1>2, <1>4, <1>6
  <2>2. ~ WrongOccurrence(x)
    BY <1>4, <1>6, <2>1 DEF WrongOccurrence
  <2>3. Licensed(x, PolicyText[pol].contrary, Exceptions(pol))
    BY <1>1, <1>4, <1>6, <2>1 DEF Licensed
  <2> QED BY <2>2, <2>3 DEF AttackTargetClass, x, args
<1> QED BY <1>1, <1>5, <1>6 DEF ConflictAttackable

\* A conflict that no boundary separates lies in one member, which covered it.
LEMMA OwnConflictCovered ==
  ASSUME NEW ps, Linkable(ps), NEW pol \in Policy,
         \A n \in DOMAIN ps : UnitAccepted(MemberUnit(0, ps[n]), pol),
         NEW i \in DOMAIN MergedArgs(ps), NEW j \in DOMAIN MergedArgs(ps),
         IsComplete(MergedArgs(ps)[i]), IsComplete(MergedArgs(ps)[j]),
         <<Concl[MergedArgs(ps)[i]], Concl[MergedArgs(ps)[j]]>> \in PolicyText[pol].contrary,
         ConflictAttackable(MergedArgs(ps)[j]),
         ~ CrossMember(ps, MergedArgs(ps)[i], MergedArgs(ps)[j])
  PROVE  Covered(Resolved(LinkedUnit(ps, pol)), MergedArgs(ps)[i], MergedArgs(ps)[j])
<1> DEFINE args == MergedArgs(ps)
<1>1a. PICK n \in DOMAIN ps : \E a \in DOMAIN Source[ps[n]].args :
        /\ i = <<n, a>> /\ n \in 0..MaxMembers /\ ps[n] \in Program
        /\ Source[ps[n]].args[a] \in Shape
        /\ args[i] = Qualified(n, Source[ps[n]].args[a])
  BY LinkedArgument
<1>1. PICK a \in DOMAIN Source[ps[n]].args :
        /\ i = <<n, a>> /\ n \in 0..MaxMembers /\ ps[n] \in Program
        /\ Source[ps[n]].args[a] \in Shape
        /\ args[i] = Qualified(n, Source[ps[n]].args[a])
  BY <1>1a
<1>2a. PICK m \in DOMAIN ps : \E b \in DOMAIN Source[ps[m]].args :
        /\ j = <<m, b>> /\ m \in 0..MaxMembers /\ ps[m] \in Program
        /\ Source[ps[m]].args[b] \in Shape
        /\ args[j] = Qualified(m, Source[ps[m]].args[b])
  BY LinkedArgument
<1>2. PICK b \in DOMAIN Source[ps[m]].args :
        /\ j = <<m, b>> /\ m \in 0..MaxMembers /\ ps[m] \in Program
        /\ Source[ps[m]].args[b] \in Shape
        /\ args[j] = Qualified(m, Source[ps[m]].args[b])
  BY <1>2a
<1>3. m = n
  <2>1. i \in Handles(ps) /\ args[i] = TermAt(ps, i) /\ i[1] = n
    BY <1>1, MergedTerms
  <2>2. j \in Handles(ps) /\ args[j] = TermAt(ps, j) /\ j[1] = m
    BY <1>2, MergedTerms
  <2>3. n \in Owners(ps, args[i]) /\ m \in Owners(ps, args[j])
    BY <2>1, <2>2 DEF Owners
  <2> QED BY <2>3 DEF CrossMember
<1> DEFINE si == Source[ps[n]].args[a]
           sj == Source[ps[n]].args[b]
<1>4. /\ si \in Shape /\ sj \in Shape /\ ps[n] \in Program /\ n \in 0..MaxMembers
      /\ args[i] = Qualified(n, si) /\ args[j] = Qualified(n, sj)
      /\ b \in DOMAIN Source[ps[n]].args
  BY <1>1, <1>2, <1>3
<1> HIDE DEF args
<1>5. /\ IsComplete(args[i]) /\ IsComplete(args[j])
      /\ <<Concl[args[i]], Concl[args[j]]>> \in PolicyText[pol].contrary
      /\ ConflictAttackable(args[j])
  BY DEF args
<1>6. /\ Infers[si] = "complete" /\ Infers[sj] = "complete"
      /\ <<ShapeConcl[si], ShapeConcl[sj]>> \in PolicyText[pol].contrary
      /\ ShapeMode[sj] \in {"leaf", "defeasible"}
  <2>1. /\ args[i][2] = si /\ args[j][2] = sj
        /\ Concl[args[i]] = ShapeConcl[si] /\ Concl[args[j]] = ShapeConcl[sj]
        /\ Mode[args[j]] = ShapeMode[sj]
    BY <1>4, QualifiedTerm
  <2> QED BY <1>5, <2>1 DEF IsComplete, ConflictAttackable
<1>7. UnitAccepted(MemberUnit(0, ps[n]), pol)
  OBVIOUS
<1>8. PICK k \in Source[ps[n]].atts :
        /\ Source[ps[n]].args[k.src] = si
        /\ k.occ # NoTerm /\ k.occ \in ShapeSub[sj]
  BY <1>1, <1>4, <1>6, <1>7, MemberAccepted
<1> DEFINE x == Carried(n, ps[n], k)
<1>9. x \in Resolved(LinkedUnit(ps, pol))
  BY LinkedResolved
<1>10. x.src = args[i] /\ x.occ = Occurrence(n, k.occ)
  BY <1>4, <1>8 DEF Carried, Attack
<1>11. k.occ \in Shape
  BY <1>4, <1>8, ShapeAssumption
<1>12. x.occ # NoTerm /\ x.occ = Qualified(n, k.occ)
  BY <1>4, <1>8, <1>10, <1>11, OccurrenceKept
<1>13. x.occ \in Sub[args[j]]
  BY <1>4, <1>8, <1>11, <1>12, QualifiedContains
<1> HIDE DEF x
<1>14. Covered(Resolved(LinkedUnit(ps, pol)), args[i], args[j])
  BY <1>9, <1>10, <1>12, <1>13 DEF Covered, AttackClosure, ContainsB
<1> QED BY <1>14 DEF args

\* A conflict that crosses a boundary is covered by the attack generated for it.
LEMMA CrossConflictCovered ==
  ASSUME NEW ps, Linkable(ps), NEW pol \in Policy,
         NEW i \in DOMAIN MergedArgs(ps), NEW j \in DOMAIN MergedArgs(ps),
         IsComplete(MergedArgs(ps)[i]), IsComplete(MergedArgs(ps)[j]),
         <<Concl[MergedArgs(ps)[i]], Concl[MergedArgs(ps)[j]]>> \in PolicyText[pol].contrary,
         ConflictAttackable(MergedArgs(ps)[j]),
         CrossMember(ps, MergedArgs(ps)[i], MergedArgs(ps)[j])
  PROVE  Covered(Resolved(LinkedUnit(ps, pol)), MergedArgs(ps)[i], MergedArgs(ps)[j])
<1> DEFINE args == MergedArgs(ps)
           g == AttackFor(args, i, j)
           u == LinkedUnit(ps, pol)
<1>1. g \in Generated(ps, pol)
  <2> DEFINE ends == {x \in DOMAIN args : IsComplete(args[x])}
             Hot(q) == /\ CrossMember(ps, args[q[1]], args[q[2]])
                       /\ <<Concl[args[q[1]]], Concl[args[q[2]]]>> \in PolicyText[pol].contrary
                       /\ ConflictAttackable(args[q[2]])
  <2>1. <<i, j>> \in ends \X ends /\ Hot(<<i, j>>)
    OBVIOUS
  <2>2. Generated(ps, pol) = {AttackFor(args, p[1], p[2]) : p \in {q \in ends \X ends : Hot(q)}}
    BY DEF Generated
  <2>3. AttackFor(args, <<i, j>>[1], <<i, j>>[2]) = g
    OBVIOUS
  <2> HIDE DEF ends, Hot, g
  <2> QED BY <2>1, <2>2, <2>3
<1>2. g.src = i /\ g.tgt = j /\ g.occ = args[j]
  BY DEF AttackFor, Attack
<1>3. u.args = args /\ g \in u.atts
  BY <1>1 DEF LinkedUnit
<1> DEFINE x == Attack(g.kind, args[i], args[j], args[j])
<1>4. x.src = args[i] /\ x.occ = args[j]
  BY DEF Attack
<1>5. PICK n \in 0..MaxMembers, sh \in Shape : args[j] = Qualified(n, sh)
  BY LinkedArgument
<1>6. args[j] \in Sub[args[j]]
  BY <1>5, QualifiedContains, ShapeAssumption
<1>7. args[j] # NoTerm
  <2>1. Qualified(n, sh) \in (0..MaxMembers) \X Shape
    BY ShapeAssumption DEF Qualified
  <2> QED BY <1>5, <2>1, ShapeAssumption
<1> HIDE DEF args, g, u
<1>8. x \in Resolved(u)
  <2>1. {g.src, g.tgt} \subseteq DOMAIN u.args
    BY <1>2, <1>3 DEF args
  <2>2. Attack(g.kind, u.args[g.src], u.args[g.tgt], g.occ) \in Resolved(u)
    BY <1>3, <2>1 DEF Resolved
  <2> QED BY <1>2, <1>3, <2>2
<1> HIDE DEF x
<1>9. Covered(Resolved(u), args[i], args[j])
  BY <1>4, <1>6, <1>7, <1>8 DEF Covered, AttackClosure, ContainsB
<1> QED BY <1>9 DEF args, u

\* Members accepted alone under one policy link into an accepted unit.
LEMMA LinkedAccepted ==
  ASSUME NEW ps, Linkable(ps), NEW pol \in Policy,
         \A n \in DOMAIN ps : UnitAccepted(MemberUnit(0, ps[n]), pol)
  PROVE  UnitAccepted(LinkedUnit(ps, pol), pol)
<1> DEFINE u == LinkedUnit(ps, pol)
<1>1. u.args = MergedArgs(ps)
  BY DEF LinkedUnit
<1>2. \A n \in DOMAIN ps : ps[n] \in Program /\ n \in 0..MaxMembers
  BY ShapeAssumption DEF Linkable
<1>3. PolicyText[pol].sound
  <2>1. 1 \in DOMAIN ps
    BY ShapeAssumption DEF Linkable
  <2> QED BY <1>2, <2>1, MemberAccepted
<1>4. \A i, j \in DOMAIN u.args : u.args[i] = u.args[j] => i = j
  BY <1>1, MergedTerms
<1>5. \A i \in DOMAIN u.args : Infers[u.args[i][2]] # "error"
  <2> SUFFICES ASSUME NEW g \in DOMAIN MergedArgs(ps)
               PROVE  Infers[MergedArgs(ps)[g][2]] # "error"
    BY <1>1
  <2>1. PICK n \in DOMAIN ps : \E i \in DOMAIN Source[ps[n]].args :
          MergedArgs(ps)[g] = Qualified(n, Source[ps[n]].args[i])
    BY LinkedArgument
  <2>2. PICK i \in DOMAIN Source[ps[n]].args :
          MergedArgs(ps)[g] = Qualified(n, Source[ps[n]].args[i])
    BY <2>1
  <2>3. MergedArgs(ps)[g][2] = Source[ps[n]].args[i]
    BY <2>2 DEF Qualified
  <2> QED BY <1>2, <2>3, MemberAccepted
<1>6. \A x \in Resolved(u) :
        AttackTargetClass(x, PolicyText[pol].contrary, Exceptions(pol)) = "ok"
  <2> SUFFICES ASSUME NEW x \in Resolved(u)
               PROVE  AttackTargetClass(x, PolicyText[pol].contrary, Exceptions(pol)) = "ok"
    OBVIOUS
  <2>1. CASE \E n \in DOMAIN ps : \E k \in Source[ps[n]].atts : x = Carried(n, ps[n], k)
    <3>1. PICK n \in DOMAIN ps : \E k \in Source[ps[n]].atts : x = Carried(n, ps[n], k)
      BY <2>1
    <3>2. PICK k \in Source[ps[n]].atts : x = Carried(n, ps[n], k)
      BY <3>1
    <3>3. AttackTargetClass(Carried(0, ps[n], k), PolicyText[pol].contrary, Exceptions(pol)) = "ok"
      BY <1>2, MemberAccepted
    <3> QED BY <1>2, <3>2, <3>3, CarriedClass
  <2>2. CASE \E g \in Generated(ps, pol) :
               /\ {g.src, g.tgt} \subseteq DOMAIN MergedArgs(ps)
               /\ x = Attack(g.kind, MergedArgs(ps)[g.src], MergedArgs(ps)[g.tgt], g.occ)
    BY <2>2, GeneratedIsTyped
  <2> QED BY <2>1, <2>2, LinkedResolved
<1>7. \A p \in Conflicts(u, pol) : Covered(Resolved(u), u.args[p[1]], u.args[p[2]])
  <2> TAKE p \in Conflicts(u, pol)
  <2> DEFINE i == p[1]
             j == p[2]
  <2>1. /\ i \in DOMAIN MergedArgs(ps) /\ j \in DOMAIN MergedArgs(ps)
        /\ IsComplete(MergedArgs(ps)[i]) /\ IsComplete(MergedArgs(ps)[j])
        /\ <<Concl[MergedArgs(ps)[i]], Concl[MergedArgs(ps)[j]]>> \in PolicyText[pol].contrary
        /\ ConflictAttackable(MergedArgs(ps)[j])
    BY <1>1 DEF Conflicts, Nodes
  <2> HIDE DEF i, j
  <2>2. Covered(Resolved(u), MergedArgs(ps)[i], MergedArgs(ps)[j])
    BY <2>1, OwnConflictCovered, CrossConflictCovered
  <2> QED BY <1>1, <2>2 DEF i, j
<1> QED BY <1>3, <1>4, <1>5, <1>6, <1>7 DEF UnitAccepted

-----------------------------------------------------------------------------
(* A member's own graph in the linked one. *)

\* The edges of a member's own check, in terms of its program.
LEMMA SoloEdges ==
  ASSUME NEW p \in Program, NEW i \in DOMAIN Source[p].args, NEW j \in DOMAIN Source[p].args
  PROVE  <<<<0, i>>, <<0, j>>>> \in Edges(MemberUnit(0, p)) <=>
           /\ Infers[Source[p].args[i]] = "complete" /\ Infers[Source[p].args[j]] = "complete"
           /\ \E k \in Source[p].atts :
                /\ Source[p].args[k.src] = Source[p].args[i]
                /\ k.occ # NoTerm /\ k.occ \in ShapeSub[Source[p].args[j]]
<1> DEFINE u == MemberUnit(0, p)
           si == Source[p].args[i]
           sj == Source[p].args[j]
           live == {x \in Resolved(u) : IsComplete(x.src)}
<1>0. 0 \in 0..MaxMembers
  BY ShapeAssumption
<1>1. si \in Shape /\ sj \in Shape
  BY SourceAssumption
<1>2. /\ <<0, i>> \in DOMAIN u.args /\ u.args[<<0, i>>] = Qualified(0, si)
      /\ <<0, j>> \in DOMAIN u.args /\ u.args[<<0, j>>] = Qualified(0, sj)
  BY DEF MemberUnit
<1>3. Resolved(u) = {Carried(0, p, k) : k \in Source[p].atts}
  BY SoloResolved
<1> HIDE DEF u
<1>4. /\ <<0, i>> \in Nodes(u) <=> Infers[si] = "complete"
      /\ <<0, j>> \in Nodes(u) <=> Infers[sj] = "complete"
  BY <1>0, <1>1, <1>2, QualifiedTerm DEF Nodes, IsComplete
<1>5. ASSUME NEW k \in Source[p].atts
      PROVE  /\ Carried(0, p, k).src = Qualified(0, si) <=> Source[p].args[k.src] = si
             /\ AttackClosure(Carried(0, p, k), Qualified(0, sj)) <=>
                  k.occ # NoTerm /\ k.occ \in ShapeSub[sj]
  <2>1. /\ Source[p].args[k.src] \in Shape /\ k.occ \in Shape \cup {NoTerm}
        /\ Carried(0, p, k).src = Qualified(0, Source[p].args[k.src])
        /\ Carried(0, p, k).occ = Occurrence(0, k.occ)
    BY DeclaredAttack DEF Carried, Attack
  <2>2. Carried(0, p, k).src = Qualified(0, si) <=> Source[p].args[k.src] = si
    BY <1>0, <1>1, <2>1, QualifiedTerm
  <2>3. AttackClosure(Carried(0, p, k), Qualified(0, sj)) <=>
          Occurrence(0, k.occ) # NoTerm /\ Occurrence(0, k.occ) \in Sub[Qualified(0, sj)]
    BY <2>1 DEF AttackClosure, ContainsB
  <2>4. k.occ \in Shape => (Qualified(0, k.occ) \in Sub[Qualified(0, sj)] <=> k.occ \in ShapeSub[sj])
    BY <1>0, <1>1, QualifiedContains
  <2> QED BY <1>0, <2>1, <2>2, <2>3, <2>4, OccurrenceKept
<1>6. <<<<0, i>>, <<0, j>>>> \in Edges(u) <=>
        /\ <<0, i>> \in Nodes(u) /\ <<0, j>> \in Nodes(u)
        /\ \E x \in live : x.src = Qualified(0, si) /\ AttackClosure(x, Qualified(0, sj))
  BY <1>2 DEF Edges, Covered
<1>7. IsComplete(Qualified(0, si)) <=> Infers[si] = "complete"
  BY <1>0, <1>1, QualifiedTerm DEF IsComplete
<1>8. Infers[si] = "complete" =>
        ((\E x \in live : x.src = Qualified(0, si) /\ AttackClosure(x, Qualified(0, sj))) <=>
         \E k \in Source[p].atts : Source[p].args[k.src] = si /\ k.occ # NoTerm /\ k.occ \in ShapeSub[sj])
  <2> SUFFICES ASSUME Infers[si] = "complete"
               PROVE  (\E x \in live : x.src = Qualified(0, si) /\ AttackClosure(x, Qualified(0, sj))) <=>
                      \E k \in Source[p].atts :
                        Source[p].args[k.src] = si /\ k.occ # NoTerm /\ k.occ \in ShapeSub[sj]
    OBVIOUS
  <2>1. \A x : x \in live /\ x.src = Qualified(0, si) <=>
               x \in Resolved(u) /\ x.src = Qualified(0, si)
    BY <1>7
  <2> HIDE DEF live
  <2> QED BY <1>3, <1>5, <2>1
<1> HIDE DEF si, sj, live
<1>9. <<<<0, i>>, <<0, j>>>> \in Edges(u) <=>
        /\ Infers[si] = "complete" /\ Infers[sj] = "complete"
        /\ \E k \in Source[p].atts :
             Source[p].args[k.src] = si /\ k.occ # NoTerm /\ k.occ \in ShapeSub[sj]
  BY <1>4, <1>6, <1>8
<1> QED BY <1>9 DEF si, sj, u

\* A declaration of a member.
LEMMA MemberShape ==
  ASSUME NEW ps, Linkable(ps), NEW n \in DOMAIN ps, NEW i \in DOMAIN Source[ps[n]].args
  PROVE  n \in 0..MaxMembers /\ n # 0 /\ ps[n] \in Program /\ Source[ps[n]].args[i] \in Shape
<1>1. n \in 1..MaxMembers /\ ps[n] \in Program /\ Source[ps[n]].args[i] \in Shape
  BY HandleTerm
<1>2. n \in 0..MaxMembers /\ n # 0
  BY <1>1, ShapeAssumption
<1> QED BY <1>1, <1>2

\* A term that two members own has no leaf, and a term of one that occurs in
\* another's is declared there too.
LEMMA SharedPart ==
  ASSUME NEW ps, Linkable(ps), NEW n \in DOMAIN ps, NEW m \in DOMAIN ps, m # n,
         NEW j \in DOMAIN Source[ps[n]].args, NEW b \in DOMAIN Source[ps[m]].args,
         Qualified(m, Source[ps[m]].args[b]) \in Sub[Qualified(n, Source[ps[n]].args[j])]
  PROVE  LET s == Source[ps[m]].args[b]
         IN  s \in ShapeSub[Source[ps[n]].args[j]] /\ \E i \in DOMAIN Source[ps[n]].args : Source[ps[n]].args[i] = s
<1> DEFINE s  == Source[ps[m]].args[b]
           sj == Source[ps[n]].args[j]
<1>1. /\ n \in 0..MaxMembers /\ m \in 0..MaxMembers /\ s \in Shape /\ sj \in Shape
      /\ ps[n] \in Program /\ n # 0 /\ m # 0
  BY MemberShape
<1> HIDE DEF s, sj
<1>2. PICK r \in ShapeSub[sj] : Qualified(m, s) = Qualified(n, r)
  BY <1>1, QualifiedParts DEF s, sj
<1>3. r \in Shape /\ r = s
  BY <1>1, <1>2, QualifiedTerm, ShapeAssumption
<1>4. LeafFree(s)
  BY <1>1, <1>2, <1>3 DEF Qualified
<1>5. ShapeMode[s] # "leaf"
  BY <1>1, <1>4, ShapeAssumption DEF LeafFree
<1>6. \E i \in DOMAIN Source[ps[n]].args : Source[ps[n]].args[i] = s
  BY <1>1, <1>2, <1>3, <1>5, SourceAssumption DEF sj
<1> QED BY <1>2, <1>3, <1>6 DEF s, sj

\* Where a handle's argument is in the linked unit.
PlacedAt(ps, u, n, i) ==
  /\ Place(ps, <<n, i>>) \in DOMAIN u.args
  /\ u.args[Place(ps, <<n, i>>)] = Qualified(n, Source[ps[n]].args[i])

\* Every handle's argument is there.
LEMMA HandlePlaced ==
  ASSUME NEW ps, Linkable(ps), NEW pol, NEW n \in DOMAIN ps, NEW i \in DOMAIN Source[ps[n]].args
  PROVE  PlacedAt(ps, LinkedUnit(ps, pol), n, i)
BY HandleTerm, MergedTerms DEF PlacedAt, LinkedUnit

\* The linked graph keeps a member's own edges.
LEMMA OwnEdgesKept ==
  ASSUME NEW ps, Linkable(ps), NEW pol \in Policy, NEW n \in DOMAIN ps,
         NEW i \in DOMAIN Source[ps[n]].args, NEW j \in DOMAIN Source[ps[n]].args,
         <<<<0, i>>, <<0, j>>>> \in Edges(MemberUnit(0, ps[n]))
  PROVE  <<Place(ps, <<n, i>>), Place(ps, <<n, j>>)>> \in Edges(LinkedUnit(ps, pol))
<1> DEFINE u  == LinkedUnit(ps, pol)
           si == Source[ps[n]].args[i]
           sj == Source[ps[n]].args[j]
<1>1. n \in 0..MaxMembers /\ ps[n] \in Program /\ si \in Shape /\ sj \in Shape
  BY MemberShape
<1>2. PlacedAt(ps, u, n, i) /\ PlacedAt(ps, u, n, j)
  BY HandlePlaced
<1>3. PICK k \in Source[ps[n]].atts :
        /\ Infers[si] = "complete" /\ Infers[sj] = "complete"
        /\ Source[ps[n]].args[k.src] = si /\ k.occ # NoTerm /\ k.occ \in ShapeSub[sj]
  BY <1>1, SoloEdges
<1> DEFINE x == Carried(n, ps[n], k)
<1>4. x \in Resolved(u)
  BY LinkedResolved
<1>5. x.src = Qualified(n, si) /\ x.occ = Occurrence(n, k.occ) /\ k.occ \in Shape
  BY <1>1, <1>3, ShapeAssumption DEF Carried, Attack
<1>6. x.occ # NoTerm /\ x.occ \in Sub[Qualified(n, sj)]
  BY <1>1, <1>3, <1>5, OccurrenceKept, QualifiedContains
<1>7. IsComplete(Qualified(n, si)) /\ IsComplete(Qualified(n, sj))
  BY <1>1, <1>3, QualifiedTerm DEF IsComplete
<1> HIDE DEF u, x, si, sj
<1>8. Covered({y \in Resolved(u) : IsComplete(y.src)}, Qualified(n, si), Qualified(n, sj))
  BY <1>4, <1>5, <1>6, <1>7 DEF Covered, AttackClosure, ContainsB
<1>9. /\ Place(ps, <<n, i>>) \in DOMAIN u.args /\ u.args[Place(ps, <<n, i>>)] = Qualified(n, si)
      /\ Place(ps, <<n, j>>) \in DOMAIN u.args /\ u.args[Place(ps, <<n, j>>)] = Qualified(n, sj)
  BY <1>2 DEF PlacedAt, si, sj
<1>10. <<Place(ps, <<n, i>>), Place(ps, <<n, j>>)>> \in Edges(u)
  BY <1>7, <1>8, <1>9 DEF Edges, Nodes
<1> QED BY <1>10 DEF u

\* Where one member alone owns the attacker, the linked graph has no other edge
\* between that member's arguments.
LEMMA NoEdgeAdded ==
  ASSUME NEW ps, Linkable(ps), NEW pol \in Policy, NEW n \in DOMAIN ps,
         UnitAccepted(MemberUnit(0, ps[n]), pol),
         NEW i \in DOMAIN Source[ps[n]].args, NEW j \in DOMAIN Source[ps[n]].args,
         Owners(ps, TermAt(ps, <<n, i>>)) = {n},
         <<Place(ps, <<n, i>>), Place(ps, <<n, j>>)>> \in Edges(LinkedUnit(ps, pol))
  PROVE  <<<<0, i>>, <<0, j>>>> \in Edges(MemberUnit(0, ps[n]))
<1> DEFINE u  == LinkedUnit(ps, pol)
           si == Source[ps[n]].args[i]
           sj == Source[ps[n]].args[j]
<1>1. n \in 0..MaxMembers /\ ps[n] \in Program /\ si \in Shape /\ sj \in Shape
  BY MemberShape
<1>2. PlacedAt(ps, u, n, i) /\ PlacedAt(ps, u, n, j)
  BY HandlePlaced
<1>3. Owners(ps, Qualified(n, si)) = {n}
  BY HandleTerm
<1>4. SUFFICES /\ Infers[si] = "complete" /\ Infers[sj] = "complete"
               /\ \E k \in Source[ps[n]].atts :
                    /\ Source[ps[n]].args[k.src] = si
                    /\ k.occ # NoTerm /\ k.occ \in ShapeSub[sj]
  BY <1>1, SoloEdges
<1>5. <<Place(ps, <<n, i>>), Place(ps, <<n, j>>)>> \in Edges(u)
  OBVIOUS
<1> HIDE DEF u, si, sj
<1>6. /\ u.args[Place(ps, <<n, i>>)] = Qualified(n, si)
      /\ u.args[Place(ps, <<n, j>>)] = Qualified(n, sj)
  BY <1>2 DEF PlacedAt, si, sj
<1>7. /\ IsComplete(Qualified(n, si)) /\ IsComplete(Qualified(n, sj))
      /\ \E x \in Resolved(u) : x.src = Qualified(n, si) /\ AttackClosure(x, Qualified(n, sj))
  BY <1>5, <1>6 DEF Edges, Nodes, Covered
<1>8. Infers[si] = "complete" /\ Infers[sj] = "complete"
  BY <1>1, <1>7, QualifiedTerm DEF IsComplete
<1>9. PICK x \in Resolved(u) : /\ x.src = Qualified(n, si)
                               /\ x.occ # NoTerm /\ x.occ \in Sub[Qualified(n, sj)]
  BY <1>7 DEF AttackClosure, ContainsB
<1>10. CASE \E m \in DOMAIN ps : \E k \in Source[ps[m]].atts : x = Carried(m, ps[m], k)
  <2>1. PICK m \in DOMAIN ps : \E k \in Source[ps[m]].atts : x = Carried(m, ps[m], k)
    BY <1>10
  <2>2. PICK k \in Source[ps[m]].atts : x = Carried(m, ps[m], k)
    BY <2>1
  <2>3. ps[m] \in Program
    BY DEF Linkable
  <2>4. k.src \in DOMAIN Source[ps[m]].args /\ k.occ \in Shape \cup {NoTerm}
        /\ Source[ps[m]].args[k.src] \in Shape
    BY <2>3, DeclaredAttack
  <2>5. x.src = Qualified(m, Source[ps[m]].args[k.src]) /\ x.occ = Occurrence(m, k.occ)
    BY <2>2 DEF Carried, Attack
  <2>6. m \in Owners(ps, Qualified(n, si))
    <3>1. <<m, k.src>> \in Handles(ps) /\ TermAt(ps, <<m, k.src>>) = Qualified(n, si)
      BY <1>9, <2>4, <2>5, HandleTerm
    <3>2. <<m, k.src>>[1] = m
      OBVIOUS
    <3> QED BY <3>1, <3>2 DEF Owners
  <2>7. m = n
    BY <1>3, <2>6
  <2>8. Source[ps[n]].args[k.src] = si
    <3>1. Qualified(n, Source[ps[n]].args[k.src]) = Qualified(n, si)
      BY <1>9, <2>5, <2>7
    <3>2. /\ Qualified(n, Source[ps[n]].args[k.src])[2] = Source[ps[n]].args[k.src]
          /\ Qualified(n, si)[2] = si
      BY <1>1, <2>4, <2>7, QualifiedTerm
    <3> QED BY <3>1, <3>2
  <2>9. k.occ # NoTerm /\ k.occ \in Shape /\ x.occ = Qualified(n, k.occ)
    BY <1>1, <1>9, <2>4, <2>5, <2>7, OccurrenceKept
  <2>10. k.occ \in ShapeSub[sj]
    BY <1>1, <1>9, <2>9, QualifiedContains
  <2> QED BY <1>8, <2>2, <2>7, <2>8, <2>9, <2>10
<1>11. CASE \E g \in Generated(ps, pol) :
              /\ {g.src, g.tgt} \subseteq DOMAIN MergedArgs(ps)
              /\ x = Attack(g.kind, MergedArgs(ps)[g.src], MergedArgs(ps)[g.tgt], g.occ)
  <2> DEFINE args == MergedArgs(ps)
  <2>1. PICK a \in DOMAIN args, b \in DOMAIN args :
          /\ x.src = args[a] /\ x.occ = args[b]
          /\ IsComplete(args[b]) /\ CrossMember(ps, args[a], args[b])
          /\ <<Concl[args[a]], Concl[args[b]]>> \in PolicyText[pol].contrary
          /\ ConflictAttackable(args[b])
    <3>1. PICK g \in Generated(ps, pol) :
            x = Attack(g.kind, args[g.src], args[g.tgt], g.occ)
      BY <1>11
    <3>2. PICK a \in DOMAIN args, b \in DOMAIN args :
            /\ g = AttackFor(args, a, b) /\ IsComplete(args[b])
            /\ CrossMember(ps, args[a], args[b])
            /\ <<Concl[args[a]], Concl[args[b]]>> \in PolicyText[pol].contrary
            /\ ConflictAttackable(args[b])
      BY DEF Generated
    <3>3. x.src = args[a] /\ x.occ = args[b]
      BY <3>1, <3>2 DEF AttackFor, Attack
    <3> HIDE DEF args
    <3> QED BY <3>2, <3>3
  <2> HIDE DEF args
  <2>2. PICK m \in Owners(ps, args[b]) : m # n
    BY <1>3, <1>9, <2>1 DEF CrossMember
  <2>3. PICK h \in Handles(ps) : h[1] = m /\ TermAt(ps, h) = args[b]
    BY <2>2 DEF Owners
  <2>4a. PICK l \in DOMAIN ps : \E c \in DOMAIN Source[ps[l]].args : h = <<l, c>>
    BY HandleShape
  <2>4. PICK c \in DOMAIN Source[ps[m]].args : h = <<m, c>>
    BY <2>3, <2>4a
  <2>5. m \in DOMAIN ps
    BY <2>2 DEF Owners
  <2> DEFINE s == Source[ps[m]].args[c]
  <2>6. args[b] = Qualified(m, s) /\ s \in Shape /\ m \in 0..MaxMembers
    BY <2>3, <2>4, <2>5, HandleTerm, ShapeAssumption
  <2>7. s \in ShapeSub[sj] /\ \E d \in DOMAIN Source[ps[n]].args : Source[ps[n]].args[d] = s
    BY <1>9, <2>1, <2>2, <2>5, <2>6, SharedPart DEF sj
  <2> HIDE DEF s
  <2>8. PICK d \in DOMAIN Source[ps[n]].args : Source[ps[n]].args[d] = s
    BY <2>7
  <2>9. /\ Infers[s] = "complete" /\ ShapeMode[s] \in {"leaf", "defeasible"}
        /\ <<ShapeConcl[si], ShapeConcl[s]>> \in PolicyText[pol].contrary
    <3>1. args[b][2] = s /\ Mode[args[b]] = ShapeMode[s] /\ Concl[args[b]] = ShapeConcl[s]
      BY <2>6, QualifiedTerm
    <3>2. Concl[args[a]] = ShapeConcl[si]
      <4>1. args[a] = Qualified(n, si)
        BY <1>9, <2>1
      <4>2. Concl[Qualified(n, si)] = ShapeConcl[si]
        BY <1>1, QualifiedTerm
      <4> QED BY <4>1, <4>2
    <3> QED BY <2>1, <3>1, <3>2 DEF IsComplete, ConflictAttackable
  <2>10. PICK k \in Source[ps[n]].atts : /\ Source[ps[n]].args[k.src] = si
                                         /\ k.occ # NoTerm /\ k.occ \in ShapeSub[s]
    BY <1>1, <1>8, <2>8, <2>9, MemberAccepted DEF si
  <2>11. ShapeSub[s] \subseteq ShapeSub[sj]
    BY <1>1, <2>7, ShapeAssumption
  <2> QED BY <1>8, <2>10, <2>11
<1>12. \/ \E m \in DOMAIN ps : \E k \in Source[ps[m]].atts : x = Carried(m, ps[m], k)
       \/ \E g \in Generated(ps, pol) :
            /\ {g.src, g.tgt} \subseteq DOMAIN MergedArgs(ps)
            /\ x = Attack(g.kind, MergedArgs(ps)[g.src], MergedArgs(ps)[g.tgt], g.occ)
  BY LinkedResolved DEF u
<1> QED BY <1>10, <1>11, <1>12

-----------------------------------------------------------------------------
(* The index of a node. *)

\* A linked unit has finitely many arguments.
LEMMA HandlesFinite ==
  ASSUME NEW ps, Linkable(ps)
  PROVE  IsFiniteSet(Handles(ps))
<1> DEFINE H(n) == {n} \X DOMAIN Source[ps[n]].args
           Blocks == {H(n) : n \in DOMAIN ps}
<1>1. IsFiniteSet(DOMAIN ps)
  <2>1. DOMAIN ps = 1 .. Len(ps) /\ Len(ps) \in Int
    BY DEF Linkable
  <2> QED BY <2>1, FS_Interval
<1>2. ASSUME NEW n \in DOMAIN ps PROVE IsFiniteSet(H(n))
  <2> DEFINE args == Source[ps[n]].args
  <2>1. ps[n] \in Program
    BY DEF Linkable
  <2>2. args \in Seq(Shape)
    BY <2>1, SourceAssumption
  <2> HIDE DEF args
  <2>3. DOMAIN args = 1 .. Len(args) /\ Len(args) \in Int
    BY <2>2
  <2>4. IsFiniteSet(DOMAIN args)
    BY <2>3, FS_Interval
  <2>5. IsFiniteSet({n})
    BY FS_Singleton
  <2> DEFINE S == {n}
             T == DOMAIN args
  <2> HIDE DEF S, T
  <2>6. IsFiniteSet(S) /\ IsFiniteSet(T)
    BY <2>4, <2>5 DEF S, T
  <2>7. IsFiniteSet(S \X T)
    BY <2>6, FS_Product
  <2> QED BY <2>7 DEF S, T, args
<1> HIDE DEF H
<1>3. IsFiniteSet(Blocks)
  <2> DEFINE f == [n \in DOMAIN ps |-> H(n)]
  <2>1. f \in Surjection(DOMAIN ps, Blocks)
    BY DEF Surjection
  <2> HIDE DEF f, Blocks
  <2> QED BY <1>1, <2>1, FS_Surjection
<1>4. \A B \in Blocks : IsFiniteSet(B)
  BY <1>2
<1> HIDE DEF Blocks
<1>5. IsFiniteSet(UNION Blocks)
  BY <1>3, <1>4, FS_UNION
<1>6. UNION Blocks = Handles(ps)
  BY DEF Blocks, H, Handles
<1> QED BY <1>5, <1>6

\* Two nodes do not have one index.
LEMMA IndexInjective ==
  ASSUME NEW ps, Linkable(ps), NEW u, Nodes(u) \subseteq Handles(ps),
         NEW i \in Nodes(u), NEW j \in Nodes(u), NodeIndex(u, i) = NodeIndex(u, j)
  PROVE  i = j
<1>1. IsFiniteSet(Nodes(u))
  BY HandlesFinite, FS_Subset
<1>2. \A x \in Nodes(u) : \E n, m \in Nat : x = <<n, m>>
  BY HandleShape
<1>3. \A x, y \in Nodes(u) : AtOrBefore(x, y) \/ AtOrBefore(y, x)
  BY <1>2 DEF AtOrBefore
<1>4. \A x, y \in Nodes(u) : AtOrBefore(x, y) /\ AtOrBefore(y, x) => x = y
  <2> SUFFICES ASSUME NEW x \in Nodes(u), NEW y \in Nodes(u), AtOrBefore(x, y), AtOrBefore(y, x)
               PROVE  x = y
    OBVIOUS
  <2>1. PICK a \in Nat, b \in Nat : x = <<a, b>>
    BY <1>2
  <2>2. PICK c \in Nat, d \in Nat : y = <<c, d>>
    BY <1>2
  <2>3. a = c /\ b = d
    BY <2>1, <2>2 DEF AtOrBefore
  <2> QED BY <2>1, <2>2, <2>3
<1>5. \A x, y, z \in Nodes(u) : AtOrBefore(x, y) /\ AtOrBefore(y, z) => AtOrBefore(x, z)
  <2> SUFFICES ASSUME NEW x \in Nodes(u), NEW y \in Nodes(u), NEW z \in Nodes(u),
                      AtOrBefore(x, y), AtOrBefore(y, z)
               PROVE  AtOrBefore(x, z)
    OBVIOUS
  <2>1. PICK a \in Nat, b \in Nat : x = <<a, b>>
    BY <1>2
  <2>2. PICK c \in Nat, d \in Nat : y = <<c, d>>
    BY <1>2
  <2>3. PICK e \in Nat, f \in Nat : z = <<e, f>>
    BY <1>2
  <2> QED BY <2>1, <2>2, <2>3 DEF AtOrBefore
<1> DEFINE Upto(x) == {y \in Nodes(u) : AtOrBefore(y, x)}
<1>6. ASSUME NEW x \in Nodes(u), NEW y \in Nodes(u), AtOrBefore(x, y),
             Cardinality(Upto(x)) = Cardinality(Upto(y))
      PROVE  x = y
  <2>1. Upto(x) \subseteq Upto(y) /\ Upto(y) \subseteq Nodes(u) /\ y \in Upto(y)
    BY <1>3, <1>5, <1>6
  <2> HIDE DEF Upto
  <2>2. IsFiniteSet(Upto(y))
    BY <1>1, <2>1, FS_Subset
  <2>3. Upto(y) = Upto(x)
    BY <1>6, <2>1, <2>2, FS_Subset
  <2>4. y \in Upto(x)
    BY <2>1, <2>3
  <2> QED BY <1>4, <1>6, <2>4 DEF Upto
<1>7. NodeIndex(u, i) = Cardinality(Upto(i)) /\ NodeIndex(u, j) = Cardinality(Upto(j))
  BY DEF NodeIndex
<1> HIDE DEF Upto
<1> QED BY <1>3, <1>6, <1>7

\* What a link that was accepted has linked.
Linked(ps, pol) ==
  /\ Linkable(ps) /\ pol \in Policy
  /\ \A n \in DOMAIN ps : UnitAccepted(MemberUnit(0, ps[n]), pol)

\* The composite verdict's graph of a linked unit.
LEMMA GraphOfLink ==
  ASSUME NEW ps, NEW pol, Linked(ps, pol), NEW n \in DOMAIN ps,
         NEW i \in DOMAIN Source[ps[n]].args, NEW j \in DOMAIN Source[ps[n]].args,
         Owners(ps, TermAt(ps, <<n, i>>)) = {n}
  PROVE  LET u     == LinkedUnit(ps, pol)
             nodes == MapNodes(ps, u)
         IN  <<<<0, i>>, <<0, j>>>> \in Edges(MemberUnit(0, ps[n])) <=>
              /\ {<<n, i>>, <<n, j>>} \subseteq DOMAIN nodes
              /\ <<nodes[<<n, i>>], nodes[<<n, j>>]>> \in MapEdges(u)
<1> DEFINE u     == LinkedUnit(ps, pol)
           nodes == MapNodes(ps, u)
           x     == Place(ps, <<n, i>>)
           y     == Place(ps, <<n, j>>)
<1>1. Linkable(ps) /\ pol \in Policy /\ UnitAccepted(MemberUnit(0, ps[n]), pol)
  BY DEF Linked
<1>2. <<<<0, i>>, <<0, j>>>> \in Edges(MemberUnit(0, ps[n])) <=> <<x, y>> \in Edges(u)
  BY <1>1, OwnEdgesKept, NoEdgeAdded
<1>3. <<n, i>> \in Handles(ps) /\ <<n, j>> \in Handles(ps)
  BY <1>1, HandleTerm
<1>4. Nodes(u) \subseteq Handles(ps)
  BY <1>1, MergedTerms DEF Nodes, LinkedUnit
<1>5. Edges(u) \subseteq Nodes(u) \X Nodes(u)
  BY DEF Edges
<1> HIDE DEF u
<1>6. /\ <<n, i>> \in DOMAIN nodes <=> x \in Nodes(u)
      /\ <<n, j>> \in DOMAIN nodes <=> y \in Nodes(u)
      /\ x \in Nodes(u) => nodes[<<n, i>>] = NodeIndex(u, x)
      /\ y \in Nodes(u) => nodes[<<n, j>>] = NodeIndex(u, y)
  BY <1>3 DEF MapNodes
<1> HIDE DEF nodes, x, y
<1>7. ASSUME <<x, y>> \in Edges(u)
      PROVE  /\ x \in Nodes(u) /\ y \in Nodes(u)
             /\ <<NodeIndex(u, x), NodeIndex(u, y)>> \in MapEdges(u)
  <2>1. <<x, y>>[1] = x /\ <<x, y>>[2] = y
    OBVIOUS
  <2> QED BY <1>5, <1>7, <2>1 DEF MapEdges
<1>8. ASSUME x \in Nodes(u), y \in Nodes(u), <<NodeIndex(u, x), NodeIndex(u, y)>> \in MapEdges(u)
      PROVE  <<x, y>> \in Edges(u)
  <2>1. PICK e \in Edges(u) : NodeIndex(u, e[1]) = NodeIndex(u, x) /\ NodeIndex(u, e[2]) = NodeIndex(u, y)
    BY <1>8 DEF MapEdges
  <2>2. e[1] \in Nodes(u) /\ e[2] \in Nodes(u) /\ e = <<e[1], e[2]>>
    BY <1>5
  <2>3. e[1] = x /\ e[2] = y
    BY <1>1, <1>4, <1>8, <2>1, <2>2, IndexInjective
  <2> QED BY <2>2, <2>3
<1>9. <<x, y>> \in Edges(u) <=>
        /\ <<n, i>> \in DOMAIN nodes /\ <<n, j>> \in DOMAIN nodes
        /\ <<nodes[<<n, i>>], nodes[<<n, j>>]>> \in MapEdges(u)
  BY <1>6, <1>7, <1>8
<1>10. {<<n, i>>, <<n, j>>} \subseteq DOMAIN nodes <=> <<n, i>> \in DOMAIN nodes /\ <<n, j>> \in DOMAIN nodes
  OBVIOUS
<1>11. <<<<0, i>>, <<0, j>>>> \in Edges(MemberUnit(0, ps[n])) <=>
         /\ {<<n, i>>, <<n, j>>} \subseteq DOMAIN nodes
         /\ <<nodes[<<n, i>>], nodes[<<n, j>>]>> \in MapEdges(u)
  BY <1>2, <1>9, <1>10
<1> QED BY <1>11 DEF nodes, u

-----------------------------------------------------------------------------
(* The status of a claim of one member. *)

\* The nodes of a member's own check.
LEMMA SoloNodes ==
  ASSUME NEW p \in Program
  PROVE  LET u == MemberUnit(0, p)
         IN  /\ \A a \in Nodes(u) : \E i \in DOMAIN Source[p].args : a = <<0, i>>
             /\ \A i \in DOMAIN Source[p].args :
                  /\ <<0, i>> \in DOMAIN u.args /\ u.args[<<0, i>>] = Qualified(0, Source[p].args[i])
                  /\ <<0, i>> \in Nodes(u) <=> Infers[Source[p].args[i]] = "complete"
                  /\ Concl[u.args[<<0, i>>]] = ShapeConcl[Source[p].args[i]]
<1> DEFINE u == MemberUnit(0, p)
<1>0. 0 \in 0..MaxMembers
  BY ShapeAssumption
<1>1. DOMAIN u.args = {0} \X DOMAIN Source[p].args
  BY DEF MemberUnit
<1>2. ASSUME NEW i \in DOMAIN Source[p].args
      PROVE  <<0, i>> \in DOMAIN u.args /\ u.args[<<0, i>>] = Qualified(0, Source[p].args[i])
  BY DEF MemberUnit
<1> HIDE DEF u
<1>3. ASSUME NEW i \in DOMAIN Source[p].args
      PROVE  /\ <<0, i>> \in Nodes(u) <=> Infers[Source[p].args[i]] = "complete"
             /\ Concl[u.args[<<0, i>>]] = ShapeConcl[Source[p].args[i]]
  <2>1. Source[p].args[i] \in Shape
    BY SourceAssumption
  <2>2. /\ Qualified(0, Source[p].args[i])[2] = Source[p].args[i]
        /\ Concl[Qualified(0, Source[p].args[i])] = ShapeConcl[Source[p].args[i]]
    BY <1>0, <2>1, QualifiedTerm
  <2> QED BY <1>2, <2>2 DEF Nodes, IsComplete
<1>4. \A a \in Nodes(u) : \E i \in DOMAIN Source[p].args : a = <<0, i>>
  BY <1>1 DEF Nodes
<1>5. /\ \A a \in Nodes(u) : \E i \in DOMAIN Source[p].args : a = <<0, i>>
      /\ \A i \in DOMAIN Source[p].args :
           /\ <<0, i>> \in DOMAIN u.args /\ u.args[<<0, i>>] = Qualified(0, Source[p].args[i])
           /\ <<0, i>> \in Nodes(u) <=> Infers[Source[p].args[i]] = "complete"
           /\ Concl[u.args[<<0, i>>]] = ShapeConcl[Source[p].args[i]]
  BY <1>2, <1>3, <1>4
<1> QED BY <1>5 DEF u

\* A member's declaration is a node of the linked unit when it is one of its own check.
LEMMA LinkedNode ==
  ASSUME NEW ps, Linkable(ps), NEW pol, NEW n \in DOMAIN ps, NEW i \in DOMAIN Source[ps[n]].args
  PROVE  LET u == LinkedUnit(ps, pol)
             g == Place(ps, <<n, i>>)
         IN  /\ g \in Nodes(u) <=> Infers[Source[ps[n]].args[i]] = "complete"
             /\ Concl[u.args[g]] = ShapeConcl[Source[ps[n]].args[i]]
<1> DEFINE u  == LinkedUnit(ps, pol)
           g  == Place(ps, <<n, i>>)
           si == Source[ps[n]].args[i]
<1>1. n \in 0..MaxMembers /\ si \in Shape
  BY MemberShape
<1>2. g \in DOMAIN u.args /\ u.args[g] = Qualified(n, si)
  BY HandlePlaced DEF PlacedAt
<1> HIDE DEF u, g, si
<1>3. Qualified(n, si)[2] = si /\ Concl[Qualified(n, si)] = ShapeConcl[si]
  BY <1>1, QualifiedTerm
<1>4. /\ g \in Nodes(u) <=> Infers[si] = "complete"
      /\ Concl[u.args[g]] = ShapeConcl[si]
  BY <1>2, <1>3 DEF Nodes, IsComplete
<1> QED BY <1>4 DEF u, g, si

\* So a declaration is a node of both or of neither, with one conclusion.
LEMMA SameNode ==
  ASSUME NEW ps, Linkable(ps), NEW pol, NEW n \in DOMAIN ps, NEW i \in DOMAIN Source[ps[n]].args
  PROVE  /\ <<0, i>> \in Nodes(MemberUnit(0, ps[n])) <=>
              Place(ps, <<n, i>>) \in Nodes(LinkedUnit(ps, pol))
         /\ Concl[MemberUnit(0, ps[n]).args[<<0, i>>]] =
              Concl[LinkedUnit(ps, pol).args[Place(ps, <<n, i>>)]]
<1>1. ps[n] \in Program
  BY MemberShape
<1>2. /\ <<0, i>> \in Nodes(MemberUnit(0, ps[n])) <=> Infers[Source[ps[n]].args[i]] = "complete"
      /\ Concl[MemberUnit(0, ps[n]).args[<<0, i>>]] = ShapeConcl[Source[ps[n]].args[i]]
  BY <1>1, SoloNodes
<1>3. /\ Place(ps, <<n, i>>) \in Nodes(LinkedUnit(ps, pol)) <=>
            Infers[Source[ps[n]].args[i]] = "complete"
      /\ Concl[LinkedUnit(ps, pol).args[Place(ps, <<n, i>>)]] = ShapeConcl[Source[ps[n]].args[i]]
  BY LinkedNode
<1> QED BY <1>2, <1>3

\* Two declarations of an accepted member are not merged.
LEMMA PlaceInjective ==
  ASSUME NEW ps, NEW pol, Linked(ps, pol), NEW n \in DOMAIN ps,
         NEW i \in DOMAIN Source[ps[n]].args, NEW j \in DOMAIN Source[ps[n]].args,
         Place(ps, <<n, i>>) = Place(ps, <<n, j>>)
  PROVE  i = j
<1> DEFINE si == Source[ps[n]].args[i]
           sj == Source[ps[n]].args[j]
           solo == MemberUnit(0, ps[n])
<1>1. /\ Linkable(ps) /\ UnitAccepted(solo, pol)
      /\ n \in 0..MaxMembers /\ ps[n] \in Program /\ si \in Shape /\ sj \in Shape
  BY MemberShape DEF Linked
<1>2. Qualified(n, si) = Qualified(n, sj)
  BY <1>1, HandlePlaced DEF PlacedAt
<1>3. si = sj
  <2>1. Qualified(n, si)[2] = si /\ Qualified(n, sj)[2] = sj
    BY <1>1, QualifiedTerm
  <2> QED BY <1>2, <2>1
<1>4. /\ <<0, i>> \in DOMAIN solo.args /\ solo.args[<<0, i>>] = Qualified(0, si)
      /\ <<0, j>> \in DOMAIN solo.args /\ solo.args[<<0, j>>] = Qualified(0, sj)
  BY <1>1, SoloNodes
<1> HIDE DEF solo, si, sj
<1>5. <<0, i>> = <<0, j>>
  BY <1>1, <1>3, <1>4 DEF UnitAccepted
<1> QED BY <1>5

\* No attack of the linked unit that a member's own check lacks reaches its arguments.
Unreached(ps, pol, n) ==
  \A e \in Edges(LinkedUnit(ps, pol)) : \A j \in DOMAIN Source[ps[n]].args :
    e[2] = Place(ps, <<n, j>>) =>
      \E d \in Edges(MemberUnit(0, ps[n])) :
        e = <<Place(ps, <<n, d[1][2]>>), Place(ps, <<n, d[2][2]>>)>>

\* Every conclusion of a claim in the linked unit is a declaration of the member.
OwnSupport(ps, pol, n, claim) ==
  \A x \in Nodes(LinkedUnit(ps, pol)) :
    Concl[LinkedUnit(ps, pol).args[x]] = claim.prop =>
      \E i \in DOMAIN Source[ps[n]].args : x = Place(ps, <<n, i>>)

\* Where a node of a member's own check is in the linked unit.
PlaceOf(ps, n) == [a \in Nodes(MemberUnit(0, ps[n])) |-> Place(ps, <<n, a[2]>>)]

\* Then the member's own graph is a part of the linked one that nothing else attacks.
LEMMA MemberEmbeds ==
  ASSUME NEW ps, NEW pol, Linked(ps, pol), NEW n \in DOMAIN ps, Unreached(ps, pol, n)
  PROVE  Embeds(PlaceOf(ps, n), Nodes(MemberUnit(0, ps[n])), Edges(MemberUnit(0, ps[n])),
                Nodes(LinkedUnit(ps, pol)), Edges(LinkedUnit(ps, pol)))
<1> DEFINE solo == MemberUnit(0, ps[n])
           u    == LinkedUnit(ps, pol)
           f    == PlaceOf(ps, n)
           D    == DOMAIN Source[ps[n]].args
           At(i) == Place(ps, <<n, i>>)
<1>1. Linkable(ps) /\ pol \in Policy /\ ps[n] \in Program
  BY MemberShape DEF Linked, Linkable
<1>2. DOMAIN f = Nodes(solo) /\ \A a \in Nodes(solo) : \E i \in D : a = <<0, i>> /\ f[a] = At(i)
  <2>1. \A a \in Nodes(solo) : \E i \in D : a = <<0, i>>
    BY <1>1, SoloNodes
  <2> QED BY <2>1 DEF PlaceOf
<1>3. \A i \in D : <<0, i>> \in Nodes(solo) <=> At(i) \in Nodes(u)
  BY <1>1, SameNode
<1>4. \A i, j \in D : At(i) = At(j) => i = j
  BY PlaceInjective
<1>5. \A i, j \in D : <<<<0, i>>, <<0, j>>>> \in Edges(solo) => <<At(i), At(j)>> \in Edges(u)
  BY <1>1, OwnEdgesKept
<1>6. Edges(solo) \subseteq Nodes(solo) \X Nodes(solo)
  BY DEF Edges
<1>7. \A e \in Edges(u) : \A j \in D : e[2] = At(j) =>
        \E d \in Edges(solo) : e = <<At(d[1][2]), At(d[2][2])>>
  BY DEF Unreached
<1>8. f = [a \in DOMAIN f |-> f[a]]
  BY DEF PlaceOf
<1> HIDE DEF solo, u, f, D, At
<1>9. f \in [Nodes(solo) -> Nodes(u)]
  <2>1. \A a \in Nodes(solo) : f[a] \in Nodes(u)
    BY <1>2, <1>3
  <2> QED BY <1>2, <1>8, <2>1
<1>10. \A a, b \in Nodes(solo) : f[a] = f[b] => a = b
  BY <1>2, <1>4
<1>11. ASSUME NEW x, NEW b \in Nodes(solo), <<x, f[b]>> \in Edges(u)
       PROVE  \E a \in Nodes(solo) : x = f[a] /\ <<a, b>> \in Edges(solo)
  <2>1. PICK j \in D : b = <<0, j>> /\ f[b] = At(j)
    BY <1>2
  <2>2. <<x, f[b]>>[2] = At(j)
    BY <2>1
  <2>3. PICK d \in Edges(solo) : <<x, f[b]>> = <<At(d[1][2]), At(d[2][2])>>
    BY <1>7, <1>11, <2>2
  <2>4. d[1] \in Nodes(solo) /\ d[2] \in Nodes(solo) /\ d = <<d[1], d[2]>>
    BY <1>6
  <2>5. PICK k \in D : d[1] = <<0, k>> /\ f[d[1]] = At(k)
    BY <1>2, <2>4
  <2>6. PICK l \in D : d[2] = <<0, l>> /\ f[d[2]] = At(l)
    BY <1>2, <2>4
  <2>7. d[1][2] = k /\ d[2][2] = l
    BY <2>5, <2>6
  <2>8. x = f[d[1]] /\ f[b] = f[d[2]]
    BY <2>3, <2>5, <2>6, <2>7
  <2>9. d[2] = b
    BY <1>10, <2>4, <2>8
  <2> QED BY <2>4, <2>8, <2>9
<1>12. \A a, b \in Nodes(solo) : <<a, b>> \in Edges(solo) <=> <<f[a], f[b]>> \in Edges(u)
  <2> SUFFICES ASSUME NEW a \in Nodes(solo), NEW b \in Nodes(solo)
               PROVE  <<a, b>> \in Edges(solo) <=> <<f[a], f[b]>> \in Edges(u)
    OBVIOUS
  <2>1. <<a, b>> \in Edges(solo) => <<f[a], f[b]>> \in Edges(u)
    BY <1>2, <1>5
  <2>2. ASSUME <<f[a], f[b]>> \in Edges(u) PROVE <<a, b>> \in Edges(solo)
    BY <1>10, <1>11, <2>2
  <2> QED BY <2>1, <2>2
<1>13. Embeds(f, Nodes(solo), Edges(solo), Nodes(u), Edges(u))
  BY <1>9, <1>10, <1>11, <1>12 DEF Embeds
<1> QED BY <1>13 DEF f, solo, u

\* The labelling of a unit is read off its grounded extension.
LEMMA UnitLabelled ==
  ASSUME NEW u, NEW claim
  PROVE  \E S : /\ LeastComplete(Nodes(u), Edges(u), S)
                /\ StatusIn(u, claim) =
                     StatusWith([i \in Nodes(u) |-> LabelWith(Nodes(u), Edges(u), S, i)],
                                {i \in Nodes(u) : Concl[u.args[i]] = claim.prop})
<1> DEFINE S == CHOOSE S \in SUBSET Nodes(u) : LeastComplete(Nodes(u), Edges(u), S)
<1>1. LeastComplete(Nodes(u), Edges(u), S)
  BY LeastCompleteExists
<1>2. StatusIn(u, claim) = StatusWith([i \in Nodes(u) |-> LabelWith(Nodes(u), Edges(u), S, i)],
                                      {i \in Nodes(u) : Concl[u.args[i]] = claim.prop})
  BY DEF StatusIn
<1> HIDE DEF S
<1> QED BY <1>1, <1>2

\* A claim that only the member concludes then has the status of its own check.
LEMMA MemberStatus ==
  ASSUME NEW ps, NEW pol, Linked(ps, pol), NEW n \in DOMAIN ps, NEW claim,
         Unreached(ps, pol, n), OwnSupport(ps, pol, n, claim)
  PROVE  StatusIn(LinkedUnit(ps, pol), claim) = StatusIn(MemberUnit(0, ps[n]), claim)
<1> DEFINE solo == MemberUnit(0, ps[n])
           u    == LinkedUnit(ps, pol)
           f    == PlaceOf(ps, n)
           D    == DOMAIN Source[ps[n]].args
           At(i) == Place(ps, <<n, i>>)
           own     == {a \in Nodes(solo) : Concl[solo.args[a]] = claim.prop}
           support == {x \in Nodes(u) : Concl[u.args[x]] = claim.prop}
<1>1. Linkable(ps) /\ ps[n] \in Program
  BY MemberShape DEF Linked, Linkable
<1>2. Embeds(f, Nodes(solo), Edges(solo), Nodes(u), Edges(u))
  BY MemberEmbeds
<1>3. \A a \in Nodes(solo) : \E i \in D : a = <<0, i>> /\ f[a] = At(i)
  <2>1. \A a \in Nodes(solo) : \E i \in D : a = <<0, i>>
    BY <1>1, SoloNodes
  <2> QED BY <2>1 DEF PlaceOf
<1>4. \A i \in D : /\ <<0, i>> \in Nodes(solo) <=> At(i) \in Nodes(u)
                   /\ Concl[solo.args[<<0, i>>]] = Concl[u.args[At(i)]]
  BY <1>1, SameNode
<1>5. \A x \in Nodes(u) : Concl[u.args[x]] = claim.prop => \E i \in D : x = At(i)
  BY DEF OwnSupport
<1> HIDE DEF solo, u, f, D, At
<1>6. \A x : x \in support <=> \E a \in own : x = f[a]
  <2>1. ASSUME NEW x \in support PROVE \E a \in own : x = f[a]
    <3>1. PICK i \in D : x = At(i)
      BY <1>5
    <3>2. <<0, i>> \in own
      BY <1>4, <3>1
    <3>3. f[<<0, i>>] = At(i)
      BY <1>3, <3>2
    <3> QED BY <3>1, <3>2, <3>3
  <2>2. ASSUME NEW a \in own PROVE f[a] \in support
    BY <1>3, <1>4
  <2> HIDE DEF own, support
  <2> QED BY <2>1, <2>2
<1>7. PICK G : /\ LeastComplete(Nodes(u), Edges(u), G)
               /\ StatusIn(u, claim) =
                    StatusWith([i \in Nodes(u) |-> LabelWith(Nodes(u), Edges(u), G, i)], support)
  BY UnitLabelled
<1>8. PICK P : /\ LeastComplete(Nodes(solo), Edges(solo), P)
                /\ StatusIn(solo, claim) =
                     StatusWith([i \in Nodes(solo) |-> LabelWith(Nodes(solo), Edges(solo), P, i)], own)
  BY UnitLabelled
<1>9. own \in SUBSET Nodes(solo) /\ support \in SUBSET Nodes(u)
  OBVIOUS
<1> HIDE DEF own, support
<1>10. StatusWith([i \in Nodes(u) |-> LabelWith(Nodes(u), Edges(u), G, i)], support) =
         StatusWith([i \in Nodes(solo) |-> LabelWith(Nodes(solo), Edges(solo), P, i)], own)
  BY <1>2, <1>6, <1>7, <1>8, <1>9, PartKeepsItsStatus
<1>11. StatusIn(u, claim) = StatusIn(solo, claim)
  BY <1>7, <1>8, <1>10
<1> QED BY <1>11 DEF u, solo

-----------------------------------------------------------------------------
(* The run. *)

\* What is loaded was accepted alone under the contract, and only a full load
\* is linked.
LoadInv ==
  /\ stage \in {"contract", "resolve", "program", "policy"} => manifest \in DOMAIN Manifest
  /\ stage \in {"resolve", "program", "policy"} => contract \in Policy
  /\ stage = "policy" => program \in Program
  /\ stage \in {"program", "policy"} => Len(loaded) <= Len(man.members)
  /\ stage = "policy" => Len(loaded) < Len(man.members)
  /\ loaded \in Seq(Program)
  /\ stage \in {"manifest", "contract", "resolve"} => loaded = <<>>
  /\ \A n \in DOMAIN loaded : UnitAccepted(MemberUnit(0, loaded[n]), contract)
  /\ verdict.class # "MRLinkRejected"

\* The manifest has at least one member and no more than the bound.
LEMMA ManifestMembers ==
  ASSUME manifest \in DOMAIN Manifest
  PROVE  man.members \in Seq(Path) /\ Len(man.members) \in 1..MaxMembers
BY LoadAssumption DEF man

\* A stage that stops with a class other than the link's keeps the invariant.
LEMMA StopKeeps ==
  ASSUME LoadInv, NEW class, NEW member, Stop(class, member), class # "MRLinkRejected"
  PROVE  LoadInv'
<1>1. /\ stage' = "done" /\ loaded' = loaded /\ contract' = contract
      /\ verdict'.class # "MRLinkRejected"
  BY DEF Stop
<1> QED BY <1>1 DEF LoadInv

\* Nothing is loaded before the members are read.
LEMMA LoadInvInit == Init => LoadInv
BY DEF Init, LoadInv, Undecided

\* Each step keeps the invariant.
LEMMA LoadInvStep ==
  ASSUME LoadInv, [Next]_vars
  PROVE  LoadInv'
<1>1. CASE Edit
  BY <1>1 DEF Edit, LoadInv, man
<1>2. CASE ReadManifest
  <2>1. CASE stage' = "done"
    <3>1. \E class \in {"MBUnreadable", "MBWire"} : Stop(class, 0)
      BY <1>2, <2>1 DEF ReadManifest, GoOn
    <3> QED BY <3>1, StopKeeps
  <2>2. CASE stage' # "done"
    <3>1. /\ stage = "manifest" /\ stage' = "contract" /\ manifest' \in DOMAIN Manifest
          /\ UNCHANGED <<contract, loaded, program, verdict>>
      BY <1>2, <2>2 DEF ReadManifest, GoOn, Stop
    <3> QED BY <3>1 DEF LoadInv
  <2> QED BY <2>1, <2>2
<1>3. CASE ReadContract
  <2>1. CASE stage' = "done"
    <3>1. \E class \in {"MBUnreadable", "MBManifestPolicySource", "MBManifestPolicyMismatch"} :
            Stop(class, 0)
      BY <1>3, <2>1 DEF ReadContract, GoOn
    <3> QED BY <3>1, StopKeeps
  <2>2. CASE stage' # "done"
    <3>1. /\ stage = "contract" /\ stage' = "resolve" /\ contract' \in Policy
          /\ UNCHANGED <<manifest, loaded, program, verdict>>
      BY <1>3, <2>2 DEF ReadContract, GoOn, Stop
    <3> QED BY <3>1 DEF LoadInv
  <2> QED BY <2>1, <2>2
<1>4. CASE ResolvePaths
  <2>1. CASE stage' = "done"
    <3>1. Stop("MBDuplicatePath", 0)
      BY <1>4, <2>1 DEF ResolvePaths, GoOn
    <3> QED BY <3>1, StopKeeps
  <2>2. CASE stage' # "done"
    <3>1. /\ stage = "resolve" /\ stage' = "program"
          /\ UNCHANGED <<manifest, contract, loaded, program, verdict>>
      BY <1>4, <2>2 DEF ResolvePaths, GoOn, Stop
    <3>2. loaded = <<>> /\ Len(loaded) <= Len(man.members)
      BY <3>1, ManifestMembers, ShapeAssumption DEF LoadInv
    <3> QED BY <3>1, <3>2 DEF LoadInv, man
  <2> QED BY <2>1, <2>2
<1>5. CASE ReadProgram
  <2>1. CASE stage' = "done"
    <3>1. \E class \in {"MBUnreadable", "MBMemberSource"} : Stop(class, at)
      BY <1>5, <2>1 DEF ReadProgram, GoOn
    <3> QED BY <3>1, StopKeeps
  <2>2. CASE stage' # "done"
    <3>1. /\ stage = "program" /\ stage' = "policy" /\ program' \in Program
          /\ at <= Len(man.members)
          /\ UNCHANGED <<manifest, contract, loaded, verdict>>
      BY <1>5, <2>2 DEF ReadProgram, GoOn, Stop
    <3>2. Len(loaded) < Len(man.members)
      BY <3>1, ManifestMembers, ShapeAssumption DEF LoadInv, at
    <3> QED BY <3>1, <3>2 DEF LoadInv, man
  <2> QED BY <2>1, <2>2
<1>6. CASE LoadMember
  <2> DEFINE q == Text(PolicyPath[man.members[at]][Source[program].policy])
  <2>1. CASE stage' = "done"
    <3>1. /\ Gate(program, q) # "MRLinkRejected"
      BY DEF Gate
    <3>2. \E class : class # "MRLinkRejected" /\ Stop(class, at)
      BY <1>6, <2>1, <3>1 DEF LoadMember, GoOn
    <3> QED BY <3>2, StopKeeps
  <2>2. CASE stage' # "done"
    <3>1. /\ stage = "policy" /\ stage' = "program" /\ loaded' = Append(loaded, program)
          /\ UNCHANGED <<manifest, contract, verdict>>
          /\ q \in Policy /\ MeetsContract(program, q) /\ Gate(program, q) = "accept"
      BY <1>6, <2>2 DEF LoadMember, GoOn, Stop
    <3>2. UnitAccepted(MemberUnit(0, program), contract)
      BY <3>1 DEF MeetsContract, Gate
    <3>3. program \in Program /\ loaded \in Seq(Program) /\ Len(loaded) < Len(man.members)
      BY <3>1 DEF LoadInv
    <3>4. /\ loaded' \in Seq(Program) /\ Len(loaded') = Len(loaded) + 1
          /\ DOMAIN loaded' = 1..(Len(loaded) + 1)
          /\ \A n \in DOMAIN loaded' :
               loaded'[n] = program \/ (n \in DOMAIN loaded /\ loaded'[n] = loaded[n])
      BY <3>1, <3>3
    <3>5. Len(loaded') <= Len(man.members)
      BY <3>1, <3>3, <3>4, ManifestMembers, ShapeAssumption DEF LoadInv
    <3>6. \A n \in DOMAIN loaded' : UnitAccepted(MemberUnit(0, loaded'[n]), contract)
      BY <3>2, <3>4 DEF LoadInv
    <3> HIDE DEF q
    <3> QED BY <3>1, <3>4, <3>5, <3>6 DEF LoadInv, man
  <2> QED BY <2>1, <2>2
<1>7. CASE Link
  <2>1. stage = "program" /\ at > Len(man.members)
    BY <1>7 DEF Link
  <2>2. Linkable(loaded) /\ contract \in Policy
    BY <2>1, ManifestMembers, ShapeAssumption DEF LoadInv, Linkable, at
  <2>3. UnitAccepted(LinkedUnit(loaded, contract), contract)
    BY <2>2, LinkedAccepted DEF LoadInv
  <2>4. Stop("accepted", 0)
    BY <1>7, <2>3 DEF Link
  <2> QED BY <2>4, StopKeeps
<1>8. CASE UNCHANGED vars
  BY <1>8 DEF vars, LoadInv, man
<1> QED BY <1>1, <1>2, <1>3, <1>4, <1>5, <1>6, <1>7, <1>8 DEF Next

\* No map whose members are each accepted under the policy it names is rejected
\* at the link, however the files change while it is read (linkMap,
\* crossMemberAttacks: the tripwire of an uncovered conflict never fires).
THEOREM LinkIsTotal == Spec => []LinkAccepts
<1>1. Init => LoadInv
  BY LoadInvInit
<1>2. LoadInv /\ [Next]_vars => LoadInv'
  BY LoadInvStep
<1>3. LoadInv => LinkAccepts
  BY DEF LoadInv, LinkAccepts
<1> QED BY <1>1, <1>2, <1>3, PTL DEF Spec

-----------------------------------------------------------------------------
(* The graph of an accepted map. *)

\* An accepted map is a link of members that were each accepted alone under
\* its contract; until it stops, a run has no verdict.
LinkedInv ==
  /\ stage # "done" => verdict = Undecided
  /\ verdict.class = "accepted" => Linked(loaded, contract)

\* A stage that goes on, or that stops short of the link, accepts nothing.
LEMMA NotYetAccepted ==
  ASSUME LinkedInv, stage # "done",
         \/ UNCHANGED verdict
         \/ \E class, member : Stop(class, member) /\ class # "accepted"
  PROVE  LinkedInv'
<1>1. CASE UNCHANGED verdict
  <2>1. verdict' = Undecided
    BY <1>1 DEF LinkedInv
  <2> QED BY <2>1 DEF LinkedInv, Undecided
<1>2. CASE \E class, member : Stop(class, member) /\ class # "accepted"
  <2>1. stage' = "done" /\ verdict'.class # "accepted"
    BY <1>2 DEF Stop
  <2> QED BY <2>1 DEF LinkedInv
<1> QED BY <1>1, <1>2

\* Each step keeps it.
LEMMA LinkedInvStep ==
  ASSUME LoadInv, LinkedInv, [Next]_vars
  PROVE  LinkedInv'
<1>1. CASE Edit
  BY <1>1, NotYetAccepted DEF Edit
<1>2. CASE ReadManifest
  <2>1. \/ UNCHANGED verdict
        \/ \E class \in {"MBUnreadable", "MBWire"} : Stop(class, 0)
    BY <1>2 DEF ReadManifest, GoOn
  <2> QED BY <1>2, <2>1, NotYetAccepted DEF ReadManifest
<1>3. CASE ReadContract
  <2>1. \/ UNCHANGED verdict
        \/ \E class \in {"MBUnreadable", "MBManifestPolicySource", "MBManifestPolicyMismatch"} :
             Stop(class, 0)
    BY <1>3 DEF ReadContract, GoOn
  <2> QED BY <1>3, <2>1, NotYetAccepted DEF ReadContract
<1>4. CASE ResolvePaths
  <2>1. UNCHANGED verdict \/ Stop("MBDuplicatePath", 0)
    BY <1>4 DEF ResolvePaths, GoOn
  <2> QED BY <1>4, <2>1, NotYetAccepted DEF ResolvePaths
<1>5. CASE ReadProgram
  <2>1. \/ UNCHANGED verdict
        \/ \E class \in {"MBUnreadable", "MBMemberSource"} : Stop(class, at)
    BY <1>5 DEF ReadProgram, GoOn
  <2> QED BY <1>5, <2>1, NotYetAccepted DEF ReadProgram
<1>6. CASE LoadMember
  <2> DEFINE q == Text(PolicyPath[man.members[at]][Source[program].policy])
  <2>1. Gate(program, q) # "accepted"
    BY DEF Gate
  <2>2. UNCHANGED verdict \/ \E class : class # "accepted" /\ Stop(class, at)
    BY <1>6, <2>1 DEF LoadMember, GoOn
  <2> QED BY <1>6, <2>2, NotYetAccepted DEF LoadMember
<1>7. CASE Link
  <2>1. stage = "program" /\ at > Len(man.members)
    BY <1>7 DEF Link
  <2>2. Linkable(loaded) /\ contract \in Policy
    BY <2>1, ManifestMembers, ShapeAssumption DEF LoadInv, Linkable, at
  <2>3. Linked(loaded, contract)
    BY <2>2 DEF LoadInv, Linked
  <2>4. stage' = "done" /\ loaded' = loaded /\ contract' = contract
    BY <1>7 DEF Link, Stop
  <2>5. Linked(loaded, contract)'
    BY <2>3, <2>4 DEF Linked
  <2> QED BY <2>4, <2>5 DEF LinkedInv
<1>8. CASE UNCHANGED vars
  BY <1>8 DEF vars, LinkedInv, Linked
<1> QED BY <1>1, <1>2, <1>3, <1>4, <1>5, <1>6, <1>7, <1>8 DEF Next

\* Every accepted map links members accepted alone under its contract.
LEMMA LinkedInvariant == Spec => []LinkedInv
<1>1. Init => LoadInv /\ LinkedInv
  BY LoadInvInit DEF Init, LinkedInv, Undecided
<1>2. LoadInv /\ LinkedInv /\ [Next]_vars => (LoadInv /\ LinkedInv)'
  BY LoadInvStep, LinkedInvStep
<1> QED BY <1>1, <1>2, PTL DEF Spec

\* What an argument only one member has attacks among that member's arguments
\* is, in the accepted map's graph, what it attacks in the member's own check
\* (qualifyMember, mergeArguments, crossMemberAttacks, evaluate).
THEOREM OwnGraphsAreKept == Spec => []OwnGraphKept
<1>1. LinkedInv => OwnGraphKept
  <2> SUFFICES ASSUME Linked(loaded, contract), NEW n \in DOMAIN loaded,
                      NEW i \in DOMAIN Source[loaded[n]].args, NEW j \in DOMAIN Source[loaded[n]].args,
                      Owners(loaded, TermAt(loaded, <<n, i>>)) = {n}
               PROVE  LET u     == LinkedUnit(loaded, contract)
                          nodes == MapNodes(loaded, u)
                      IN  <<<<0, i>>, <<0, j>>>> \in Edges(MemberUnit(0, loaded[n])) <=>
                           /\ {<<n, i>>, <<n, j>>} \subseteq DOMAIN nodes
                           /\ <<nodes[<<n, i>>], nodes[<<n, j>>]>> \in MapEdges(u)
    BY DEF LinkedInv, OwnGraphKept
  <2> QED BY GraphOfLink
<1> QED BY <1>1, LinkedInvariant, PTL

\* A claim that only one member's arguments conclude, and whose arguments no
\* attack of another member reaches, has in every accepted map the status it has
\* in that member's own check (mergeArguments, crossMemberAttacks, evaluate).
THEOREM UndisturbedStatusHolds == Spec => []UndisturbedStatus
<1>1. LinkedInv => UndisturbedStatus
  <2> SUFFICES ASSUME Linked(loaded, contract), NEW n \in DOMAIN loaded,
                      NEW c \in DOMAIN Source[loaded[n]].claims,
                      LET u     == LinkedUnit(loaded, contract)
                          solo  == MemberUnit(0, loaded[n])
                          place == [i \in DOMAIN Source[loaded[n]].args |-> Place(loaded, <<n, i>>)]
                          own   == {<<place[e[1][2]], place[e[2][2]]>> : e \in Edges(solo)}
                          mine  == {place[i] : i \in DOMAIN place}
                          claim == Source[loaded[n]].claims[c]
                      IN  /\ \A e \in Edges(u) : e[2] \in mine => e \in own
                          /\ \A i \in Nodes(u) : Concl[u.args[i]] = claim.prop => i \in mine
               PROVE  StatusIn(LinkedUnit(loaded, contract), Source[loaded[n]].claims[c]) =
                        StatusIn(MemberUnit(0, loaded[n]), Source[loaded[n]].claims[c])
    BY DEF LinkedInv, UndisturbedStatus
  <2> DEFINE u     == LinkedUnit(loaded, contract)
             solo  == MemberUnit(0, loaded[n])
             place == [i \in DOMAIN Source[loaded[n]].args |-> Place(loaded, <<n, i>>)]
             own   == {<<place[e[1][2]], place[e[2][2]]>> : e \in Edges(solo)}
             mine  == {place[i] : i \in DOMAIN place}
             claim == Source[loaded[n]].claims[c]
  <2>1. \A e \in Edges(u) : e[2] \in mine => e \in own
    OBVIOUS
  <2>2. \A i \in Nodes(u) : Concl[u.args[i]] = claim.prop => i \in mine
    OBVIOUS
  <2>3. \A i \in DOMAIN Source[loaded[n]].args : Place(loaded, <<n, i>>) \in mine
    OBVIOUS
  <2>4. \A x \in mine : \E i \in DOMAIN Source[loaded[n]].args : x = Place(loaded, <<n, i>>)
    OBVIOUS
  <2>5. loaded[n] \in Program
    BY DEF Linked, Linkable
  <2>6. \A d \in Edges(solo) : d[1][2] \in DOMAIN place /\ d[2][2] \in DOMAIN place
    <3>1. \A d \in Edges(solo) : d[1] \in Nodes(solo) /\ d[2] \in Nodes(solo)
      BY DEF Edges
    <3>2. \A a \in Nodes(solo) : a[2] \in DOMAIN place
      BY <2>5, SoloNodes
    <3> HIDE DEF solo, place
    <3> QED BY <3>1, <3>2
  <2>7. \A e \in own : \E d \in Edges(solo) :
           e = <<Place(loaded, <<n, d[1][2]>>), Place(loaded, <<n, d[2][2]>>)>>
    <3> SUFFICES ASSUME NEW d \in Edges(solo)
                 PROVE  /\ place[d[1][2]] = Place(loaded, <<n, d[1][2]>>)
                        /\ place[d[2][2]] = Place(loaded, <<n, d[2][2]>>)
      OBVIOUS
    <3>1. d[1][2] \in DOMAIN place /\ d[2][2] \in DOMAIN place
      BY <2>6
    <3> HIDE DEF solo
    <3> QED BY <3>1
  <2> HIDE DEF own, mine, u, solo, claim
  <2>8. Unreached(loaded, contract, n)
    BY <2>1, <2>3, <2>7 DEF Unreached, u, solo
  <2>9. OwnSupport(loaded, contract, n, claim)
    BY <2>2, <2>4 DEF OwnSupport, u
  <2> QED BY <2>8, <2>9, MemberStatus DEF claim
<1> QED BY <1>1, LinkedInvariant, PTL

-----------------------------------------------------------------------------
(* The read cache. *)

\* A read keeps what was read before, and its reader gets what is retained.
LEMMA RetainKeeps ==
  ASSUME NEW f, Retain(f)
  PROVE  /\ Key[f] \in DOMAIN cache' /\ cache'[Key[f]] = Text(f)
         /\ \A k \in DOMAIN cache : k \in DOMAIN cache' /\ cache'[k] = cache[k]
BY DEF Retain, Text

\* The contract is the retained text of the manifest's policy file, and the
\* program being loaded is the retained text of its member's path.
CacheInv ==
  /\ LoadInv
  /\ stage # "done" => verdict = Undecided
  /\ stage \in {"resolve", "program", "policy"} =>
       /\ Key[man.policyPath] \in DOMAIN cache
       /\ cache[Key[man.policyPath]] = contract
  /\ stage = "policy" =>
       /\ Key[man.members[at]] \in DOMAIN cache
       /\ cache[Key[man.members[at]]] = program
  /\ BlameIsSound

\* A stage that blames no member keeps the invariant.
LEMMA BlamelessStop ==
  ASSUME CacheInv, LoadInv', NEW class, NEW member, Stop(class, member),
         member = 0 \/ class \in {"MBUnreadable", "MBMemberSource", "MBDuplicateClaim"}
  PROVE  CacheInv'
<1>1. stage' = "done" /\ verdict'.class = class /\ verdict'.member = member
  BY DEF Stop
<1>2. BlameIsSound'
  BY <1>1 DEF BlameIsSound
<1> QED BY <1>1, <1>2 DEF CacheInv

\* A stage that goes on has no verdict.
LEMMA UndecidedIsSound ==
  ASSUME verdict' = Undecided
  PROVE  BlameIsSound'
BY DEF BlameIsSound, Undecided

\* Each step keeps the invariant.
LEMMA CacheInvStep ==
  ASSUME CacheInv, [Next]_vars
  PROVE  CacheInv'
<1>0. LoadInv'
  BY LoadInvStep DEF CacheInv
<1>1. CASE Edit
  <2>1. UNCHANGED <<cache, stage, manifest, contract, loaded, program, verdict>>
    BY <1>1 DEF Edit
  <2> QED BY <1>0, <2>1 DEF CacheInv, BlameIsSound, man, at
<1>2. CASE ReadManifest
  <2>1. CASE stage' = "done"
    <3>1. \E class \in {"MBUnreadable", "MBWire"} : Stop(class, 0)
      BY <1>2, <2>1 DEF ReadManifest, GoOn
    <3> QED BY <1>0, <3>1, BlamelessStop
  <2>2. CASE stage' # "done"
    <3>1. stage = "manifest" /\ stage' = "contract" /\ verdict' = verdict
      BY <1>2, <2>2 DEF ReadManifest, GoOn, Stop
    <3> QED BY <1>0, <3>1, UndecidedIsSound DEF CacheInv
  <2> QED BY <2>1, <2>2
<1>3. CASE ReadContract
  <2>1. CASE stage' = "done"
    <3>1. \E class \in {"MBUnreadable", "MBManifestPolicySource", "MBManifestPolicyMismatch"} :
            Stop(class, 0)
      BY <1>3, <2>1 DEF ReadContract, GoOn
    <3> QED BY <1>0, <3>1, BlamelessStop
  <2>2. CASE stage' # "done"
    <3>1. /\ stage = "contract" /\ stage' = "resolve" /\ verdict' = verdict
          /\ Retain(man.policyPath) /\ contract' = Text(man.policyPath) /\ manifest' = manifest
      BY <1>3, <2>2 DEF ReadContract, GoOn, Stop
    <3>2. /\ Key[man.policyPath] \in DOMAIN cache'
          /\ cache'[Key[man.policyPath]] = contract'
      BY <3>1, RetainKeeps
    <3> QED BY <1>0, <3>1, <3>2, UndecidedIsSound DEF CacheInv, man
  <2> QED BY <2>1, <2>2
<1>4. CASE ResolvePaths
  <2>1. CASE stage' = "done"
    <3>1. Stop("MBDuplicatePath", 0)
      BY <1>4, <2>1 DEF ResolvePaths, GoOn
    <3> QED BY <1>0, <3>1, BlamelessStop
  <2>2. CASE stage' # "done"
    <3>1. /\ stage = "resolve" /\ stage' = "program"
          /\ UNCHANGED <<cache, manifest, contract, verdict>>
      BY <1>4, <2>2 DEF ResolvePaths, GoOn, Stop
    <3> QED BY <1>0, <3>1, UndecidedIsSound DEF CacheInv, man
  <2> QED BY <2>1, <2>2
<1>5. CASE ReadProgram
  <2>1. CASE stage' = "done"
    <3>1. \E class \in {"MBUnreadable", "MBMemberSource"} : Stop(class, at)
      BY <1>5, <2>1 DEF ReadProgram, GoOn
    <3> QED BY <1>0, <3>1, BlamelessStop
  <2>2. CASE stage' # "done"
    <3>1. /\ stage = "program" /\ stage' = "policy"
          /\ Retain(man.members[at]) /\ program' = Text(man.members[at])
          /\ UNCHANGED <<manifest, contract, loaded, verdict>>
      BY <1>5, <2>2 DEF ReadProgram, GoOn, Stop
    <3>2. /\ Key[man.members[at]] \in DOMAIN cache'
          /\ cache'[Key[man.members[at]]] = program'
          /\ Key[man.policyPath] \in DOMAIN cache'
          /\ cache'[Key[man.policyPath]] = contract
      BY <3>1, RetainKeeps DEF CacheInv
    <3> QED BY <1>0, <3>1, <3>2, UndecidedIsSound DEF CacheInv, man, at
  <2> QED BY <2>1, <2>2
<1>6. CASE LoadMember
  <2> DEFINE f == PolicyPath[man.members[at]][Source[program].policy]
             q == Text(f)
  <2>1. /\ stage = "policy" /\ Retain(f)
        /\ cache'[Key[f]] = q
        /\ \A k \in DOMAIN cache : k \in DOMAIN cache' /\ cache'[k] = cache[k]
    BY <1>6, RetainKeeps DEF LoadMember
  <2>2. /\ Key[man.policyPath] \in DOMAIN cache /\ cache[Key[man.policyPath]] = contract
        /\ Key[man.members[at]] \in DOMAIN cache /\ cache[Key[man.members[at]]] = program
        /\ contract \in Policy
    BY <2>1 DEF CacheInv, LoadInv
  <2>3. Key[f] = Key[man.policyPath] => q = contract
    BY <2>2 DEF Text
  <2>4. CASE stage' = "done"
    <3> DEFINE class == verdict'.class
    <3>1. /\ verdict'.member = at /\ UNCHANGED <<manifest, loaded>>
          /\ class \in {"MBMemberPolicy", "MBMemberSource", "MBDuplicateClaim", "MRContract",
                        "MRMemberAdmissionStop", "MRUnsupportedAdmission", "MRMemberRejected"}
          /\ class = "MBMemberPolicy" => q \notin Policy
          /\ class = "MRContract" => ~ MeetsContract(program, q)
          /\ class \in {"MRMemberAdmissionStop", "MRUnsupportedAdmission", "MRMemberRejected"}
               => MeetsContract(program, q)
      <4>1. CASE q \notin Policy
        BY <1>6, <2>4, <4>1 DEF LoadMember, GoOn, Stop
      <4>2. CASE q \in Policy /\ ~ Prepares(program, q)
        BY <1>6, <2>4, <4>2 DEF LoadMember, GoOn, Stop
      <4>3. CASE q \in Policy /\ Prepares(program, q) /\ RepeatsClaim(program)
        BY <1>6, <2>4, <4>3 DEF LoadMember, GoOn, Stop
      <4>4. CASE /\ q \in Policy /\ Prepares(program, q) /\ ~ RepeatsClaim(program)
                 /\ ~ MeetsContract(program, q)
        BY <1>6, <2>4, <4>4 DEF LoadMember, GoOn, Stop
      <4>5. CASE /\ q \in Policy /\ Prepares(program, q) /\ ~ RepeatsClaim(program)
                 /\ MeetsContract(program, q)
        <5>1. Gate(program, q) # "accept" /\ Stop(Gate(program, q), at)
          BY <1>6, <2>4, <4>5 DEF LoadMember, GoOn
        <5>2. Gate(program, q) \in
                {"MRMemberAdmissionStop", "MRUnsupportedAdmission", "MRMemberRejected"}
          BY <5>1 DEF Gate
        <5> QED BY <4>5, <5>1, <5>2 DEF Stop
      <4> QED BY <4>1, <4>2, <4>3, <4>4, <4>5
    <3>2. /\ man' = man /\ man.members[verdict'.member] = man.members[at]
          /\ cache'[Key[man.members[at]]] = program
          /\ cache'[Key[man.policyPath]] = contract
      BY <2>1, <2>2, <3>1 DEF man
    <3>3. class = "MBMemberPolicy" => Key[f] # Key[man.policyPath]
      BY <2>2, <2>3, <3>1
    <3>4. class = "MRContract" =>
            \/ Source[program].policy # man.policy
            \/ Source[program].backends # man.backends
            \/ Key[f] # Key[man.policyPath]
      BY <2>3, <3>1 DEF MeetsContract
    <3>5. class \in {"MRMemberAdmissionStop", "MRUnsupportedAdmission", "MRMemberRejected"} =>
            cache'[Key[f]] = cache'[Key[man.policyPath]]
      BY <2>1, <3>1, <3>2 DEF MeetsContract
    <3>6. BlameIsSound'
      BY <3>2, <3>3, <3>4, <3>5 DEF BlameIsSound
    <3> QED BY <1>0, <2>4, <3>6 DEF CacheInv
  <2>5. CASE stage' # "done"
    <3>1. /\ stage' = "program" /\ UNCHANGED <<manifest, contract, verdict>>
      BY <1>6, <2>5 DEF LoadMember, GoOn, Stop
    <3>2. verdict' = Undecided
      BY <2>1, <3>1 DEF CacheInv
    <3> HIDE DEF f, q
    <3> QED BY <1>0, <2>1, <2>2, <3>1, <3>2, UndecidedIsSound DEF CacheInv, man
  <2> QED BY <2>4, <2>5
<1>7. CASE Link
  <2>1. \E class : Stop(class, 0)
    BY <1>7 DEF Link
  <2> QED BY <1>0, <2>1, BlamelessStop
<1>8. CASE UNCHANGED vars
  BY <1>0, <1>8 DEF vars, CacheInv, BlameIsSound, man, at
<1> QED BY <1>1, <1>2, <1>3, <1>4, <1>5, <1>6, <1>7, <1>8 DEF Next

\* Whatever is written to the files meanwhile, a member is refused only for its
\* own text and its own policy's text as first read: a shared policy file is
\* one contract to every member (readCachedFile, sourceContractFailure).
THEOREM CacheIsOneContract == Spec => []BlameIsSound
<1>1. Init => CacheInv
  BY LoadInvInit DEF Init, CacheInv, BlameIsSound, Undecided
<1>2. CacheInv /\ [Next]_vars => CacheInv'
  BY CacheInvStep
<1>3. CacheInv => BlameIsSound
  BY DEF CacheInv
<1> QED BY <1>1, <1>2, <1>3, PTL DEF Spec
=============================================================================
