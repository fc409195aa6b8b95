---------------------------- MODULE SourceUpdate -----------------------------
(***************************************************************************)
(* Edits of a raw source (Lara.Update): single updates, whose side         *)
(* condition is asked first, and atomic batches, whose edits are each      *)
(* checked against the state the earlier ones produced and take effect     *)
(* together or not at all.  The discharge of an open question rewrites an  *)
(* argument in place, under attacks that address positions inside it.      *)
(*                                                                         *)
(* A support term is a record; a leaf is a term without premises,          *)
(* discharges or open questions, so the code's cases for leaves fall out   *)
(* of the cases for rules.  Positions are sequences of steps               *)
(* <<"premise", i>> and <<"question", q>>.  Premises count from 1.         *)
(***************************************************************************)
EXTENDS Naturals, SequencesExt

CONSTANTS
  Sources,    \* the raw sources a history of updates can start from
  Edits,      \* the edits it can ask for
  Questions,  \* the names of critical questions
  Parts,      \* the terms of those sources and edits, with their subterms
  Positions,  \* the positions the properties look at
  MaxEdits,   \* bound: edits in a batch
  MaxBatches  \* bound: updates in a history

VARIABLES
  source,   \* the SourceState the caller holds
  work,     \* the state inside applyBatch, after the edits done so far
  batch,    \* those edits
  taken,    \* the updates that took effect
  answer    \* what the last update was answered

updateVars == <<source, work, batch, taken, answer>>

\* subterm u pos off range: a record that is no term.
OffRange == [result |-> "off range"]

Step == ({"premise"} \X Nat) \cup ({"question"} \X Questions)

\* A question is open or answered once: what SupportTerm demands of each
\* occurrence (DuplicateDischarges, Overlap).
AnsweredOnce(t) ==
  /\ \A i, j \in DOMAIN t.dis : t.dis[i][1] = t.dis[j][1] => i = j
  /\ \A i \in DOMAIN t.dis : t.dis[i][1] \notin t.holes

\* Terms arrive as SupportTerm accepts them; leaves, arguments and attacks as a
\* checked source has them.  Whoever looks at a position looks at its prefixes.
ASSUME UpdateAssumption ==
  /\ \A t \in Parts :
       /\ t = [root |-> t.root, prems |-> t.prems, dis |-> t.dis, holes |-> t.holes]
       /\ t.prems \in Seq(Parts) /\ t.dis \in Seq(Questions \X Parts) /\ t.holes \subseteq Questions
       /\ AnsweredOnce(t)
  /\ \A s \in Sources :
       /\ s = [rows |-> s.rows, leaves |-> s.leaves, metas |-> s.metas,
               attacks |-> s.attacks, groups |-> s.groups]
       /\ s.rows \in Seq([name : {s.rows[i].name : i \in DOMAIN s.rows}, term : Parts])
       /\ IsInjective([i \in DOMAIN s.rows |-> s.rows[i].name])
       /\ s.leaves \in Seq(Range(s.leaves)) /\ IsInjective(s.leaves) /\ s.metas = s.leaves
       /\ s.attacks \in Seq(Range(s.attacks))
       /\ \A k \in DOMAIN s.attacks :
            /\ {s.attacks[k].src, s.attacks[k].tgt} \subseteq {s.rows[i].name : i \in DOMAIN s.rows}
            /\ s.attacks[k].pos \in Seq(Step)
  /\ \A e \in Edits :
       \/ e.kind = "leaf"
       \/ e.kind = "attack" /\ e.attack.pos \in Seq(Step)
       \/ e.kind = "instance" /\ e.term \in Parts
       \/ e.kind = "discharge" /\ e.term \in Parts /\ e.pos \in Positions /\ e.question \in Questions
  /\ Positions \subseteq Seq(Step)
  /\ \A pos \in Positions : \A n \in 0 .. Len(pos) : SubSeq(pos, 1, n) \in Positions

-----------------------------------------------------------------------------
(* Terms and positions. *)

\* First-match lookup of a discharge.
LookupDis(dis, q) ==
  LET i == SelectInSeq(dis, LAMBDA d : d[1] = q) IN IF i = 0 THEN OffRange ELSE dis[i][2]

Child(t, s) ==
  IF s[1] = "question" THEN LookupDis(t.dis, s[2])
  ELSE IF s[2] \in DOMAIN t.prems THEN t.prems[s[2]] ELSE OffRange

Subterm(t, pos) ==
  FoldLeft(LAMBDA u, s : IF u = OffRange THEN OffRange ELSE Child(u, s), t, pos)

OpenAt(t, pos, q) ==
  LET u == Subterm(t, pos) IN u # OffRange /\ q \in u.holes

\* setAt and replaceDis: put u at step s of t.
WithChild(t, s, u) ==
  IF s[1] = "premise" THEN [t EXCEPT !.prems[s[2]] = u]
  ELSE [t EXCEPT !.dis[SelectInSeq(t.dis, LAMBDA d : d[1] = s[2])] = <<s[2], u>>]

\* The occurrence itself: the question leaves the open set and its discharge
\* goes to the end of the map.
AnswerAllOpen(t, q, ans)   == [t EXCEPT !.dis = Append(@, <<q, ans>>), !.holes = {}]
Answer(t, q, ans)          == [t EXCEPT !.dis = Append(@, <<q, ans>>), !.holes = @ \ {q}]

\* dischargeAt, from the occurrence outwards; for an open site only.
DischargeAt(t, pos, q, ans) ==
  LET outer[n \in 0..Len(pos)] ==
        LET prefix == SubSeq(pos, 1, n)
        IN IF n = Len(pos) THEN Answer(Subterm(t, pos), q, ans)
           ELSE WithChild(Subterm(t, prefix), pos[n + 1], outer[n + 1])
  IN outer[0]

\* Every row of that name, each keeping its name and its place.
DischargeRows(rows, e) ==
  [i \in DOMAIN rows |->
     IF rows[i].name = e.name /\ OpenAt(rows[i].term, e.pos, e.question)
     THEN [rows[i] EXCEPT !.term = DischargeAt(@, e.pos, e.question, e.term)]
     ELSE rows[i]]

-----------------------------------------------------------------------------
(* Side conditions. *)

Row(s, name) == SelectInSeq(s.rows, LAMBDA r : r.name = name)

\* Absent from the leaves, from their metadata and from every group.
LeafFresh(s, id) ==
  /\ \A i \in DOMAIN s.leaves : s.leaves[i] # id
  /\ \A i \in DOMAIN s.metas : s.metas[i] # id
  /\ \A members \in s.groups : id \notin members

InstanceFresh(s, name, term) ==
  \A i \in DOMAIN s.rows : s.rows[i].name # name /\ s.rows[i].term # term

EndpointDeclared(s, a) == Row(s, a.src) # 0 /\ Row(s, a.tgt) # 0

DischargeOpen(s, name, pos, q) ==
  Row(s, name) # 0 /\ OpenAt(s.rows[Row(s, name)].term, pos, q)

\* updatePrecondition for the single updates that are also batch edits.
Precondition(s, e) ==
  CASE e.kind = "leaf"      -> LeafFresh(s, e.id)
    [] e.kind = "attack"    -> EndpointDeclared(s, e.attack)
    [] e.kind = "instance"  -> InstanceFresh(s, e.name, e.term)
    [] e.kind = "discharge" -> DischargeOpen(s, e.name, e.pos, e.question)

-----------------------------------------------------------------------------
(* Edits. *)

\* applyRawEdit, where its side condition holds.
RawEditKeepsMeta(s, e) ==
  CASE e.kind = "leaf"      -> [s EXCEPT !.metas = Append(@, e.meta), !.leaves = Append(@, e.id)]
    [] e.kind = "attack"    -> [s EXCEPT !.attacks = Append(@, e.attack)]
    [] e.kind = "instance"  -> [s EXCEPT !.rows = Append(@, [name |-> e.name, term |-> e.term])]
    [] e.kind = "discharge" -> [s EXCEPT !.rows = DischargeRows(@, e)]
RawEdit(s, e) ==
  CASE e.kind = "leaf"      -> [s EXCEPT !.metas = Append(@, e.id), !.leaves = Append(@, e.id)]
    [] e.kind = "attack"    -> [s EXCEPT !.attacks = Append(@, e.attack)]
    [] e.kind = "instance"  -> [s EXCEPT !.rows = Append(@, [name |-> e.name, term |-> e.term])]
    [] e.kind = "discharge" -> [s EXCEPT !.rows = DischargeRows(@, e)]

\* The state an edit's side condition is asked of.
CheckedAtStart == source
CheckedAgainst == work

\* What a rejected batch leaves of its edits.
KeptOnRejection     == source

Answered(verdict, at) == [verdict |-> verdict, at |-> at]

UpdateInit ==
  /\ source \in Sources
  /\ work = source
  /\ batch = <<>>
  /\ taken = 0
  /\ answer = Answered("none", 0)

\* go: the next edit of the batch, against the state the earlier edits produced.
Edit ==
  /\ taken < MaxBatches
  /\ Len(batch) < MaxEdits
  /\ \E e \in Edits :
       /\ Precondition(CheckedAgainst, e)
       /\ work' = RawEdit(work, e)
       /\ batch' = Append(batch, e)
  /\ answer' = Answered("none", 0)
  /\ UNCHANGED <<source, taken>>

\* The first edit that fails rejects the batch with its position.
Reject ==
  /\ taken < MaxBatches
  /\ Len(batch) < MaxEdits
  /\ \E e \in Edits : ~ Precondition(CheckedAgainst, e)
  /\ work' = KeptOnRejection
  /\ answer' = Answered("BatchEdit", Len(batch))
  /\ batch' = <<>>
  /\ UNCHANGED <<source, taken>>

\* No edit is left: the caller gets the final state.
Accept ==
  /\ batch # <<>>
  /\ source' = work
  /\ taken' = taken + 1
  /\ answer' = Answered("ok", 0)
  /\ batch' = <<>>
  /\ UNCHANGED work

UpdateNext == Edit \/ Reject \/ Accept

UpdateSpec == UpdateInit /\ [][UpdateNext]_updateVars

-----------------------------------------------------------------------------
(* Properties. *)

\* Whatever batches are applied, no leaf or argument is declared twice, the
\* metadata rows name the leaf rows one to one and in order, and a question of
\* an occurrence is open or answered once, never both: no answer is shadowed in
\* a first-match lookup.
IdentitiesHold ==
  \A s \in {source, work} :
    /\ s.metas = s.leaves
    /\ IsInjective(s.leaves)
    /\ IsInjective([i \in DOMAIN s.rows |-> s.rows[i].name])
    /\ \A i \in DOMAIN s.rows, pos \in Positions :
         LET u == Subterm(s.rows[i].term, pos) IN u # OffRange => AnsweredOnce(u)

\* The occurrence attack k of s addresses.
Names(s) == {s.rows[i].name : i \in DOMAIN s.rows}
Addressed(s, k) ==
  LET a == s.attacks[k]
  IN IF a.tgt \in Names(s) THEN Subterm(s.rows[Row(s, a.tgt)].term, a.pos) ELSE OffRange

\* The positions of t that u has something else at, or nothing.
ChangedAt(t, u) == {pos \in Positions : Subterm(t, pos) # OffRange /\ Subterm(u, pos) # Subterm(t, pos)}

\* Attacks name declared arguments, and the occurrence one addressed when it
\* first addressed one is still there, with the root it had.
Aimed ==
  /\ \A k \in DOMAIN work'.attacks : {work'.attacks[k].src, work'.attacks[k].tgt} \subseteq Names(work')
  /\ answer'.verdict # "BatchEdit" =>
       \A k \in DOMAIN work.attacks :
         /\ work'.attacks[k] = work.attacks[k]
         /\ LET old == Addressed(work, k)  new == Addressed(work', k)
            IN old # OffRange => new # OffRange /\ new.root = old.root

\* At one occurrence of t one open question became the last discharge.
AnsweredAt(t, u, site) ==
  LET old == Subterm(t, site)  new == Subterm(u, site)
  IN \E q \in old.holes :
       /\ new.holes = old.holes \ {q}
       /\ Front(new.dis) = old.dis /\ Last(new.dis)[1] = q
       /\ new.prems = old.prems

\* One edit changes at most one argument, and only along the path from its
\* root to one occurrence: everything off the path is the identical subterm,
\* and no discharge moves an attack to another occurrence.
EditsAreLocal ==
  [][/\ Aimed
     /\ answer'.verdict = "none" =>
          LET changed == {i \in DOMAIN work.rows : work'.rows[i] # work.rows[i]}
          IN /\ \A i, j \in changed : i = j
             /\ \A i \in changed :
                  LET t == work.rows[i].term  u == work'.rows[i].term
                  IN \E site \in ChangedAt(t, u) :
                       /\ ChangedAt(t, u) = {SubSeq(site, 1, n) : n \in 0..Len(site)}
                       /\ AnsweredAt(t, u, site)]_updateVars

\* What a batch would do is what its edits do one update at a time: accepted
\* together exactly when each is accepted after the ones before it.
OneAtATime ==
  LET after[n \in 0..Len(batch)] ==
        IF n = 0 THEN <<source, TRUE>>
        ELSE LET s == after[n - 1]
             IN <<RawEdit(s[1], batch[n]), s[2] /\ Precondition(s[1], batch[n])>>
  IN after[Len(batch)] = <<work, TRUE>>

\* Whatever step comes next, the batch so far is its edits one after the other;
\* and no step adds a declared member to a group of duplicate reports: what a
\* batch declares is never in a group an earlier state already had.
BatchesCompose ==
  [][/\ OneAtATime
     /\ \A members \in source.groups :
          members \cap Range(source'.leaves) = members \cap Range(source.leaves)]_updateVars
=============================================================================
