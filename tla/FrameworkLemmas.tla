--------------------------- MODULE FrameworkLemmas ---------------------------
(***************************************************************************)
(* Lemmas about the characteristic operator of Frameworks, the facts the   *)
(* proofs about the grounded iteration and the quarantine rest on.         *)
(***************************************************************************)
EXTENDS Frameworks, Integers, FiniteSetTheorems, WellFoundedInduction, TLAPS

\* Defence only grows with the defending set.
LEMMA DefendedMonotone ==
  ASSUME NEW args, NEW att, NEW S, NEW T, S \subseteq T,
         NEW a, Defended(args, att, S, a)
  PROVE  Defended(args, att, T, a)
BY DEF Defended

\* The characteristic operator is monotone.
LEMMA CharStepMonotone ==
  ASSUME NEW args, NEW att, NEW S, NEW T, S \subseteq T
  PROVE  CharStep(args, att, S) \subseteq CharStep(args, att, T)
BY DefendedMonotone DEF CharStep

\* The empty set, where the iteration starts, is admissible.
LEMMA EmptyAdmissible ==
  ASSUME NEW args, NEW att
  PROVE  Admissible(args, att, {})
BY DEF Admissible, ConflictFree

\* An admissible set only gains arguments in a round.
LEMMA AdmissibleAscends ==
  ASSUME NEW args, NEW att, NEW S, Admissible(args, att, S)
  PROVE  S \subseteq CharStep(args, att, S)
BY DEF Admissible, CharStep

\* A round from an admissible set reaches an admissible set: two of its
\* members cannot attack each other, because the defence of each against the
\* other would put two conflicting arguments into S.
LEMMA CharStepAdmissible ==
  ASSUME NEW args, NEW att, NEW S, Admissible(args, att, S)
  PROVE  Admissible(args, att, CharStep(args, att, S))
<1> DEFINE N == CharStep(args, att, S)
<1>1. N \subseteq args
  BY DEF CharStep
<1>2. ConflictFree(att, N)
  <2> SUFFICES ASSUME NEW a \in N, NEW b \in N, <<a, b>> \in att
               PROVE  FALSE
    BY DEF ConflictFree
  <2>1. PICK c \in S : <<c, a>> \in att
    BY <1>1 DEF CharStep, Defended
  <2>2. c \in args
    BY DEF Admissible
  <2>3. PICK d \in S : <<d, c>> \in att
    BY <2>1, <2>2 DEF CharStep, Defended
  <2> QED
    BY <2>3 DEF Admissible, ConflictFree
<1>3. \A a \in N : Defended(args, att, N, a)
  <2>1. S \subseteq N
    BY AdmissibleAscends
  <2> QED
    BY <2>1, DefendedMonotone DEF CharStep
<1> QED
  BY <1>1, <1>2, <1>3 DEF Admissible

\* A round from inside a complete extension stays inside it.
LEMMA CharStepWithinComplete ==
  ASSUME NEW args, NEW att, NEW S, NEW E, Complete(args, att, E), S \subseteq E
  PROVE  CharStep(args, att, S) \subseteq E
BY DefendedMonotone DEF CharStep, Complete

\* An admissible fixed point of the operator is a complete extension.
LEMMA FixedPointComplete ==
  ASSUME NEW args, NEW att, NEW S,
         Admissible(args, att, S), CharStep(args, att, S) = S
  PROVE  Complete(args, att, S)
BY DEF Complete, CharStep

-----------------------------------------------------------------------------
(* The bounded iteration. *)

\* A round either leaves a fixed point alone or adds an argument.
LEMMA RoundProgress ==
  ASSUME NEW args, IsFiniteSet(args), NEW att, NEW S \in SUBSET args, NEW k \in Nat,
         Admissible(args, att, S),
         S = CharStep(args, att, S) \/ Cardinality(S) >= k
  PROVE  LET N == CharStep(args, att, S)
         IN N = CharStep(args, att, N) \/ Cardinality(N) >= k + 1
<1> DEFINE N == CharStep(args, att, S)
<1>1. CASE S = N
  BY <1>1
<1>2. CASE S # N
  <2>1. S \subseteq N /\ N \in SUBSET args
    BY AdmissibleAscends DEF CharStep
  <2>2. IsFiniteSet(N) /\ Cardinality(N) \in Nat /\ Cardinality(S) \in Nat
    BY <2>1, FS_Subset, FS_CardinalityType
  <2>3. Cardinality(S) <= Cardinality(N) /\ Cardinality(S) # Cardinality(N)
    BY <1>2, <2>1, <2>2, FS_Subset
  <2> QED
    BY <1>2, <2>2, <2>3
<1> QED
  BY <1>1, <1>2

\* |args| rounds are enough: a set as large as the carrier is the carrier.
LEMMA BoundSuffices ==
  ASSUME NEW args, IsFiniteSet(args), NEW att, NEW S \in SUBSET args,
         Admissible(args, att, S),
         S = CharStep(args, att, S) \/ Cardinality(S) >= Cardinality(args)
  PROVE  CharStep(args, att, S) = S
<1>1. CASE Cardinality(S) >= Cardinality(args)
  <2>1. S = args
    BY <1>1, FS_Subset, FS_CardinalityType
  <2> QED
    BY <2>1, AdmissibleAscends DEF CharStep
<1> QED
  BY <1>1

-----------------------------------------------------------------------------
(* The least complete extension as a least fixed point. *)

\* A nonempty set of naturals has a least element.
LEMMA LeastNatural ==
  ASSUME NEW T, T \subseteq Nat, T # {}
  PROVE  \E x \in T : \A y \in T : x <= y
<1>1. \E x \in T : \A y \in T : <<y, x>> \notin OpToRel(<, Nat)
  BY NatLessThanWellFounded, WFMin
<1>2. \E x \in T : \A y \in T : x <= y
  <2>1. PICK x \in T : \A y \in T : <<y, x>> \notin OpToRel(<, Nat)
    BY <1>1
  <2>2. \A y \in T : ~ (y < x)
    BY <2>1 DEF OpToRel
  <2> QED BY <2>2
<1> QED BY <1>2

\* A least complete extension lies in every set the operator does not leave:
\* the intersection of those sets is itself a complete extension.
LEMMA LeastCompleteWithin ==
  ASSUME NEW args, NEW att, NEW E, LeastComplete(args, att, E),
         NEW P \in SUBSET args, CharStep(args, att, P) \subseteq P
  PROVE  E \subseteq P
<1> DEFINE F(S) == CharStep(args, att, S)
           Closed == {S \in SUBSET args : F(S) \subseteq S}
           G == {a \in args : \A S \in Closed : a \in S}
<1>1. \A S \in Closed : F(G) \subseteq S
  <2> SUFFICES ASSUME NEW S \in Closed PROVE F(G) \subseteq S
    OBVIOUS
  <2>1. F(G) \subseteq F(S)
    BY CharStepMonotone
  <2> QED
    BY <2>1
<1>2. F(G) \subseteq G
  BY <1>1 DEF CharStep
<1>3. F(G) \in Closed
  BY <1>2, CharStepMonotone DEF CharStep
<1>4. F(G) = G
  BY <1>2, <1>3
<1>5. Complete(args, att, E) /\ E \in Closed
  BY DEF LeastComplete, Complete, CharStep, Admissible
<1>6. Complete(args, att, G)
  <2>1. G \subseteq E /\ ConflictFree(att, E)
    BY <1>5 DEF Complete, Admissible
  <2>2. \A a \in args : a \in G <=> Defended(args, att, G, a)
    BY <1>4 DEF CharStep
  <2> QED
    BY <2>1, <2>2 DEF Complete, Admissible, ConflictFree
<1>7. E \subseteq G
  BY <1>6 DEF LeastComplete, Candidates
<1> QED
  BY <1>7

\* Every framework has one: the intersection of the sets a round stays inside.
\* No member of it attacks another, since a round stays inside those of its
\* members that none of it attacks.
LEMMA LeastCompleteExists ==
  ASSUME NEW args, NEW att
  PROVE  \E S : S \in SUBSET args /\ LeastComplete(args, att, S)
<1> DEFINE F(S) == CharStep(args, att, S)
           Closed == {S \in SUBSET args : F(S) \subseteq S}
           G == {a \in args : \A S \in Closed : a \in S}
<1>1. \A S : F(S) \subseteq args
  BY DEF CharStep
<1>2. F(G) \subseteq G
  <2>1. \A S \in Closed : F(G) \subseteq F(S)
    BY CharStepMonotone
  <2> QED
    BY <1>1, <2>1
<1>3. G \subseteq F(G)
  <2>1. F(F(G)) \subseteq F(G)
    BY <1>2, CharStepMonotone
  <2>2. F(G) \in Closed
    BY <1>1, <2>1
  <2> QED
    BY <2>2
<1> HIDE DEF G
<1>4. \A a \in args : a \in G <=> Defended(args, att, G, a)
  BY <1>2, <1>3 DEF CharStep, G
<1>5. ConflictFree(att, G)
  <2> DEFINE Free == {x \in G : \A y \in G : <<y, x>> \notin att}
  <2>1. ASSUME NEW x \in F(Free), NEW y \in G, <<y, x>> \in att PROVE FALSE
    <3>1. y \in args /\ Defended(args, att, Free, x)
      BY DEF CharStep, G
    <3>2. PICK z \in Free : <<z, y>> \in att
      BY <2>1, <3>1 DEF Defended
    <3>3. z \in args /\ Defended(args, att, G, y)
      BY <1>4, <3>1 DEF G
    <3>4. PICK w \in G : <<w, z>> \in att
      BY <3>2, <3>3 DEF Defended
    <3> QED
      BY <3>2, <3>4
  <2>2. F(Free) \subseteq G
    BY <1>2, CharStepMonotone
  <2>3. Free \in Closed
    <3>1. F(Free) \subseteq Free
      <4> HIDE DEF F
      <4> QED
        BY <2>1, <2>2
    <3> QED
      BY <3>1 DEF G
  <2>4. G \subseteq Free
    BY <2>3 DEF G
  <2> QED
    BY <2>4 DEF ConflictFree
<1>6. Complete(args, att, G)
  BY <1>4, <1>5 DEF Complete, Admissible, G
<1>7. ASSUME NEW T, Complete(args, att, T) PROVE G \subseteq T
  <2>1. T \in SUBSET args /\ F(T) \subseteq T
    BY <1>7 DEF Complete, Admissible, CharStep
  <2> QED
    BY <2>1 DEF G
<1> QED
  BY <1>6, <1>7 DEF LeastComplete, Complete, Admissible

-----------------------------------------------------------------------------
(* A part of a framework that only its own arguments attack. *)

\* Some function embeds the framework <<part, patt>> in <<args, att>>, attacks and all,
\* and nothing else attacks its image.
Embeds(f, part, patt, args, att) ==
  /\ f \in [part -> args]
  /\ \A a, b \in part : f[a] = f[b] => a = b
  /\ \A a, b \in part : <<a, b>> \in patt <=> <<f[a], f[b]>> \in att
  /\ \A x \in args, b \in part : <<x, f[b]>> \in att => \E a \in part : x = f[a]

\* Such a part has the labels it has alone.
LEMMA PartKeepsItsLabels ==
  ASSUME NEW f, NEW part, NEW patt, NEW args, NEW att, Embeds(f, part, patt, args, att),
         NEW G, LeastComplete(args, att, G), NEW P, LeastComplete(part, patt, P), NEW a \in part
  PROVE  /\ a \in P <=> f[a] \in G
         /\ LabelWith(part, patt, P, a) = LabelWith(args, att, G, f[a])
<1>1. P \subseteq part /\ G \subseteq args
  BY DEF LeastComplete, Complete, Admissible
<1> DEFINE back == {b \in part : f[b] \in G}
           forth == {x \in args : \A b \in part : f[b] = x => b \in P}
<1>2. CharStep(part, patt, back) \subseteq back
  <2> SUFFICES ASSUME NEW b \in CharStep(part, patt, back) PROVE f[b] \in G
    BY DEF CharStep
  <2>1. b \in part /\ Defended(part, patt, back, b) /\ f[b] \in args
    BY DEF CharStep, Embeds
  <2>2. ASSUME NEW x \in args, <<x, f[b]>> \in att PROVE \E c \in G : <<c, x>> \in att
    <3>1. PICK d \in part : x = f[d]
      BY <2>1, <2>2 DEF Embeds
    <3>2. <<d, b>> \in patt
      BY <2>1, <2>2, <3>1 DEF Embeds
    <3>3. PICK c \in back : <<c, d>> \in patt
      BY <2>1, <3>2 DEF Defended
    <3>4. <<f[c], f[d]>> \in att
      BY <3>3 DEF Embeds
    <3> QED
      BY <3>1, <3>3, <3>4
  <2>3. Defended(args, att, G, f[b])
    BY <2>2 DEF Defended
  <2> QED
    BY <2>1, <2>3 DEF LeastComplete, Complete
<1>3. CharStep(args, att, forth) \subseteq forth
  <2> SUFFICES ASSUME NEW x \in CharStep(args, att, forth), NEW b \in part, f[b] = x PROVE b \in P
    BY DEF CharStep
  <2>1. Defended(args, att, forth, f[b])
    BY DEF CharStep
  <2>2. ASSUME NEW d \in part, <<d, b>> \in patt PROVE \E c \in P : <<c, d>> \in patt
    <3>1. f[d] \in args /\ <<f[d], f[b]>> \in att
      BY <2>2 DEF Embeds
    <3>2. PICK y \in forth : <<y, f[d]>> \in att
      BY <2>1, <3>1 DEF Defended
    <3>3. PICK c \in part : y = f[c]
      BY <3>2 DEF Embeds
    <3>4. <<c, d>> \in patt
      BY <3>2, <3>3 DEF Embeds
    <3> QED
      BY <3>2, <3>3, <3>4
  <2>3. Defended(part, patt, P, b)
    BY <2>2 DEF Defended
  <2> QED
    BY <2>3 DEF LeastComplete, Complete
<1>4. P \subseteq back
  <2>1. back \in SUBSET part
    OBVIOUS
  <2> HIDE DEF back
  <2> QED
    BY <1>2, <2>1, LeastCompleteWithin
<1>5. G \subseteq forth
  <2>1. forth \in SUBSET args
    OBVIOUS
  <2> HIDE DEF forth
  <2> QED
    BY <1>3, <2>1, LeastCompleteWithin
<1>6. \A b \in part : b \in P <=> f[b] \in G
  BY <1>4, <1>5
<1>7. (\E c \in part \cap P : <<c, a>> \in patt) <=> (\E x \in args \cap G : <<x, f[a]>> \in att)
  <2>1. ASSUME NEW c \in part \cap P, <<c, a>> \in patt PROVE \E x \in args \cap G : <<x, f[a]>> \in att
    <3>1. f[c] \in args \cap G /\ <<f[c], f[a]>> \in att
      BY <1>6, <2>1 DEF Embeds
    <3> QED
      BY <3>1
  <2>2. ASSUME NEW x \in args \cap G, <<x, f[a]>> \in att PROVE \E c \in part \cap P : <<c, a>> \in patt
    <3>1. PICK c \in part : x = f[c]
      BY <2>2 DEF Embeds
    <3>2. c \in P /\ <<c, a>> \in patt
      BY <1>6, <2>2, <3>1 DEF Embeds
    <3> QED
      BY <3>2
  <2> QED
    BY <2>1, <2>2
<1> QED
  BY <1>6, <1>7 DEF LabelWith

\* A claim has the same status in both when its support is the image of its support.
LEMMA PartKeepsItsStatus ==
  ASSUME NEW f, NEW part, NEW patt, NEW args, NEW att, Embeds(f, part, patt, args, att),
         NEW G, LeastComplete(args, att, G), NEW P, LeastComplete(part, patt, P),
         NEW own \in SUBSET part, NEW support \in SUBSET args,
         \A x : x \in support <=> \E a \in own : x = f[a]
  PROVE  StatusWith([a \in args |-> LabelWith(args, att, G, a)], support) =
           StatusWith([a \in part |-> LabelWith(part, patt, P, a)], own)
<1> DEFINE high == [a \in args |-> LabelWith(args, att, G, a)]
           low == [a \in part |-> LabelWith(part, patt, P, a)]
<1>1. \A a \in own : f[a] \in support /\ high[f[a]] = low[a]
  <2> SUFFICES ASSUME NEW a \in own PROVE f[a] \in support /\ high[f[a]] = low[a]
    OBVIOUS
  <2>1. a \in part /\ f[a] \in support /\ f[a] \in args
    OBVIOUS
  <2>2. LabelWith(part, patt, P, a) = LabelWith(args, att, G, f[a])
    BY <2>1, PartKeepsItsLabels
  <2> QED
    BY <2>1, <2>2
<1> HIDE DEF high, low
<1>2. \A x \in support : \E a \in own : high[x] = low[a]
  BY <1>1
<1>3. (support = {}) <=> (own = {})
  BY <1>1, <1>2
<1>4. (\E x \in support : high[x] = "in") <=> (\E a \in own : low[a] = "in")
  BY <1>1, <1>2
<1>5. (\E x \in support : high[x] = "undec") <=> (\E a \in own : low[a] = "undec")
  BY <1>1, <1>2
<1>6. (\A x \in support : high[x] # "in") <=> (\A a \in own : low[a] # "in")
  BY <1>4
<1>7. StatusWith(high, support) = StatusWith(low, own)
  BY <1>3, <1>4, <1>5, <1>6 DEF StatusWith
<1> QED
  BY <1>7 DEF high, low
=============================================================================
