-------------------------- MODULE FamilyEnumeration --------------------------
(***************************************************************************)
(* The bounded enumeration of a family (Lara.Process.Enumerate): a depth   *)
(* first search over executable prefixes emits the compatible histories,   *)
(* then a preflight counts the guarded product before a row is built.      *)
(***************************************************************************)
EXTENDS ProcessRecords

CONSTANTS
  Problems,     \* [record, pool, unrecorded]; pool is a sequence, without repeats
  Slots,        \* sequences of slots, a slot a non-empty sequence of guards
  Limits,       \* [histories, steps, products]
  HardLimits    \* what no caller's limits exceed

VARIABLES
  problem, slots, cap,  \* what is enumerated, under which clamped limits
  frames,               \* one per event of the prefix and one for the root
  visited,              \* executable prefixes counted so far
  found,                \* compatible histories, in the order they were emitted
  result                \* "searching", a refusal, or the counts of the product

vars == <<problem, slots, cap, frames, visited, found, result>>

-----------------------------------------------------------------------------
(* The search. *)

Clamped(limits) ==
  [histories |-> AtMost(HardLimits.histories, limits.histories),
   steps     |-> AtMost(HardLimits.steps, limits.steps),
   products  |-> AtMost(HardLimits.products, limits.products)]

Emit(p, h) == IF Compatible(p.record, h) THEN <<h>> ELSE << >>

\* A frame: its prefix, the state after it, the events left and those not tried yet.
Frame(h, s, remaining) == [history |-> h, state |-> s, remaining |-> remaining, untried |-> remaining]

\* events has no repeats, so the occurrence is the first.
Without(events, e) ==
  LET n == CHOOSE n \in DOMAIN events : events[n] = e
  IN  [i \in 1 .. (Len(events) - 1) |-> events[IF i < n THEN i ELSE i + 1]]

Top == frames[Len(frames)]
Tried == [frames EXCEPT ![Len(frames)].untried = Tail(@)]

Init ==
  /\ problem \in Problems /\ slots \in Slots
  /\ \E limits \in Limits : cap = Clamped(limits)
  /\ frames = <<Frame(<< >>, InitialState, problem.pool)>>
  /\ visited = 1
  /\ found = Emit(problem, << >>)
  /\ result = [kind |-> "searching"]

MayExtendUnlessEmitted(frame, e) ==
  Allowed(frame.state, e) /\ ~ Compatible(problem.record, frame.history)
MayExtend(frame, e) == Allowed(frame.state, e)

Extend ==
  /\ Top.untried # << >> /\ MayExtend(Top, Head(Top.untried))
  /\ LET e == Head(Top.untried)
         h == Append(Top.history, e)
     IN  /\ frames' = Append(Tried, Frame(h, After(Top.state, e), Without(Top.remaining, e)))
         /\ found' = found \o Emit(problem, h)
  /\ visited' = visited + 1
  /\ UNCHANGED <<problem, slots, cap, result>>

Skip ==
  /\ Top.untried # << >> /\ ~ MayExtend(Top, Head(Top.untried))
  /\ frames' = Tried
  /\ UNCHANGED <<problem, slots, cap, visited, found, result>>

Backtrack ==
  /\ Len(frames) > 1 /\ Top.untried = << >>
  /\ frames' = SubSeq(frames, 1, Len(frames) - 1)
  /\ UNCHANGED <<problem, slots, cap, visited, found, result>>

-----------------------------------------------------------------------------
(* The product of the guarded choices, counted before any row is built. *)

Survivors(h, slot) == {c \in DOMAIN slot : GuardHolds(slot[c], h)}

\* <<products, saturated at limit + 1, and logical nodes>>
SlotCountsForward(limit, h) ==
  LET upTo[n \in 0 .. Len(slots)] ==
        IF n = 0 THEN <<1, 1>>
        ELSE LET before  == upTo[n - 1]
                 choices == Cardinality(Survivors(h, slots[n]))
             IN  IF before[1] > limit THEN before
                 ELSE <<before[1] * choices, before[2] + before[1] * choices>>
  IN  upTo[Len(slots)]
SlotCounts(limit, h) ==
  LET count[n \in 1 .. Len(slots) + 1] ==
        IF n > Len(slots) THEN <<1, 1>>
        ELSE LET choices == Cardinality(Survivors(h, slots[n]))
             IN  IF choices = 0 THEN <<0, 1>>
                 ELSE <<AtMost(limit + 1, choices * count[n + 1][1]), 1 + choices * count[n + 1][2]>>
  IN  count[1]

\* The counts over all histories; it stops at the first excess.
ProductPreflight(limit) ==
  LET upTo[n \in 0 .. Len(found)] ==
        IF n = 0 THEN [products |-> 0, extensions |-> 0]
        ELSE LET before == upTo[n - 1]
                 block  == SlotCounts(limit, found[n])
             IN  IF before.products > limit THEN before
                 ELSE [products   |-> AtMost(limit + 1, before.products + block[1]),
                       extensions |-> before.extensions + block[2] - 1]
  IN  upTo[Len(found)]

Outcome ==
  LET counts == ProductPreflight(cap.products)
  IN  IF visited > cap.steps THEN [kind |-> "steps", count |-> visited]
      ELSE IF Len(found) > cap.histories THEN [kind |-> "histories", count |-> Len(found)]
      ELSE IF counts.products > cap.products THEN [kind |-> "products", count |-> counts.products]
      ELSE [kind |-> "enumerated", products |-> counts.products, extensions |-> counts.extensions]

Enumerate ==
  /\ result.kind = "searching" /\ Len(frames) = 1 /\ Top.untried = << >>
  /\ result' = Outcome
  /\ UNCHANGED <<problem, slots, cap, frames, visited, found>>

Next == Extend \/ Skip \/ Backtrack \/ Enumerate

Spec == Init /\ [][Next]_vars

-----------------------------------------------------------------------------
(* Reference definitions. *)

Prefixes(p) ==
  {h \in UNION {Orders(events) : events \in SUBSET Occurs(p.pool)} : Valid(h)}

\* The partial selections of the first n slots at h.
Selections(h, n) ==
  {choose \in [1 .. n -> UNION {DOMAIN slots[m] : m \in 1 .. n}] :
     \A m \in 1 .. n : choose[m] \in Survivors(h, slots[m])}

Rows ==
  UNION {{<<h, choose>> : choose \in Selections(h, Len(slots))} : h \in Completions(problem)}

ProperPartial ==
  UNION {{<<h, choose>> : choose \in UNION {Selections(h, n) : n \in 1 .. Len(slots)}} : h \in Completions(problem)}

-----------------------------------------------------------------------------
(* Properties. *)

\* When the search is over it has emitted every completion of the reference
\* carrier once, and charged one step for every executable prefix, root and
\* leaves included: pruning at an event the transition refuses loses no history,
\* and a compatible prefix does not end the search below it.
SearchIsExact ==
  result.kind # "searching" =>
    /\ Occurs(found) = Completions(problem)
    /\ Len(found) = Cardinality(Occurs(found))
    /\ visited = Cardinality(Prefixes(problem))

\* A family is refused exactly when a limit is exceeded, for the first that is,
\* in the order steps, histories, rows a product would build, whatever slot is
\* empty and however large the slots before it; at a limit it is accepted.  The
\* refusal counts what exceeded the limit, rows up to one too many, and an
\* accepted family builds as many rows and charges as many extensions as were
\* counted.
PreflightIsExact ==
  LET tooLong == Cardinality(Prefixes(problem)) > cap.steps
      tooMany == Cardinality(Completions(problem)) > cap.histories
      tooWide == Cardinality(Rows) > cap.products
  IN  result.kind # "searching" =>
        /\ result.kind = "steps"      <=> tooLong
        /\ result.kind = "histories"  <=> ~ tooLong /\ tooMany
        /\ result.kind = "products"   <=> ~ tooLong /\ ~ tooMany /\ tooWide
        /\ result.kind = "enumerated" <=> ~ tooLong /\ ~ tooMany /\ ~ tooWide
        /\ result.kind = "steps"      => result.count = Cardinality(Prefixes(problem))
        /\ result.kind = "histories"  => result.count = Cardinality(Completions(problem))
        /\ result.kind = "products"   => result.count = cap.products + 1
        /\ result.kind = "enumerated" => /\ result.products = Cardinality(Rows)
                                         /\ result.extensions = Cardinality(ProperPartial)
=============================================================================
