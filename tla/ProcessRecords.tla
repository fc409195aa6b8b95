--------------------------- MODULE ProcessRecords ----------------------------
(***************************************************************************)
(* What a record admits (Lara.Process.History): the histories compatible   *)
(* with its events, its order, its cutoff and its coverage, the guards     *)
(* asked of one history (Lara.Process.Family) and the reference carrier of *)
(* completions.  A Maybe is a set of at most one element.                  *)
(***************************************************************************)
EXTENDS ProcessEvents, FiniteSets

AtMost(n, m) == IF n < m THEN n ELSE m

-----------------------------------------------------------------------------
(* Validity and order. *)

StateAfter(h) ==
  LET after[n \in 0 .. Len(h)] == IF n = 0 THEN InitialState ELSE After(after[n - 1], h[n])
  IN  after

Valid(h) == LET s == StateAfter(h) IN \A n \in DOMAIN h : Allowed(s[n - 1], h[n])

\* The first position of an identity, none when it does not occur.
Position(h, id) ==
  {n \in DOMAIN h : h[n].id = id /\ \A m \in 1 .. (n - 1) : h[m].id # id}

Precedes(h, first, second) == \E n \in Position(h, first), m \in Position(h, second) : n < m

Occurs(h) == {h[n] : n \in DOMAIN h}

OrderCompatible(record, h) ==
  /\ Len(h) <= record.cutoff /\ Valid(h)
  /\ record.events \subseteq Occurs(h)
  /\ \A pair \in record.before : Precedes(h, pair[1], pair[2])

-----------------------------------------------------------------------------
(* Coverage. *)

EventActor(e) == IF e.kind \in {"commit", "access"} THEN {e.actor} ELSE {}

EventData(e) ==
  CASE e.kind \in {"access", "update"} -> {e.data}
    [] e.kind = "run" -> InputData(e)
    [] OTHER -> {}

EventFamily(e) == IF e.kind = "run" THEN {e.family} ELSE {}

\* n counts from 1 here and from 0 in the code.
ScopeContains(scope, n, e) ==
  /\ n - 1 < scope.cutoff /\ e.kind \in scope.kinds
  /\ scope.family # {} => EventFamily(e) = scope.family
  /\ \A actors \in scope.actors : EventActor(e) # {} /\ EventActor(e) \subseteq actors
  /\ \A data \in scope.data : EventData(e) # {} /\ EventData(e) \subseteq data

ScopeIndices(scope, h) == {n \in DOMAIN h : ScopeContains(scope, n, h[n])}

CoverageAllowed(coverage, h, reported) ==
  CASE coverage.kind = "complete" -> {h[n] : n \in ScopeIndices(coverage.scope, h)} \subseteq reported
    [] coverage.kind = "bounded" -> Cardinality(ScopeIndices(coverage.scope, h)) <= coverage.bound
    [] OTHER -> TRUE

Compatible(record, h) ==
  /\ Len(h) = Cardinality(Occurs(h))
  /\ OrderCompatible(record, h)
  /\ \A coverage \in record.coverage : CoverageAllowed(coverage, h, record.events)

-----------------------------------------------------------------------------
(* The reference carrier: every order of the recorded events with any of the others. *)

Orders(events) ==
  {h \in [1 .. Cardinality(events) -> events] : Occurs(h) = events}

CompletionsOfReported(problem) ==
  {h \in Orders(problem.record.events) : Compatible(problem.record, h)}
Completions(problem) ==
  {h \in UNION {Orders(problem.record.events \cup extra) : extra \in SUBSET problem.unrecorded} :
     Compatible(problem.record, h)}

-----------------------------------------------------------------------------
(* Guards. *)

GuardHolds(guard, h) ==
  CASE guard.kind = "precommitted" -> RunPrecommitted(h, guard.run)
    [] guard.kind = "predictable" -> Predictable(h)
    [] guard.kind = "split" -> SplitSelection(h, guard.selection, guard.test)
    [] guard.kind = "count" -> Cardinality(FamilyRuns(h, guard.family)) <= guard.bound
    [] guard.kind = "present" -> guard.event \in Occurs(h)
    [] guard.kind = "absent" -> guard.event \notin Occurs(h)
    [] guard.kind = "before" ->
         \E n \in DOMAIN h : h[n] = guard.first /\ \E m \in (n + 1) .. Len(h) : h[m] = guard.second
    [] OTHER -> TRUE
=============================================================================
