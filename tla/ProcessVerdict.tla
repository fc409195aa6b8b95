---------------------------- MODULE ProcessVerdict ----------------------------
(***************************************************************************)
(* A research process and the questions asked of its record: events happen *)
(* (ProcessHistory) until a problem is submitted, whose record may leave   *)
(* events and orders out; the family of histories it admits is enumerated  *)
(* (FamilyEnumeration) and a query is answered over its completions        *)
(* (answer, Lara.Process.History).  The process has ended by then: what    *)
(* happens later is no completion of the past.                             *)
(***************************************************************************)
EXTENDS ProcessHistory, ProcessRecords

CONSTANTS Problems, Slots, Limits, HardLimits, Queries

ASSUME EnumerationAssumption ==
  /\ \A p \in Problems :
       /\ p.pool \in Seq(Event)
       /\ Occurs(p.pool) = p.record.events \cup p.unrecorded
       /\ Len(p.pool) = Cardinality(Occurs(p.pool))
  /\ \A asked \in Slots :
       /\ asked \in Seq(Occurs(asked))
       /\ \A n \in DOMAIN asked : asked[n] \in Seq(Occurs(asked[n])) /\ asked[n] # << >>
  /\ Limits \cup {HardLimits} \subseteq [histories : Nat, steps : Nat, products : Nat]

VARIABLES problem, slots, cap, frames, visited, found, result

E == INSTANCE FamilyEnumeration

search == <<problem, slots, cap, frames, visited, found, result>>

Start ==
  /\ Init
  /\ problem = "none" /\ slots = << >> /\ cap = "none"
  /\ frames = << >> /\ visited = 0 /\ found = << >>
  /\ result = [kind |-> "unasked"]

Happens ==
  /\ result.kind = "unasked"
  /\ Next
  /\ UNCHANGED search

\* sourceRel, the trust boundary: the record's events happened, in its order and
\* under its coverage, and nothing happened that the problem does not list.
Faithful(p) == Compatible(p.record, history) /\ Occurs(history) \subseteq Occurs(p.pool)

\* Records that are not faithful are submitted too, before anything happened:
\* the search does not read the history.
Submit ==
  /\ result.kind = "unasked"
  /\ \E p \in Problems, asked \in Slots, limits \in Limits :
       /\ history = << >> \/ Faithful(p)
       /\ problem' = p /\ slots' = asked /\ cap' = E!Clamped(limits)
       /\ frames' = <<E!Frame(<< >>, InitialState, p.pool)>>
       /\ visited' = 1
       /\ found' = E!Emit(p, << >>)
       /\ result' = [kind |-> "searching"]
  /\ UNCHANGED vars

Search == result.kind = "searching" /\ E!Next /\ UNCHANGED vars

Inquire == Happens \/ Submit \/ Search

InquirySpec == Start /\ [][Inquire]_<<vars, search>>

-----------------------------------------------------------------------------
(* The answer to a query: its verdict over every completion. *)

ListVerdict(histories, query) ==
  CASE histories = {} -> "inconsistent"
    [] histories # {} /\ (\A h \in histories : GuardHolds(query, h)) -> "certainTrue"
    [] histories # {} /\ (\A h \in histories : ~ GuardHolds(query, h)) -> "certainFalse"
    [] OTHER -> "unknown"

-----------------------------------------------------------------------------
(* Properties. *)

\* A certain verdict over a faithful record is true of what really happened,
\* whatever the record leaves out and in whatever order it lists the rest; and a
\* family that is enumerated within its limits contains the real history.
CertainIsTrue ==
  result.kind \notin {"unasked", "searching"} /\ Faithful(problem) =>
    LET completions == Completions(problem)
    IN /\ \A q \in Queries :
            LET verdict == ListVerdict(completions, q)
            IN /\ verdict # "inconsistent"
               /\ verdict = "certainTrue" => GuardHolds(q, history)
               /\ verdict = "certainFalse" => ~ GuardHolds(q, history)
       /\ result.kind = "enumerated" => history \in Occurs(found)

\* What the parts promise of the search.
SearchIsExact    == result.kind # "unasked" => E!SearchIsExact
PreflightIsExact == result.kind # "unasked" => E!PreflightIsExact
=============================================================================
