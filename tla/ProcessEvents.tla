---------------------------- MODULE ProcessEvents ----------------------------
(***************************************************************************)
(* The events of a research process, the transition each one makes and the *)
(* questions asked of a history (Lara.Process.Types, Lara.Process.History).*)
(* A history is a sequence of stamped events.  A plan with its version is  *)
(* one value here; claims, witnesses and outcomes are left out.            *)
(***************************************************************************)
EXTENDS Integers, Sequences

CONSTANTS Id, Actor, Plan, Run, Data, Family, Source

Version == Nat  \* 0 is the version of a dataset nobody updated

Event ==
       [id : Id, kind : {"commit"}, actor : Actor, plan : Plan]
  \cup [id : Id, kind : {"access"}, actor : Actor, data : Data, purpose : {"selection", "evaluation"}]
  \cup [id : Id, kind : {"run"}, run : Run, plan : Plan, inputs : SUBSET (Data \X Version), family : Family]
  \cup [id : Id, kind : {"result"}, run : Run]
  \cup [id : Id, kind : {"assert"}]
  \cup [id : Id, kind : {"retract"}, source : Source]
  \cup [id : Id, kind : {"update"}, data : Data, version : Version]

-----------------------------------------------------------------------------
(* The process state and its step. *)

InitialState ==
  [committed |-> {}, runs |-> {}, used |-> {}, version |-> [d \in Data |-> 0], retracted |-> {}]

\* step's guards.  The last line is every event without a guard of its own.
AllowedStaleRun(s, e) ==
  /\ e.id \notin s.used
  /\ e.kind = "run" => e.run \notin s.runs /\ e.plan \in s.committed
  /\ e.kind = "result" => e.run \in s.runs
  /\ e.kind = "retract" => e.source \notin s.retracted
Allowed(s, e) ==
  /\ e.id \notin s.used
  /\ e.kind = "run" => /\ e.run \notin s.runs /\ e.plan \in s.committed
                       /\ \A input \in e.inputs : s.version[input[1]] = input[2]
  /\ e.kind = "result" => e.run \in s.runs
  /\ e.kind = "retract" => e.source \notin s.retracted

\* step's result.
After(s, e) ==
  [committed |-> IF e.kind = "commit" THEN s.committed \cup {e.plan} ELSE s.committed,
   runs      |-> IF e.kind = "run" THEN s.runs \cup {e.run} ELSE s.runs,
   used      |-> s.used \cup {e.id},
   version   |-> IF e.kind = "update" THEN [s.version EXCEPT ![e.data] = e.version] ELSE s.version,
   retracted |-> IF e.kind = "retract" THEN s.retracted \cup {e.source} ELSE s.retracted]

-----------------------------------------------------------------------------
(* Order questions (the atoms of a query). *)

InputData(e) == {input[1] : input \in e.inputs}

Evaluates(e, data) == e.kind = "access" /\ e.purpose = "evaluation" /\ e.data \in data

PlanCommittedBeforeSome(h, plan, data) ==
  \E i \in DOMAIN h :
    /\ h[i].kind = "commit" /\ h[i].plan = plan
    /\ \/ \A j \in DOMAIN h : ~ Evaluates(h[j], data)
       \/ \E j \in DOMAIN h : Evaluates(h[j], data) /\ i < j
PlanCommittedBefore(h, plan, data) ==
  \E i \in DOMAIN h :
    /\ h[i].kind = "commit" /\ h[i].plan = plan
    /\ \A j \in DOMAIN h : Evaluates(h[j], data) => i < j

\* Every run of that name was fixed before its data was read.
RunPrecommitted(h, run) ==
  \A i \in DOMAIN h :
    h[i].kind = "run" /\ h[i].run = run => PlanCommittedBefore(h, h[i].plan, InputData(h[i]))

Predictable(h) ==
  \A i \in DOMAIN h : h[i].kind = "run" => PlanCommittedBefore(h, h[i].plan, InputData(h[i]))

SplitSelection(h, selection, test) ==
  /\ selection \cap test = {}
  /\ \A i \in DOMAIN h : h[i].kind = "access" =>
       h[i].data \in IF h[i].purpose = "selection" THEN selection ELSE test

FamilyRuns(h, family) == {i \in DOMAIN h : h[i].kind = "run" /\ h[i].family = family}
=============================================================================
