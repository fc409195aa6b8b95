--------------------------- MODULE ProcessHistory ----------------------------
(***************************************************************************)
(* A research process: events of a pool happen one after the other, each   *)
(* when the transition relation of Lara.Process.History allows it.  The    *)
(* valid histories are the reachable ones.                                 *)
(***************************************************************************)
EXTENDS ProcessEvents

CONSTANT Pool  \* the events that may happen

ASSUME PoolAssumption == Pool \subseteq Event

VARIABLES
  history,  \* the events so far, in order
  state     \* the process state after them

vars == <<history, state>>

Init == history = << >> /\ state = InitialState

Happen(e) ==
  /\ Allowed(state, e)
  /\ history' = Append(history, e)
  /\ state' = After(state, e)

Of(kind) == {e \in Pool : e.kind = kind}

CommitPlan  == \E e \in Of("commit") : Happen(e)
Access      == \E e \in Of("access") : Happen(e)
StartRun    == \E e \in Of("run") : Happen(e)
Result      == \E e \in Of("result") : Happen(e)
Assert      == \E e \in Of("assert") : Happen(e)
Retract     == \E e \in Of("retract") : Happen(e)
UpdateData  == \E e \in Of("update") : Happen(e)

Next == CommitPlan \/ Access \/ StartRun \/ Result \/ Assert \/ Retract \/ UpdateData

Spec == Init /\ [][Next]_vars

-----------------------------------------------------------------------------
(* What a valid history is, said of the sequence alone. *)

\* e is preceded in h by what it needs and repeats nothing that is unique.
UpdatesOf(h, d) == {i \in DOMAIN h : h[i].kind = "update" /\ h[i].data = d}

IsCurrent(h, d, v) ==
  \/ v = 0 /\ UpdatesOf(h, d) = {}
  \/ \E i \in UpdatesOf(h, d) : h[i].version = v /\ \A j \in UpdatesOf(h, d) : j <= i

FoundedAfter(h, e) ==
  /\ \A i \in DOMAIN h : h[i].id # e.id
  /\ e.kind = "run" =>
       /\ \A i \in DOMAIN h : h[i].kind = "run" => h[i].run # e.run
       /\ \E i \in DOMAIN h : h[i].kind = "commit" /\ h[i].plan = e.plan
       /\ \A input \in e.inputs : IsCurrent(h, input[1], input[2])
  /\ e.kind = "result" => \E i \in DOMAIN h : h[i].kind = "run" /\ h[i].run = e.run
  /\ e.kind = "retract" => \A i \in DOMAIN h : h[i].kind = "retract" => h[i].source # e.source

-----------------------------------------------------------------------------
(* Properties. *)

\* The state and the history keep their types.
TypeOK ==
  /\ history \in Seq(Pool)
  /\ state \in [committed : SUBSET Plan, runs : SUBSET Run, used : SUBSET Id,
                version : [Data -> Version], retracted : SUBSET Source]

\* The bookkeeping of `step' allows an event exactly when the history so far
\* founds it: an unused identity, a committed plan, a fresh run on the current
\* version of every input, a result of a run, a first retraction.
StepIsFounded == \A e \in Pool : Allowed(state, e) <=> FoundedAfter(history, e)

\* Where runPrecommitted holds of a run that happened, one commit of its plan
\* precedes the run itself and every evaluation of its inputs, although
\* planCommittedBefore never looks at the run and any later commit may answer it.
PrecommitmentIsEarly ==
  \A r \in DOMAIN history :
    history[r].kind = "run" /\ RunPrecommitted(history, history[r].run) =>
      \E c \in 1 .. (r - 1) :
        /\ history[c].kind = "commit" /\ history[c].plan = history[r].plan
        /\ \A j \in DOMAIN history : Evaluates(history[j], InputData(history[r])) => c < j

\* Whether a run was precommitted is settled when it happens: no later commit,
\* access or update changes the answer.
PrecommitmentIsSettled ==
  [][\A r \in state.runs : RunPrecommitted(history', r) <=> RunPrecommitted(history, r)]_vars

\* Both of the above, of every step a history takes.
PrecommitmentIsSound ==
  [][/\ PrecommitmentIsEarly'
     /\ \A r \in state.runs : RunPrecommitted(history', r) <=> RunPrecommitted(history, r)]_vars

\* A history that is not predictable never becomes predictable again, so a
\* truncated record cannot look worse than the whole.
UnpredictableForGood == [][Predictable(history') => Predictable(history)]_vars
=============================================================================
