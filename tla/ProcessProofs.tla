---------------------------- MODULE ProcessProofs -----------------------------
(***************************************************************************)
(* ProcessHistory's properties for every pool of events: the invariant     *)
(* says that the state is read off the history, position by position, and  *)
(* that a commit of its plan precedes every run.  Then ProcessVerdict's,   *)
(* for every problem: its process is a ProcessHistory, its search visits   *)
(* the executable prefixes that are not pending on the frames, each once,  *)
(* a certain answer to a faithful record is true of what happened, and the *)
(* preflight counts the rows of the guarded product before one is built.   *)
(***************************************************************************)
EXTENDS ProcessVerdict, FiniteSetTheorems, TLAPS

Occurrences ==
  /\ \A x \in Id : x \in state.used <=> \E i \in DOMAIN history : history[i].id = x
  /\ \A p \in Plan : p \in state.committed <=>
       \E i \in DOMAIN history : history[i].kind = "commit" /\ history[i].plan = p
  /\ \A r \in Run : r \in state.runs <=>
       \E i \in DOMAIN history : history[i].kind = "run" /\ history[i].run = r
  /\ \A x \in Source : x \in state.retracted <=>
       \E i \in DOMAIN history : history[i].kind = "retract" /\ history[i].source = x

CurrentVersions ==
  \A d \in Data, v \in Version : state.version[d] = v <=> IsCurrent(history, d, v)

CommittedFirst ==
  \A r \in DOMAIN history : history[r].kind = "run" =>
    \E c \in 1 .. (r - 1) : history[c].kind = "commit" /\ history[c].plan = history[r].plan

ReadOff == TypeOK /\ Occurrences /\ CurrentVersions /\ CommittedFirst

-----------------------------------------------------------------------------
(* Events and sequences. *)

\* The fields each kind of event has.
LEMMA EventFields ==
  ASSUME NEW e \in Event
  PROVE  /\ e.id \in Id
         /\ e.kind = "commit" => e.plan \in Plan
         /\ e.kind = "run" => e.run \in Run /\ e.plan \in Plan /\ e.inputs \subseteq Data \X Version
         /\ e.kind = "result" => e.run \in Run
         /\ e.kind = "retract" => e.source \in Source
         /\ e.kind = "update" => e.data \in Data /\ e.version \in Version
  BY DEF Event

\* A history and the one an event longer.
LEMMA Appended ==
  ASSUME NEW h \in Seq(Pool), NEW e \in Pool
  PROVE  /\ Len(h) \in Nat /\ DOMAIN h = 1 .. Len(h)
         /\ Append(h, e) \in Seq(Pool)
         /\ DOMAIN Append(h, e) = 1 .. (Len(h) + 1)
         /\ \A i \in DOMAIN h : Append(h, e)[i] = h[i] /\ h[i] \in Pool
         /\ Append(h, e)[Len(h) + 1] = e
  OBVIOUS

\* What an event does to each part of the state.
LEMMA StateShape ==
  ASSUME TypeOK, NEW e \in Pool
  PROVE  LET next == After(state, e) IN
         /\ next \in [committed : SUBSET Plan, runs : SUBSET Run, used : SUBSET Id,
                      version : [Data -> Version], retracted : SUBSET Source]
         /\ next.used = state.used \cup {e.id}
         /\ next.committed = IF e.kind = "commit" THEN state.committed \cup {e.plan} ELSE state.committed
         /\ next.runs = IF e.kind = "run" THEN state.runs \cup {e.run} ELSE state.runs
         /\ next.retracted = IF e.kind = "retract" THEN state.retracted \cup {e.source} ELSE state.retracted
         /\ next.version = IF e.kind = "update" THEN [state.version EXCEPT ![e.data] = e.version] ELSE state.version
<1>1. e \in Event
  BY PoolAssumption
<1> DEFINE next == After(state, e)
<1>2. /\ next.used = state.used \cup {e.id}
      /\ next.committed = IF e.kind = "commit" THEN state.committed \cup {e.plan} ELSE state.committed
      /\ next.runs = IF e.kind = "run" THEN state.runs \cup {e.run} ELSE state.runs
      /\ next.retracted = IF e.kind = "retract" THEN state.retracted \cup {e.source} ELSE state.retracted
      /\ next.version = IF e.kind = "update" THEN [state.version EXCEPT ![e.data] = e.version] ELSE state.version
  BY DEF After
<1>3. /\ state.used \subseteq Id /\ state.committed \subseteq Plan /\ state.runs \subseteq Run
      /\ state.retracted \subseteq Source /\ state.version \in [Data -> Version]
  BY DEF TypeOK
<1>4. /\ next.used \subseteq Id /\ next.committed \subseteq Plan /\ next.runs \subseteq Run
      /\ next.retracted \subseteq Source
  BY <1>1, <1>2, <1>3, EventFields
<1>5. next.version \in [Data -> Version]
  BY <1>1, <1>2, <1>3, EventFields
<1>6. next = [committed |-> next.committed, runs |-> next.runs, used |-> next.used,
              version |-> next.version, retracted |-> next.retracted]
  BY DEF After
<1> HIDE DEF next
<1>7. QED
  BY <1>2, <1>4, <1>5, <1>6 DEF next

-----------------------------------------------------------------------------
(* The invariant. *)

\* The empty history.
LEMMA InitReadOff == Init => ReadOff
<1> SUFFICES ASSUME Init PROVE ReadOff
  OBVIOUS
<1>1. TypeOK
  BY DEF Init, TypeOK, InitialState, Version
<1>2. DOMAIN history = {} /\ (\A d \in Data : state.version[d] = 0)
  BY DEF Init, InitialState
<1>3. Occurrences /\ CommittedFirst
  BY <1>2 DEF Init, InitialState, Occurrences, CommittedFirst
<1>4. CurrentVersions
  BY <1>2 DEF CurrentVersions, IsCurrent, UpdatesOf, Version
<1>5. QED
  BY <1>1, <1>3, <1>4 DEF ReadOff

\* Every action lets one event of the pool happen.
LEMMA OneEvent == Next => \E e \in Pool : Happen(e)
  BY DEF Next, CommitPlan, Access, StartRun, Result, Assert, Retract, UpdateData, Of

\* One event keeps the read-off.
LEMMA HappenPreserves ==
  ASSUME ReadOff, NEW e \in Pool, Happen(e)
  PROVE  ReadOff'
<1> DEFINE n == Len(history) + 1
<1>1. e \in Event
  BY PoolAssumption
<1>2. /\ n \in Nat /\ n >= 1 /\ DOMAIN history = 1 .. (n - 1) /\ DOMAIN history' = 1 .. n
      /\ history' \in Seq(Pool) /\ history'[n] = e
      /\ \A i \in 1 .. (n - 1) : history'[i] = history[i]
  BY Appended DEF ReadOff, TypeOK, Happen
<1>3. TypeOK'
  BY <1>2, StateShape DEF ReadOff, TypeOK, Happen
<1> HIDE DEF n
<1>4. \A i \in DOMAIN history' : i = n \/ i \in DOMAIN history
  BY <1>2
<1>5. n \in DOMAIN history' /\ DOMAIN history \subseteq DOMAIN history'
  BY <1>2
<1>6. /\ state'.used = state.used \cup {e.id}
      /\ state'.committed = IF e.kind = "commit" THEN state.committed \cup {e.plan} ELSE state.committed
      /\ state'.runs = IF e.kind = "run" THEN state.runs \cup {e.run} ELSE state.runs
      /\ state'.retracted = IF e.kind = "retract" THEN state.retracted \cup {e.source} ELSE state.retracted
      /\ state'.version = IF e.kind = "update" THEN [state.version EXCEPT ![e.data] = e.version] ELSE state.version
  BY StateShape DEF Happen, ReadOff
<1>7. Occurrences'
  <2>1. ASSUME NEW x \in Id
        PROVE  x \in state'.used <=> \E i \in DOMAIN history' : history'[i].id = x
    BY <1>2, <1>4, <1>5, <1>6 DEF ReadOff, Occurrences
  <2>2. ASSUME NEW p \in Plan
        PROVE  p \in state'.committed <=>
                 \E i \in DOMAIN history' : history'[i].kind = "commit" /\ history'[i].plan = p
    BY <1>2, <1>4, <1>5, <1>6 DEF ReadOff, Occurrences
  <2>3. ASSUME NEW r \in Run
        PROVE  r \in state'.runs <=>
                 \E i \in DOMAIN history' : history'[i].kind = "run" /\ history'[i].run = r
    BY <1>2, <1>4, <1>5, <1>6 DEF ReadOff, Occurrences
  <2>4. ASSUME NEW x \in Source
        PROVE  x \in state'.retracted <=>
                 \E i \in DOMAIN history' : history'[i].kind = "retract" /\ history'[i].source = x
    BY <1>2, <1>4, <1>5, <1>6 DEF ReadOff, Occurrences
  <2>5. QED
    BY <2>1, <2>2, <2>3, <2>4 DEF Occurrences
<1>8. CurrentVersions'
  <2> SUFFICES ASSUME NEW d \in Data, NEW v \in Version
               PROVE  state'.version[d] = v <=> IsCurrent(history', d, v)
    BY DEF CurrentVersions
  <2>1. state.version[d] = v <=> IsCurrent(history, d, v)
    BY DEF ReadOff, CurrentVersions
  <2>2. state.version \in [Data -> Version]
    BY DEF ReadOff, TypeOK
  <2>3. CASE e.kind = "update" /\ e.data = d
    <3>1. UpdatesOf(history', d) = UpdatesOf(history, d) \cup {n}
      BY <1>2, <1>4, <1>5, <2>3 DEF UpdatesOf
    <3>2. \A j \in UpdatesOf(history, d) : j \in Int /\ j < n
      BY <1>2 DEF UpdatesOf
    <3>3. state'.version[d] = e.version
      BY <1>6, <2>2, <2>3
    <3>4. IsCurrent(history', d, v) <=> e.version = v
      BY <1>2, <3>1, <3>2 DEF IsCurrent
    <3>5. QED
      BY <3>3, <3>4
  <2>4. CASE ~ (e.kind = "update" /\ e.data = d)
    <3>1. UpdatesOf(history', d) = UpdatesOf(history, d)
      BY <1>2, <1>4, <1>5, <2>4 DEF UpdatesOf
    <3>2. \A i \in UpdatesOf(history, d) : history'[i] = history[i]
      BY <1>2 DEF UpdatesOf
    <3>3. state'.version[d] = state.version[d]
      BY <1>1, <1>6, <2>2, <2>4, EventFields
    <3>4. IsCurrent(history', d, v) <=> IsCurrent(history, d, v)
      BY <3>1, <3>2 DEF IsCurrent
    <3>5. QED
      BY <2>1, <3>3, <3>4
  <2>5. QED
    BY <2>3, <2>4
<1>9. CommittedFirst'
  <2> SUFFICES ASSUME NEW r \in DOMAIN history', history'[r].kind = "run"
               PROVE  \E c \in 1 .. (r - 1) : history'[c].kind = "commit" /\ history'[c].plan = history'[r].plan
    BY DEF CommittedFirst
  <2>1. CASE r \in DOMAIN history
    <3>1. PICK c \in 1 .. (r - 1) : history[c].kind = "commit" /\ history[c].plan = history[r].plan
      BY <1>2, <2>1 DEF ReadOff, CommittedFirst
    <3>2. c \in 1 .. (n - 1)
      BY <1>2, <2>1
    <3>3. QED
      BY <1>2, <2>1, <3>1, <3>2
  <2>2. CASE r = n
    <3>1. e.kind = "run" /\ e.plan \in state.committed /\ e.plan \in Plan
      BY <1>1, <1>2, <2>2, EventFields DEF Happen, Allowed
    <3>2. PICK c \in DOMAIN history : history[c].kind = "commit" /\ history[c].plan = e.plan
      BY <3>1 DEF ReadOff, Occurrences
    <3>3. QED
      BY <1>2, <2>2, <3>2
  <2>3. QED
    BY <1>4, <2>1, <2>2
<1>10. QED
  BY <1>3, <1>7, <1>8, <1>9 DEF ReadOff

\* The state is the history's read-off in every reachable state.
THEOREM InductiveInvariant == Spec => []ReadOff
<1>1. ReadOff /\ [Next]_vars => ReadOff'
  <2> SUFFICES ASSUME ReadOff, [Next]_vars PROVE ReadOff'
    OBVIOUS
  <2>1. CASE Next
    BY <2>1, OneEvent, HappenPreserves
  <2>2. CASE UNCHANGED vars
    BY <2>2 DEF vars, ReadOff, TypeOK, Occurrences, CurrentVersions, CommittedFirst
  <2>3. QED
    BY <2>1, <2>2
<1>2. QED
  BY <1>1, InitReadOff, PTL DEF Spec

\* For every pool: the history stays a sequence of its events and the state in
\* its type.
THEOREM TypeCorrect == Spec => []TypeOK
  BY InductiveInvariant, PTL DEF ReadOff

-----------------------------------------------------------------------------
(* What the invariant says of an event and of a precommitted run. *)

\* The guards, read off the history.
LEMMA FoundedSteps == ReadOff => StepIsFounded
<1> SUFFICES ASSUME ReadOff, NEW e \in Pool
             PROVE  Allowed(state, e) <=> FoundedAfter(history, e)
  BY DEF StepIsFounded
<1>1. e \in Event
  BY PoolAssumption
<1>2. e.id \notin state.used <=> \A i \in DOMAIN history : history[i].id # e.id
  BY <1>1, EventFields DEF ReadOff, Occurrences
<1>3. ASSUME e.kind = "run"
      PROVE  /\ e.run \notin state.runs <=>
                  \A i \in DOMAIN history : history[i].kind = "run" => history[i].run # e.run
             /\ e.plan \in state.committed <=>
                  \E i \in DOMAIN history : history[i].kind = "commit" /\ history[i].plan = e.plan
             /\ \A input \in e.inputs : state.version[input[1]] = input[2] <=> IsCurrent(history, input[1], input[2])
  <2>1. e.run \in Run /\ e.plan \in Plan /\ e.inputs \subseteq Data \X Version
    BY <1>1, <1>3, EventFields
  <2>2. \A input \in e.inputs : state.version[input[1]] = input[2] <=> IsCurrent(history, input[1], input[2])
    BY <2>1 DEF ReadOff, CurrentVersions
  <2>3. QED
    BY <2>1, <2>2 DEF ReadOff, Occurrences
<1>4. e.kind = "result" =>
        (e.run \in state.runs <=> \E i \in DOMAIN history : history[i].kind = "run" /\ history[i].run = e.run)
  BY <1>1, EventFields DEF ReadOff, Occurrences
<1>5. e.kind = "retract" =>
        (e.source \notin state.retracted <=>
           \A i \in DOMAIN history : history[i].kind = "retract" => history[i].source # e.source)
  BY <1>1, EventFields DEF ReadOff, Occurrences
<1>6. QED
  BY <1>2, <1>3, <1>4, <1>5 DEF Allowed, FoundedAfter

\* For every pool: the transition relation allows an event exactly when the
\* history founds it.
THEOREM StepsAreFounded == Spec => []StepIsFounded
  BY InductiveInvariant, FoundedSteps, PTL

\* The commit before a run serves, or the one found does.
LEMMA EarlyCommit == ReadOff => PrecommitmentIsEarly
<1> SUFFICES ASSUME ReadOff, NEW r \in DOMAIN history, history[r].kind = "run",
                    RunPrecommitted(history, history[r].run)
             PROVE  \E c \in 1 .. (r - 1) :
                      /\ history[c].kind = "commit" /\ history[c].plan = history[r].plan
                      /\ \A j \in DOMAIN history : Evaluates(history[j], InputData(history[r])) => c < j
  BY DEF PrecommitmentIsEarly
<1>1. DOMAIN history = 1 .. Len(history) /\ Len(history) \in Nat
  BY DEF ReadOff, TypeOK
<1>2. PICK b \in DOMAIN history :
        /\ history[b].kind = "commit" /\ history[b].plan = history[r].plan
        /\ \A j \in DOMAIN history : Evaluates(history[j], InputData(history[r])) => b < j
  BY DEF RunPrecommitted, PlanCommittedBefore
<1>3. PICK c \in 1 .. (r - 1) : history[c].kind = "commit" /\ history[c].plan = history[r].plan
  BY DEF ReadOff, CommittedFirst
<1>4. CASE b < r
  BY <1>1, <1>2, <1>4
<1>5. CASE r <= b
  <2>1. \A j \in DOMAIN history : Evaluates(history[j], InputData(history[r])) => c < j
    BY <1>1, <1>2, <1>3, <1>5
  <2>2. QED
    BY <1>3, <2>1
<1>6. QED
  BY <1>1, <1>4, <1>5

\* For every pool: a precommitted run has one commit before itself and before
\* every evaluation of its inputs.
THEOREM PrecommitmentsAreEarly == Spec => []PrecommitmentIsEarly
  BY InductiveInvariant, EarlyCommit, PTL

\* Once a plan is committed, one more event does not change whether it was
\* committed before the data was evaluated.
LEMMA SettledCommit ==
  ASSUME NEW h \in Seq(Pool), NEW e \in Pool, NEW p, NEW data,
         \E c \in DOMAIN h : h[c].kind = "commit" /\ h[c].plan = p
  PROVE  PlanCommittedBefore(Append(h, e), p, data) <=> PlanCommittedBefore(h, p, data)
<1> DEFINE g == Append(h, e)
<1>1. /\ Len(h) \in Nat /\ DOMAIN h = 1 .. Len(h) /\ DOMAIN g = 1 .. (Len(h) + 1)
      /\ \A i \in DOMAIN h : g[i] = h[i]
  BY Appended
<1> HIDE DEF g
<1>2. ASSUME PlanCommittedBefore(h, p, data) PROVE PlanCommittedBefore(g, p, data)
  <2>1. PICK i \in DOMAIN h : /\ h[i].kind = "commit" /\ h[i].plan = p
                              /\ \A j \in DOMAIN h : Evaluates(h[j], data) => i < j
    BY <1>2 DEF PlanCommittedBefore
  <2>2. \A j \in DOMAIN g : Evaluates(g[j], data) => i < j
    BY <1>1, <2>1
  <2>3. QED
    BY <1>1, <2>1, <2>2 DEF PlanCommittedBefore
<1>3. ASSUME PlanCommittedBefore(g, p, data) PROVE PlanCommittedBefore(h, p, data)
  <2>1. PICK i \in DOMAIN g : /\ g[i].kind = "commit" /\ g[i].plan = p
                              /\ \A j \in DOMAIN g : Evaluates(g[j], data) => i < j
    BY <1>3 DEF PlanCommittedBefore
  <2>2. \A j \in DOMAIN h : Evaluates(h[j], data) => i < j
    BY <1>1, <2>1
  <2>3. CASE i \in DOMAIN h
    BY <1>1, <2>1, <2>2, <2>3 DEF PlanCommittedBefore
  <2>4. CASE i = Len(h) + 1
    <3>1. \A j \in DOMAIN h : ~ Evaluates(h[j], data)
      BY <1>1, <2>2, <2>4
    <3>2. QED
      BY <3>1 DEF PlanCommittedBefore
  <2>5. QED
    BY <1>1, <2>3, <2>4
<1>4. QED
  BY <1>2, <1>3 DEF g

\* An event settles nothing anew for the runs before it.
LEMMA HappenSettles ==
  ASSUME ReadOff, NEW e \in Pool, Happen(e)
  PROVE  \A i \in DOMAIN history : history[i].kind = "run" =>
           /\ history'[i] = history[i] /\ i \in DOMAIN history'
           /\ PlanCommittedBefore(history', history[i].plan, InputData(history[i])) <=>
                PlanCommittedBefore(history, history[i].plan, InputData(history[i]))
<1> SUFFICES ASSUME NEW i \in DOMAIN history, history[i].kind = "run"
             PROVE  /\ history'[i] = history[i] /\ i \in DOMAIN history'
                    /\ PlanCommittedBefore(history', history[i].plan, InputData(history[i])) <=>
                         PlanCommittedBefore(history, history[i].plan, InputData(history[i]))
  OBVIOUS
<1>1. history \in Seq(Pool) /\ history' = Append(history, e)
  BY DEF ReadOff, TypeOK, Happen
<1>2. \E c \in DOMAIN history : history[c].kind = "commit" /\ history[c].plan = history[i].plan
  <2>1. PICK c \in 1 .. (i - 1) : history[c].kind = "commit" /\ history[c].plan = history[i].plan
    BY DEF ReadOff, CommittedFirst
  <2>2. c \in DOMAIN history
    BY <1>1, <2>1
  <2>3. QED
    BY <2>1, <2>2
<1>3. history'[i] = history[i] /\ i \in DOMAIN history'
  BY <1>1, Appended
<1>4. QED
  BY <1>1, <1>2, <1>3, SettledCommit

\* For every pool: whether a run was precommitted never changes after it.
THEOREM PrecommitmentsAreSettled == Spec => PrecommitmentIsSettled
<1>1. ReadOff /\ [Next]_vars =>
        [\A r \in state.runs : RunPrecommitted(history', r) <=> RunPrecommitted(history, r)]_vars
  <2> SUFFICES ASSUME ReadOff, Next, NEW r \in state.runs
               PROVE  RunPrecommitted(history', r) <=> RunPrecommitted(history, r)
    OBVIOUS
  <2>1. PICK e \in Pool : Happen(e)
    BY OneEvent
  <2>2. /\ DOMAIN history' = 1 .. (Len(history) + 1) /\ DOMAIN history = 1 .. Len(history)
        /\ Len(history) \in Nat /\ history'[Len(history) + 1] = e
    BY <2>1, Appended DEF ReadOff, TypeOK, Happen
  <2>3. e.kind = "run" => e.run # r
    BY <2>1 DEF Happen, Allowed
  <2>4. \A i \in DOMAIN history' : history'[i].kind = "run" /\ history'[i].run = r => i \in DOMAIN history
    BY <2>2, <2>3
  <2>5. \A i \in DOMAIN history : history[i].kind = "run" =>
          /\ history'[i] = history[i] /\ i \in DOMAIN history'
          /\ PlanCommittedBefore(history', history[i].plan, InputData(history[i])) <=>
               PlanCommittedBefore(history, history[i].plan, InputData(history[i]))
    BY <2>1, HappenSettles
  <2>6. \A i \in DOMAIN history : history'[i] = history[i]
    BY <2>1, Appended DEF ReadOff, TypeOK, Happen
  <2>7. QED
    BY <2>4, <2>5, <2>6 DEF RunPrecommitted
<1>2. QED
  BY <1>1, InductiveInvariant, PTL DEF Spec, PrecommitmentIsSettled

\* For every pool: a history that is not predictable stays so.
THEOREM UnpredictabilityIsForGood == Spec => UnpredictableForGood
<1>1. ReadOff /\ [Next]_vars => [Predictable(history') => Predictable(history)]_vars
  <2> SUFFICES ASSUME ReadOff, Next, Predictable(history') PROVE Predictable(history)
    OBVIOUS
  <2>1. PICK e \in Pool : Happen(e)
    BY OneEvent
  <2>2. QED
    BY <2>1, HappenSettles DEF Predictable
<1>2. QED
  BY <1>1, InductiveInvariant, PTL DEF Spec, UnpredictableForGood

\* A precommitment is early, and settled when its run happens.
THEOREM PrecommitmentsAreSound == Spec => PrecommitmentIsSound
BY PrecommitmentsAreEarly, PrecommitmentsAreSettled, PTL
   DEF PrecommitmentIsSettled, PrecommitmentIsSound
-----------------------------------------------------------------------------
(* ProcessVerdict's process is a ProcessHistory. *)

\* A submission and a search leave the history alone, so what is proved of
\* every process holds of one that is asked about.
THEOREM InquiryIsProcess == InquirySpec => Spec
<1>1. Start => Init
  BY DEF Start
<1>2. [Inquire]_<<vars, search>> => [Next]_vars
  BY DEF Inquire, Happens, Submit, Search, vars
<1> QED
  BY <1>1, <1>2, PTL DEF InquirySpec, Spec

-----------------------------------------------------------------------------
(* The state after a prefix. *)

\* A set of naturals has a least member: what the inductions below rest on.
LEMMA LeastNat ==
  ASSUME NEW S \in SUBSET Nat, S # {}
  PROVE  \E n \in S : \A m \in S : n <= m
<1>1. PICK n \in S : \A m \in S : <<m, n>> \notin OpToRel(<, Nat)
  BY NatLessThanWellFounded, WFMin
<1>2. \A m \in S : ~ (m < n)
  BY <1>1 DEF OpToRel
<1> QED
  BY <1>2

\* Some function counts up to n the states along h.
Stepwise(h, f, n) ==
  f = [m \in 0 .. n |-> IF m = 0 THEN InitialState ELSE After(f[m - 1], h[m])]

\* Such a function exists.
LEMMA StepwiseExists ==
  ASSUME NEW h, NEW n \in Nat
  PROVE  \E f : Stepwise(h, f, n)
<1> DEFINE Bad == {m \in Nat : ~ \E f : Stepwise(h, f, m)}
<1> SUFFICES ASSUME Bad # {} PROVE FALSE
  OBVIOUS
<1>1. PICK m \in Bad : \A k \in Bad : m <= k
  <2> HIDE DEF Bad
  <2>1. Bad \in SUBSET Nat
    BY DEF Bad
  <2> QED
    BY <2>1, LeastNat
<1>2. m # 0
  <2>1. Stepwise(h, [k \in 0 .. 0 |-> InitialState], 0)
    BY DEF Stepwise
  <2> QED
    BY <2>1
<1>3. PICK f : Stepwise(h, f, m - 1)
  <2>1. m - 1 \in Nat /\ m - 1 \notin Bad
    BY <1>1, <1>2
  <2> QED
    BY <2>1
<1> DEFINE g == [k \in 0 .. m |-> IF k <= m - 1 THEN f[k] ELSE After(f[m - 1], h[m])]
<1>4. \A k \in 0 .. m : g[k] = IF k = 0 THEN InitialState ELSE After(g[k - 1], h[k])
  <2> SUFFICES ASSUME NEW k \in 0 .. m
               PROVE  g[k] = IF k = 0 THEN InitialState ELSE After(g[k - 1], h[k])
    OBVIOUS
  <2>1. CASE k <= m - 1
    <3>1. g[k] = f[k] /\ (k # 0 => g[k - 1] = f[k - 1])
      BY <1>2, <2>1
    <3>2. f[k] = IF k = 0 THEN InitialState ELSE After(f[k - 1], h[k])
      BY <1>3, <1>2, <2>1 DEF Stepwise
    <3> QED
      BY <3>1, <3>2
  <2>2. CASE k = m
    BY <1>2, <2>2
  <2> QED
    BY <2>1, <2>2
<1>5. Stepwise(h, g, m)
  BY <1>4 DEF Stepwise
<1> QED
  BY <1>5, <1>1

\* StateAfter is that function.
LEMMA StateAfterSteps ==
  ASSUME NEW S, NEW h \in Seq(S)
  PROVE  /\ StateAfter(h)[0] = InitialState
         /\ \A n \in 1 .. Len(h) : StateAfter(h)[n] = After(StateAfter(h)[n - 1], h[n])
<1>1. StateAfter(h) = CHOOSE f : Stepwise(h, f, Len(h))
  BY DEF StateAfter, Stepwise
<1>2. Len(h) \in Nat
  OBVIOUS
<1>3. Stepwise(h, StateAfter(h), Len(h))
  BY <1>1, <1>2, StepwiseExists
<1> QED
  BY <1>2, <1>3 DEF Stepwise
\* Histories that agree so far have been through the same states.
LEMMA StatesAgree ==
  ASSUME NEW S, NEW g \in Seq(S), NEW h \in Seq(S), NEW m \in Nat,
         m <= Len(g), m <= Len(h), \A j \in 1 .. m : g[j] = h[j]
  PROVE  \A n \in 0 .. m : StateAfter(g)[n] = StateAfter(h)[n]
<1> DEFINE Bad == {n \in 0 .. m : StateAfter(g)[n] # StateAfter(h)[n]}
<1> SUFFICES ASSUME Bad # {} PROVE FALSE
  OBVIOUS
<1>1. PICK n \in Bad : \A k \in Bad : n <= k
  <2> HIDE DEF Bad
  <2>1. Bad \in SUBSET Nat
    BY DEF Bad
  <2> QED
    BY <2>1, LeastNat
<1>2. n # 0
  BY StateAfterSteps
<1>3. n \in 1 .. Len(g) /\ n \in 1 .. Len(h) /\ g[n] = h[n] /\ n - 1 \in 0 .. m
  BY <1>2
<1>4. StateAfter(g)[n - 1] = StateAfter(h)[n - 1]
  BY <1>1, <1>3
<1> QED
  BY <1>3, <1>4, StateAfterSteps

\* The identities used up are those of the events so far.
LEMMA UsedSoFar ==
  ASSUME NEW S, NEW h \in Seq(S)
  PROVE  \A n \in 0 .. Len(h) : StateAfter(h)[n].used = {h[j].id : j \in 1 .. n}
<1> DEFINE Bad == {n \in 0 .. Len(h) : StateAfter(h)[n].used # {h[j].id : j \in 1 .. n}}
<1> SUFFICES ASSUME Bad # {} PROVE FALSE
  OBVIOUS
<1>1. PICK n \in Bad : \A k \in Bad : n <= k
  <2> HIDE DEF Bad
  <2>1. Bad \in SUBSET Nat
    BY DEF Bad
  <2> QED
    BY <2>1, LeastNat
<1>2. n # 0
  BY StateAfterSteps DEF InitialState
<1>3. n \in 1 .. Len(h) /\ n - 1 \in 0 .. Len(h)
  BY <1>2
<1>4. StateAfter(h)[n - 1].used = {h[j].id : j \in 1 .. (n - 1)}
  BY <1>1, <1>3
<1>5. StateAfter(h)[n] = After(StateAfter(h)[n - 1], h[n])
  BY <1>3, StateAfterSteps
<1>6. StateAfter(h)[n].used = StateAfter(h)[n - 1].used \cup {h[n].id}
  BY <1>5 DEF After
<1>7. 1 .. n = (1 .. (n - 1)) \cup {n}
  BY <1>3
<1> QED
  BY <1>4, <1>6, <1>7

\* What one event more makes of the state and of the validity.
LEMMA OneMore ==
  ASSUME NEW S, NEW h \in Seq(S), NEW e \in S
  PROVE  /\ StateAfter(Append(h, e))[Len(h) + 1] = After(StateAfter(h)[Len(h)], e)
         /\ Valid(Append(h, e)) <=> Valid(h) /\ Allowed(StateAfter(h)[Len(h)], e)
<1> DEFINE g == Append(h, e)
           m == Len(h)
<1>1. /\ g \in Seq(S) /\ m \in Nat /\ Len(g) = m + 1 /\ g[m + 1] = e
      /\ \A j \in 1 .. m : g[j] = h[j]
      /\ DOMAIN h = 1 .. m /\ DOMAIN g = 1 .. (m + 1)
  OBVIOUS
<1> HIDE DEF g
<1>2. \A n \in 0 .. m : StateAfter(g)[n] = StateAfter(h)[n]
  BY <1>1, StatesAgree
<1> HIDE DEF m
<1>3. StateAfter(g)[m + 1] = After(StateAfter(g)[m], e)
  <2>1. m + 1 \in 1 .. Len(g) /\ (m + 1) - 1 = m
    BY <1>1
  <2> QED
    BY <1>1, <2>1, StateAfterSteps
<1>4. Valid(g) <=> \A n \in 1 .. (m + 1) : Allowed(StateAfter(g)[n - 1], g[n])
  BY <1>1 DEF Valid
<1>5. Valid(h) <=> \A n \in 1 .. m : Allowed(StateAfter(h)[n - 1], h[n])
  BY <1>1 DEF Valid
<1>6. \A n \in 1 .. m : StateAfter(g)[n - 1] = StateAfter(h)[n - 1] /\ g[n] = h[n]
  BY <1>1, <1>2
<1>7. Allowed(StateAfter(g)[(m + 1) - 1], g[m + 1]) <=> Allowed(StateAfter(h)[m], e)
  <2>1. (m + 1) - 1 = m /\ m \in 0 .. m
    BY <1>1
  <2> QED
    BY <1>1, <1>2, <2>1
<1>8. 1 .. (m + 1) = (1 .. m) \cup {m + 1}
  BY <1>1
<1>9. Valid(g) <=> Valid(h) /\ Allowed(StateAfter(h)[m], e)
  BY <1>4, <1>5, <1>6, <1>7, <1>8
<1>10. StateAfter(g)[m + 1] = After(StateAfter(h)[m], e)
  BY <1>1, <1>2, <1>3
<1> QED
  BY <1>9, <1>10 DEF g, m

\* What follows a prefix of a valid history is allowed after the prefix.
LEMMA NextIsAllowed ==
  ASSUME NEW S, NEW g \in Seq(S), NEW h \in Seq(S), Valid(g), Len(h) < Len(g),
         \A j \in 1 .. Len(h) : g[j] = h[j]
  PROVE  Allowed(StateAfter(h)[Len(h)], g[Len(h) + 1])
<1> DEFINE m == Len(h)
<1>1. m \in Nat /\ m \in 0 .. m /\ m + 1 \in DOMAIN g /\ (m + 1) - 1 = m
  OBVIOUS
<1>2. \A n \in 0 .. m : StateAfter(g)[n] = StateAfter(h)[n]
  BY StatesAgree
<1> HIDE DEF m
<1>3. Allowed(StateAfter(g)[m], g[m + 1])
  BY <1>1 DEF Valid
<1> QED
  BY <1>1, <1>2, <1>3 DEF m

\* A valid history repeats no event.
LEMMA ValidIsDistinct ==
  ASSUME NEW S, NEW h \in Seq(S), Valid(h)
  PROVE  \A i, j \in 1 .. Len(h) : i # j => h[i] # h[j]
<1>1. ASSUME NEW i \in 1 .. Len(h), NEW j \in 1 .. Len(h), i < j
      PROVE  h[i] # h[j]
  <2>1. j - 1 \in 0 .. Len(h) /\ i \in 1 .. (j - 1) /\ j \in DOMAIN h
    BY <1>1
  <2>2. h[j].id \notin StateAfter(h)[j - 1].used
    BY <2>1 DEF Valid, Allowed
  <2>3. StateAfter(h)[j - 1].used = {h[k].id : k \in 1 .. (j - 1)}
    BY <2>1, UsedSoFar
  <2> QED
    BY <2>1, <2>2, <2>3
<1> QED
  BY <1>1

\* A sequence maps its positions onto its members.
LEMMA OntoMembers ==
  ASSUME NEW S, NEW h \in Seq(S)
  PROVE  /\ Len(h) \in Nat /\ DOMAIN h = 1 .. Len(h)
         /\ h \in [1 .. Len(h) -> Occurs(h)]
         /\ h \in Surjection(1 .. Len(h), Occurs(h))
<1>1. Len(h) \in Nat /\ DOMAIN h = 1 .. Len(h)
  OBVIOUS
<1>2. h \in [1 .. Len(h) -> Occurs(h)]
  BY <1>1 DEF Occurs
<1>3. \A t \in Occurs(h) : \E s \in 1 .. Len(h) : h[s] = t
  BY <1>1 DEF Occurs
<1> QED
  BY <1>1, <1>2, <1>3 DEF Surjection

\* A sequence without repeats has as many members as positions.
LEMMA DistinctCount ==
  ASSUME NEW S, NEW h \in Seq(S), \A i, j \in 1 .. Len(h) : i # j => h[i] # h[j]
  PROVE  Cardinality(Occurs(h)) = Len(h)
<1>1. /\ Len(h) \in Nat /\ h \in [1 .. Len(h) -> Occurs(h)]
      /\ DOMAIN h = 1 .. Len(h) /\ h \in Surjection(1 .. Len(h), Occurs(h))
  BY OntoMembers
<1>2. h \in Bijection(1 .. Len(h), Occurs(h))
  BY <1>1 DEF Bijection, Injection, IsInjective
<1>3. ExistsBijection(1 .. Len(h), Occurs(h))
  BY <1>2 DEF ExistsBijection
<1> QED
  BY <1>1, <1>3, FS_CountingElements
-----------------------------------------------------------------------------
(* The frames and what is pending on them.  L is the set of listed events. *)

NoRepeats(s) == \A i, j \in DOMAIN s : i # j => s[i] # s[j]

Executable(L) == {h \in Seq(L) : Valid(h)}

FrameOf(h, r, u) == [history |-> h, state |-> StateAfter(h)[Len(h)], remaining |-> r, untried |-> u]

FrameSet(L) == {FrameOf(h, r, u) : h \in Executable(L), r \in Seq(L), u \in Seq(L)}

\* Each frame's prefix leads to the top one, by an event it has tried.
FrameOK(L, F, k) ==
  /\ Len(F[k].history) = k - 1
  /\ NoRepeats(F[k].remaining) /\ Occurs(F[k].remaining) = L \ Occurs(F[k].history)
  /\ NoRepeats(F[k].untried) /\ Occurs(F[k].untried) \subseteq Occurs(F[k].remaining)
  /\ \A j \in 1 .. (k - 1) : F[k].history[j] = F[Len(F)].history[j]
  /\ k < Len(F) => F[Len(F)].history[k] \notin Occurs(F[k].untried)

GoodFrames(L, F) ==
  F \in Seq(FrameSet(L)) /\ Len(F) >= 1 /\ \A k \in 1 .. Len(F) : FrameOK(L, F, k)

\* h leaves the prefix of frame k by an event that frame has not tried.
PendingAt(F, h, k) ==
  /\ k <= Len(h) /\ \A j \in 1 .. (k - 1) : h[j] = F[k].history[j]
  /\ h[k] \in Occurs(F[k].untried)

\* What the search has been at: the executable prefixes not pending on a frame.
Seen(L, F) == {h \in Executable(L) : \A k \in 1 .. Len(F) : ~ PendingAt(F, h, k)}

\* Sequences, their heads and their tails.
LEMMA HeadAndTail ==
  ASSUME NEW S, NEW s \in Seq(S), s # << >>, NoRepeats(s)
  PROVE  /\ Head(s) \in Occurs(s) /\ Head(s) \in S /\ Head(s) \notin Occurs(Tail(s))
         /\ Tail(s) \in Seq(S) /\ NoRepeats(Tail(s))
         /\ Occurs(s) = Occurs(Tail(s)) \cup {Head(s)}
<1>1. /\ Len(s) \in Nat /\ Len(s) >= 1 /\ DOMAIN s = 1 .. Len(s) /\ Head(s) = s[1] /\ s[1] \in S
      /\ Tail(s) \in Seq(S) /\ Len(Tail(s)) = Len(s) - 1 /\ DOMAIN Tail(s) = 1 .. (Len(s) - 1)
      /\ \A i \in 1 .. (Len(s) - 1) : Tail(s)[i] = s[i + 1]
  OBVIOUS
<1>2. NoRepeats(Tail(s))
  BY <1>1 DEF NoRepeats
<1>3. Head(s) \notin Occurs(Tail(s))
  BY <1>1 DEF NoRepeats, Occurs
<1>4. Occurs(s) = Occurs(Tail(s)) \cup {Head(s)}
  <2>1. ASSUME NEW i \in DOMAIN s PROVE s[i] \in Occurs(Tail(s)) \cup {Head(s)}
    <3>1. CASE i = 1
      BY <1>1, <3>1
    <3>2. CASE i # 1
      <4>1. i - 1 \in 1 .. (Len(s) - 1) /\ (i - 1) + 1 = i
        BY <1>1, <3>2
      <4> QED
        BY <1>1, <4>1 DEF Occurs
    <3> QED
      BY <3>1, <3>2
  <2>2. ASSUME NEW i \in DOMAIN Tail(s) PROVE Tail(s)[i] \in Occurs(s)
    BY <1>1 DEF Occurs
  <2>3. Head(s) \in Occurs(s)
    BY <1>1 DEF Occurs
  <2> QED
    BY <2>1, <2>2, <2>3 DEF Occurs
<1> QED
  BY <1>1, <1>2, <1>3, <1>4 DEF Occurs

\* `delete': the others stay, in their order.
LEMMA WithoutRemoves ==
  ASSUME NEW S, NEW s \in Seq(S), NoRepeats(s), NEW e \in Occurs(s)
  PROVE  /\ E!Without(s, e) \in Seq(S) /\ NoRepeats(E!Without(s, e))
         /\ Occurs(E!Without(s, e)) = Occurs(s) \ {e}
<1> DEFINE n == CHOOSE n \in DOMAIN s : s[n] = e
           w == [i \in 1 .. (Len(s) - 1) |-> s[IF i < n THEN i ELSE i + 1]]
<1>1. /\ Len(s) \in Nat /\ DOMAIN s = 1 .. Len(s) /\ n \in DOMAIN s /\ s[n] = e
      /\ \A i \in 1 .. Len(s) : s[i] \in S
  BY DEF Occurs
<1>2. E!Without(s, e) = w
  BY DEF E!Without
<1> HIDE DEF n
<1>3. /\ w \in Seq(S) /\ DOMAIN w = 1 .. (Len(s) - 1)
      /\ \A i \in 1 .. (Len(s) - 1) : w[i] = IF i < n THEN s[i] ELSE s[i + 1]
  <2>1. \A i \in 1 .. (Len(s) - 1) : (IF i < n THEN i ELSE i + 1) \in 1 .. Len(s)
    BY <1>1
  <2>2. Len(s) - 1 \in Nat
    BY <1>1
  <2> QED
    BY <1>1, <2>1, <2>2
<1> HIDE DEF w
<1>4. NoRepeats(w)
  BY <1>1, <1>3 DEF NoRepeats
<1>5. Occurs(w) = Occurs(s) \ {e}
  <2>1. ASSUME NEW i \in DOMAIN w PROVE w[i] \in Occurs(s) /\ w[i] # e
    BY <1>1, <1>3 DEF Occurs, NoRepeats
  <2>2. ASSUME NEW i \in DOMAIN s, s[i] # e PROVE \E j \in DOMAIN w : w[j] = s[i]
    <3>1. CASE i < n
      BY <1>1, <1>3, <3>1
    <3>2. CASE i > n
      <4>1. i - 1 \in 1 .. (Len(s) - 1) /\ ~ (i - 1 < n) /\ (i - 1) + 1 = i
        BY <1>1, <3>2
      <4> QED
        BY <1>3, <4>1
    <3> QED
      BY <1>1, <2>2, <3>1, <3>2
  <2> QED
    BY <2>1, <2>2 DEF Occurs
<1> QED
  BY <1>2, <1>3, <1>4, <1>5

\* What a frame holds.
LEMMA FrameFields ==
  ASSUME NEW L, NEW f \in FrameSet(L)
  PROVE  /\ f.history \in Seq(L) /\ Valid(f.history)
         /\ f.remaining \in Seq(L) /\ f.untried \in Seq(L)
         /\ f.state = StateAfter(f.history)[Len(f.history)]
         /\ f = FrameOf(f.history, f.remaining, f.untried)
         /\ \A u \in Seq(L) : [f EXCEPT !.untried = u] \in FrameSet(L)
<1>1. PICK h \in Executable(L), r \in Seq(L), u \in Seq(L) : f = FrameOf(h, r, u)
  BY DEF FrameSet
<1>2. f.history = h /\ f.remaining = r /\ f.untried = u /\ f.state = StateAfter(h)[Len(h)]
  BY <1>1 DEF FrameOf
<1>3. ASSUME NEW v \in Seq(L) PROVE [f EXCEPT !.untried = v] \in FrameSet(L)
  <2>1. [f EXCEPT !.untried = v] = FrameOf(h, r, v)
    BY <1>1 DEF FrameOf
  <2> QED
    BY <2>1 DEF FrameSet
<1> QED
  BY <1>1, <1>2, <1>3 DEF Executable
\* The frames when the top one has tried its next event.
TriedOn(F) == [F EXCEPT ![Len(F)].untried = Tail(@)]

\* Trying an event: what was pending is, but for what that event leads to.
LEMMA TryingOne ==
  ASSUME NEW L, NEW F, GoodFrames(L, F), F[Len(F)].untried # << >>
  PROVE  LET n == Len(F)
             e == Head(F[n].untried)
             G == TriedOn(F)
         IN /\ GoodFrames(L, G) /\ Len(G) = n /\ e \in L /\ e \in Occurs(F[n].remaining)
            /\ \A k \in 1 .. n : k # n => G[k] = F[k]
            /\ G[n] = [F[n] EXCEPT !.untried = Tail(F[n].untried)]
            /\ e \in Occurs(F[n].untried) /\ e \notin Occurs(G[n].untried)
            /\ Occurs(F[n].untried) = Occurs(G[n].untried) \cup {e}
<1> DEFINE n == Len(F)
           e == Head(F[n].untried)
           G == TriedOn(F)
<1>1. F \in Seq(FrameSet(L)) /\ n \in Nat /\ n >= 1 /\ n \in 1 .. n /\ F[n] \in FrameSet(L)
  BY DEF GoodFrames
<1>2. /\ F[n].untried \in Seq(L)
      /\ \A u \in Seq(L) : [F[n] EXCEPT !.untried = u] \in FrameSet(L)
  BY <1>1, FrameFields
<1>3. FrameOK(L, F, n)
  BY <1>1 DEF GoodFrames
<1>4. /\ e \in Occurs(F[n].untried) /\ e \in L /\ e \notin Occurs(Tail(F[n].untried))
      /\ Tail(F[n].untried) \in Seq(L) /\ NoRepeats(Tail(F[n].untried))
      /\ Occurs(F[n].untried) = Occurs(Tail(F[n].untried)) \cup {e}
  BY <1>2, <1>3, HeadAndTail DEF FrameOK
<1>5. [F[n] EXCEPT !.untried = Tail(F[n].untried)] \in FrameSet(L)
  BY <1>2, <1>4
<1>6. /\ G \in Seq(FrameSet(L)) /\ Len(G) = n
      /\ \A k \in 1 .. n : k # n => G[k] = F[k]
      /\ G[n] = [F[n] EXCEPT !.untried = Tail(F[n].untried)]
  BY <1>1, <1>5 DEF TriedOn
<1>7. /\ G[n].history = F[n].history /\ G[n].remaining = F[n].remaining
      /\ G[n].untried = Tail(F[n].untried)
  <2>1. F[n] = FrameOf(F[n].history, F[n].remaining, F[n].untried)
    BY <1>1, FrameFields
  <2> QED
    BY <1>6, <2>1 DEF FrameOf
<1> HIDE DEF G
<1>8. \A k \in 1 .. n : G[k].history = F[k].history /\ G[k].remaining = F[k].remaining
  BY <1>6, <1>7
<1>9. FrameOK(L, G, n)
  BY <1>1, <1>3, <1>4, <1>6, <1>7, <1>8 DEF FrameOK
<1>10. ASSUME NEW k \in 1 .. n, k # n PROVE FrameOK(L, G, k)
  <2>1. FrameOK(L, F, k)
    BY DEF GoodFrames
  <2>2. G[k] = F[k] /\ G[n].history = F[n].history
    BY <1>6, <1>7, <1>10
  <2> QED
    BY <1>6, <2>1, <2>2 DEF FrameOK
<1>11. GoodFrames(L, G)
  BY <1>1, <1>6, <1>9, <1>10 DEF GoodFrames
<1>12. e \in Occurs(F[n].remaining)
  BY <1>3, <1>4 DEF FrameOK
<1> QED
  BY <1>4, <1>6, <1>7, <1>11, <1>12 DEF G

\* An event that is not allowed leads to no executable prefix.
LEMMA SkippingKeeps ==
  ASSUME NEW L, NEW F, GoodFrames(L, F), F[Len(F)].untried # << >>,
         ~ Allowed(F[Len(F)].state, Head(F[Len(F)].untried))
  PROVE  GoodFrames(L, TriedOn(F)) /\ Seen(L, TriedOn(F)) = Seen(L, F)
<1> DEFINE n == Len(F)
           e == Head(F[n].untried)
           G == TriedOn(F)
<1>1. /\ GoodFrames(L, G) /\ Len(G) = n
      /\ \A k \in 1 .. n : k # n => G[k] = F[k]
      /\ G[n] = [F[n] EXCEPT !.untried = Tail(F[n].untried)]
      /\ Occurs(F[n].untried) = Occurs(G[n].untried) \cup {e}
  BY TryingOne
<1>2. n \in Nat /\ n >= 1 /\ n \in 1 .. n /\ F[n] \in FrameSet(L) /\ FrameOK(L, F, n)
  BY DEF GoodFrames
<1>3. F[n].history \in Seq(L) /\ F[n].state = StateAfter(F[n].history)[Len(F[n].history)] /\ Len(F[n].history) = n - 1
  BY <1>2, FrameFields DEF FrameOK
<1>4. G[n].history = F[n].history
  <2>1. F[n] = FrameOf(F[n].history, F[n].remaining, F[n].untried)
    BY <1>2, FrameFields
  <2> QED
    BY <1>1, <2>1 DEF FrameOf
<1> HIDE DEF n, e, G
<1>5. ASSUME NEW h \in Executable(L), NEW k \in 1 .. n
      PROVE  PendingAt(G, h, k) <=> PendingAt(F, h, k)
  <2>1. CASE k # n
    BY <1>1, <2>1 DEF PendingAt
  <2>2. CASE k = n
    <3>1. ASSUME n <= Len(h), \A j \in 1 .. (n - 1) : h[j] = F[n].history[j], h[n] = e
          PROVE  FALSE
      <4>1. h \in Seq(L) /\ Valid(h)
        BY DEF Executable
      <4>2. Len(F[n].history) < Len(h) /\ Len(F[n].history) + 1 = n
        BY <1>2, <1>3, <3>1, <4>1
      <4>3. Allowed(StateAfter(F[n].history)[Len(F[n].history)], h[Len(F[n].history) + 1])
        BY <1>3, <3>1, <4>1, <4>2, NextIsAllowed
      <4> QED
        BY <1>3, <3>1, <4>2, <4>3 DEF n, e
    <3> QED
      BY <1>1, <1>4, <2>2, <3>1 DEF PendingAt
  <2> QED
    BY <2>1, <2>2
<1>6. Seen(L, G) = Seen(L, F)
  BY <1>1, <1>5 DEF Seen, n
<1> QED
  BY <1>1, <1>6 DEF G

\* Leaving a frame with nothing left to try.
LEMMA BacktrackingKeeps ==
  ASSUME NEW L, NEW F, GoodFrames(L, F), Len(F) > 1, F[Len(F)].untried = << >>
  PROVE  LET G == SubSeq(F, 1, Len(F) - 1)
         IN  GoodFrames(L, G) /\ Seen(L, G) = Seen(L, F)
<1> DEFINE n == Len(F)
           G == SubSeq(F, 1, n - 1)
<1>1. F \in Seq(FrameSet(L)) /\ n \in Nat /\ n > 1
  BY DEF GoodFrames
<1>2. G \in Seq(FrameSet(L)) /\ Len(G) = n - 1 /\ \A k \in 1 .. (n - 1) : G[k] = F[k]
  BY <1>1
<1>3. Occurs(F[n].untried) = {}
  BY DEF Occurs
<1>4. n \in 1 .. n /\ n - 1 \in 1 .. n /\ n - 1 \in 1 .. (n - 1)
  BY <1>1
<1>5. FrameOK(L, F, n) /\ FrameOK(L, F, n - 1)
  BY <1>4 DEF GoodFrames
<1> HIDE DEF G
<1>6. ASSUME NEW k \in 1 .. (n - 1) PROVE FrameOK(L, G, k)
  <2>1. FrameOK(L, F, k) /\ k \in 1 .. n
    BY <1>1 DEF GoodFrames
  <2>2. \A j \in 1 .. (n - 2) : F[n - 1].history[j] = F[n].history[j]
    BY <1>1, <1>5 DEF FrameOK
  <2>3. \A j \in 1 .. (k - 1) : F[k].history[j] = F[n - 1].history[j]
    BY <1>1, <2>1, <2>2 DEF FrameOK
  <2>4. k < n - 1 => F[n - 1].history[k] \notin Occurs(F[k].untried)
    BY <1>1, <2>1, <2>2 DEF FrameOK
  <2> QED
    BY <1>2, <1>4, <2>1, <2>3, <2>4 DEF FrameOK
<1>7. GoodFrames(L, G)
  BY <1>1, <1>2, <1>6 DEF GoodFrames
<1>8. ASSUME NEW h, NEW k \in 1 .. (n - 1)
      PROVE  PendingAt(G, h, k) <=> PendingAt(F, h, k)
  BY <1>2 DEF PendingAt
<1>9. \A h : ~ PendingAt(F, h, n)
  BY <1>3 DEF PendingAt
<1>10. 1 .. n = (1 .. (n - 1)) \cup {n}
  BY <1>1
<1>11. Seen(L, G) = Seen(L, F)
  BY <1>2, <1>8, <1>9, <1>10 DEF Seen
<1> QED
  BY <1>7, <1>11 DEF G
\* An allowed event: one executable prefix more, which was pending before.
LEMMA ExtendingAdds ==
  ASSUME NEW L, NEW F, GoodFrames(L, F), F[Len(F)].untried # << >>,
         Allowed(F[Len(F)].state, Head(F[Len(F)].untried))
  PROVE  LET n == Len(F)
             e == Head(F[n].untried)
             g == Append(F[n].history, e)
             r == E!Without(F[n].remaining, e)
             G == Append(TriedOn(F), E!Frame(g, After(F[n].state, e), r))
         IN  /\ GoodFrames(L, G) /\ Seen(L, G) = Seen(L, F) \cup {g}
             /\ g \in Executable(L) /\ g \notin Seen(L, F)
<1> DEFINE n == Len(F)
           e == Head(F[n].untried)
           g == Append(F[n].history, e)
           r == E!Without(F[n].remaining, e)
           H == TriedOn(F)
           f == E!Frame(g, After(F[n].state, e), r)
           G == Append(H, f)
<1>1. /\ GoodFrames(L, H) /\ Len(H) = n /\ e \in L /\ e \in Occurs(F[n].remaining)
      /\ \A k \in 1 .. n : k # n => H[k] = F[k]
      /\ H[n] = [F[n] EXCEPT !.untried = Tail(F[n].untried)]
      /\ e \in Occurs(F[n].untried) /\ e \notin Occurs(H[n].untried)
      /\ Occurs(F[n].untried) = Occurs(H[n].untried) \cup {e}
  BY TryingOne
<1>2. n \in Nat /\ n >= 1 /\ n \in 1 .. n /\ F[n] \in FrameSet(L) /\ FrameOK(L, F, n)
  BY DEF GoodFrames
<1>3. /\ F[n].history \in Seq(L) /\ F[n].remaining \in Seq(L) /\ Valid(F[n].history)
      /\ F[n].state = StateAfter(F[n].history)[Len(F[n].history)] /\ Len(F[n].history) = n - 1
      /\ NoRepeats(F[n].remaining) /\ Occurs(F[n].remaining) = L \ Occurs(F[n].history)
  BY <1>2, FrameFields DEF FrameOK
<1>4. H[n].history = F[n].history
  <2>1. F[n] = FrameOf(F[n].history, F[n].remaining, F[n].untried)
    BY <1>2, FrameFields
  <2> QED
    BY <1>1, <2>1 DEF FrameOf
<1>5. /\ g \in Seq(L) /\ Len(g) = n /\ g[n] = e /\ DOMAIN g = 1 .. n
      /\ \A j \in 1 .. (n - 1) : g[j] = F[n].history[j]
  BY <1>1, <1>2, <1>3
<1>6. g \in Executable(L) /\ StateAfter(g)[n] = After(F[n].state, e)
  <2>1. Allowed(StateAfter(F[n].history)[Len(F[n].history)], e)
    BY <1>3
  <2>2. /\ StateAfter(g)[Len(F[n].history) + 1] = After(StateAfter(F[n].history)[Len(F[n].history)], e)
        /\ Valid(g)
    BY <1>1, <1>3, <2>1, OneMore
  <2>3. Len(F[n].history) + 1 = n
    BY <1>2, <1>3
  <2> QED
    BY <1>3, <1>5, <2>2, <2>3 DEF Executable
<1>7. Occurs(g) = Occurs(F[n].history) \cup {e}
  <2>1. DOMAIN F[n].history = 1 .. (n - 1) /\ 1 .. n = (1 .. (n - 1)) \cup {n}
    BY <1>2, <1>3
  <2> QED
    BY <1>5, <2>1 DEF Occurs
<1>8. r \in Seq(L) /\ NoRepeats(r) /\ Occurs(r) = L \ Occurs(g)
  <2>1. r \in Seq(L) /\ NoRepeats(r) /\ Occurs(r) = Occurs(F[n].remaining) \ {e}
    BY <1>1, <1>3, WithoutRemoves
  <2> QED
    BY <1>3, <1>7, <2>1
<1> HIDE DEF r
<1>9. f = FrameOf(g, r, r) /\ f \in FrameSet(L)
  <2>1. f = FrameOf(g, r, r)
    BY <1>5, <1>6 DEF E!Frame, FrameOf
  <2> QED
    BY <1>6, <1>8, <2>1 DEF FrameSet
<1>10. f.history = g /\ f.remaining = r /\ f.untried = r
  BY <1>9 DEF FrameOf
<1> HIDE DEF f, H, g
<1>11. /\ G \in Seq(FrameSet(L)) /\ Len(G) = n + 1 /\ G[n + 1] = f
       /\ \A k \in 1 .. n : G[k] = H[k]
  BY <1>1, <1>2, <1>9 DEF GoodFrames
<1> HIDE DEF G, e, n
<1>12. FrameOK(L, G, n + 1)
  BY <1>2, <1>5, <1>8, <1>10, <1>11 DEF FrameOK
<1>13. ASSUME NEW k \in 1 .. n PROVE FrameOK(L, G, k)
  <2>1. FrameOK(L, H, k)
    BY <1>1 DEF GoodFrames
  <2>2. \A j \in 1 .. (n - 1) : g[j] = H[n].history[j]
    BY <1>4, <1>5
  <2>3. \A j \in 1 .. (k - 1) : H[k].history[j] = g[j]
    BY <1>1, <1>2, <2>1, <2>2 DEF FrameOK
  <2>4. g[k] \notin Occurs(H[k].untried)
    <3>1. CASE k = n
      BY <1>1, <1>5, <3>1
    <3>2. CASE k # n
      <4>1. k < n /\ k \in 1 .. (n - 1)
        BY <1>2, <3>2
      <4> QED
        BY <1>1, <2>1, <2>2, <4>1 DEF FrameOK
    <3> QED
      BY <3>1, <3>2
  <2>5. G[k] = H[k] /\ G[n + 1].history = g /\ Len(G) = n + 1
    BY <1>10, <1>11
  <2> QED
    BY <2>1, <2>3, <2>4, <2>5 DEF FrameOK
<1>14. GoodFrames(L, G)
  <2>1. 1 .. (n + 1) = (1 .. n) \cup {n + 1} /\ n + 1 >= 1
    BY <1>2
  <2> QED
    BY <1>11, <1>12, <1>13, <2>1 DEF GoodFrames
<1>15. g \notin Seen(L, F)
  BY <1>1, <1>2, <1>5 DEF Seen, PendingAt, n
<1>16. \A k \in 1 .. (n + 1) : ~ PendingAt(G, g, k)
  <2> SUFFICES ASSUME NEW k \in 1 .. (n + 1), PendingAt(G, g, k) PROVE FALSE
    OBVIOUS
  <2>1. k \in 1 .. n
    BY <1>2, <1>5 DEF PendingAt
  <2>2. FrameOK(L, G, k) /\ k < Len(G) /\ G[Len(G)].history = g
    BY <1>2, <1>10, <1>11, <1>13, <2>1
  <2> QED
    BY <2>2 DEF FrameOK, PendingAt
<1>17. ASSUME NEW h \in Executable(L), \A k \in 1 .. n : ~ PendingAt(F, h, k)
       PROVE  \A k \in 1 .. (n + 1) : ~ PendingAt(G, h, k)
  <2> SUFFICES ASSUME NEW k \in 1 .. (n + 1), PendingAt(G, h, k) PROVE FALSE
    OBVIOUS
  <2>1. CASE k \in 1 .. n /\ k # n
    <3>1. G[k] = F[k]
      BY <1>1, <1>11, <2>1
    <3> QED
      BY <1>17, <2>1, <3>1 DEF PendingAt
  <2>2. CASE k = n
    <3>1. G[n] = H[n]
      BY <1>2, <1>11
    <3>2. PendingAt(F, h, n)
      BY <1>1, <1>4, <2>2, <3>1 DEF PendingAt
    <3> QED
      BY <1>2, <1>17, <3>2
  <2>3. CASE k = n + 1
    <3>1. h \in Seq(L) /\ Len(h) \in Nat /\ n + 1 <= Len(h) /\ \A j \in 1 .. n : h[j] = g[j]
      BY <1>2, <1>10, <1>11, <2>3 DEF PendingAt, Executable
    <3>2. h[n] = e /\ (\A j \in 1 .. (n - 1) : h[j] = F[n].history[j]) /\ n <= Len(h)
      BY <1>2, <1>5, <3>1
    <3>3. PendingAt(F, h, n)
      BY <1>1, <3>2 DEF PendingAt
    <3> QED
      BY <1>2, <1>17, <3>3
  <2> QED
    BY <1>2, <2>1, <2>2, <2>3
<1>18. ASSUME NEW h \in Executable(L), \A k \in 1 .. (n + 1) : ~ PendingAt(G, h, k), h # g
       PROVE  \A k \in 1 .. n : ~ PendingAt(F, h, k)
  <2> SUFFICES ASSUME NEW k \in 1 .. n, PendingAt(F, h, k) PROVE FALSE
    OBVIOUS
  <2>1. h \in Seq(L) /\ Valid(h) /\ Len(h) \in Nat
    BY DEF Executable
  <2>2. CASE k # n
    <3>1. G[k] = F[k] /\ k \in 1 .. (n + 1)
      BY <1>1, <1>2, <1>11, <2>2
    <3> QED
      BY <1>18, <3>1 DEF PendingAt
  <2>3. CASE k = n
    <3>1. n <= Len(h) /\ (\A j \in 1 .. (n - 1) : h[j] = F[n].history[j]) /\ h[n] \in Occurs(F[n].untried)
      BY <2>3 DEF PendingAt
    <3>2. h[n] = e
      <4>1. ~ PendingAt(G, h, n) /\ G[n] = H[n]
        BY <1>2, <1>11, <1>18
      <4> QED
        BY <1>1, <1>4, <3>1, <4>1 DEF PendingAt
    <3>3. \A j \in 1 .. n : h[j] = g[j]
      BY <1>2, <1>5, <3>1, <3>2
    <3>4. CASE Len(h) = n
      <4>1. h = g
        BY <1>5, <2>1, <3>3, <3>4
      <4> QED
        BY <1>18, <4>1
    <3>5. CASE Len(h) > n
      <4>1. n + 1 \in 1 .. Len(h) /\ h[n + 1] \in L
        BY <1>2, <2>1, <3>5
      <4>2. \A i, j \in 1 .. Len(h) : i # j => h[i] # h[j]
        BY <2>1, ValidIsDistinct
      <4>3. h[n + 1] \notin Occurs(g)
        <5>1. ASSUME NEW j \in 1 .. n PROVE g[j] # h[n + 1]
          <6>1. j \in 1 .. Len(h) /\ j # n + 1
            BY <1>2, <2>1, <3>5
          <6> QED
            BY <3>3, <4>1, <4>2, <6>1
        <5> QED
          BY <1>5, <5>1 DEF Occurs
      <4>4. h[n + 1] \in Occurs(G[n + 1].untried)
        BY <1>8, <1>10, <1>11, <4>1, <4>3
      <4>5. PendingAt(G, h, n + 1)
        <5>1. (n + 1) - 1 = n /\ n + 1 <= Len(h) /\ G[n + 1].history = g
          BY <1>2, <1>10, <1>11, <4>1
        <5> QED
          BY <3>3, <4>4, <5>1 DEF PendingAt
      <4>6. n + 1 \in 1 .. (n + 1)
        BY <1>2
      <4> QED
        BY <1>18, <4>5, <4>6
    <3> QED
      BY <1>2, <2>1, <3>1, <3>4, <3>5
  <2> QED
    BY <2>2, <2>3
<1>19. Seen(L, G) = Seen(L, F) \cup {g}
  BY <1>6, <1>11, <1>16, <1>17, <1>18 DEF Seen, n
<1> QED
  BY <1>6, <1>14, <1>15, <1>19 DEF G, H, f, g, r, e, n
-----------------------------------------------------------------------------
(* The invariant of the search. *)

Listed == Occurs(problem.pool)

\* The search has counted what it has seen and emitted what is compatible, and
\* when it is over nothing is left to try.
SearchInv ==
  result.kind # "unasked" =>
    /\ problem \in Problems
    /\ GoodFrames(Listed, frames)
    /\ IsFiniteSet(Seen(Listed, frames)) /\ visited = Cardinality(Seen(Listed, frames))
    /\ found \in Seq(Executable(Listed))
    /\ Occurs(found) = {h \in Seen(Listed, frames) : Compatible(problem.record, h)}
    /\ Len(found) = Cardinality(Occurs(found))
    /\ result.kind # "searching" => Len(frames) = 1 /\ frames[1].untried = << >>

\* FamilyEnumeration's operators on events and records are ProcessVerdict's.
LEMMA SameOperators ==
  /\ \A s, e : E!Allowed(s, e) <=> Allowed(s, e)
  /\ \A s, e : E!After(s, e) = After(s, e)
  /\ \A h : E!Occurs(h) = Occurs(h) /\ (E!Valid(h) <=> Valid(h))
  /\ \A S : E!Cardinality(S) = Cardinality(S)
  /\ \A r, h : E!Compatible(r, h) <=> Compatible(r, h)
<1>1. \A s, e : E!Allowed(s, e) <=> Allowed(s, e)
  BY DEF E!Allowed, Allowed
<1>2. \A s, e : E!After(s, e) = After(s, e)
  BY DEF E!After, After
<1>3. \A h : E!Occurs(h) = Occurs(h)
  BY DEF E!Occurs, Occurs
<1>4. \A S : E!Cardinality(S) = Cardinality(S)
  BY DEF E!Cardinality, Cardinality
<1>5. \A h : E!Valid(h) <=> Valid(h)
  BY DEF E!Valid, Valid, E!StateAfter, StateAfter, E!Allowed, Allowed,
         E!After, After, E!InitialState, InitialState
<1>6. \A r, h : E!OrderCompatible(r, h) <=> OrderCompatible(r, h)
  <2>1. \A h, a, b : E!Precedes(h, a, b) <=> Precedes(h, a, b)
    BY DEF E!Precedes, Precedes, E!Position, Position
  <2> QED
    BY <1>3, <1>5, <2>1 DEF E!OrderCompatible, OrderCompatible
<1>7. \A c, h, S : E!CoverageAllowed(c, h, S) <=> CoverageAllowed(c, h, S)
  <2>1. \A e : /\ E!EventActor(e) = EventActor(e) /\ E!EventFamily(e) = EventFamily(e)
              /\ E!EventData(e) = EventData(e)
    BY DEF E!EventActor, EventActor, E!EventData, EventData, E!InputData, InputData, E!EventFamily, EventFamily
  <2>2. \A scope, n, e : E!ScopeContains(scope, n, e) <=> ScopeContains(scope, n, e)
    BY <2>1 DEF E!ScopeContains, ScopeContains
  <2>3. \A scope, h : E!ScopeIndices(scope, h) = ScopeIndices(scope, h)
    BY <2>2 DEF E!ScopeIndices, ScopeIndices
  <2> QED
    BY <1>4, <2>3 DEF E!CoverageAllowed, CoverageAllowed
<1>8. \A r, h : E!Compatible(r, h) <=> Compatible(r, h)
  BY <1>3, <1>4, <1>6, <1>7 DEF E!Compatible, Compatible
<1> QED
  BY <1>1, <1>2, <1>3, <1>4, <1>5, <1>8

\* The reference carriers.
LEMMA SameCarriers ==
  ASSUME NEW p
  PROVE  /\ E!Completions(p) = Completions(p)
         /\ E!Prefixes(p) =
              {h \in UNION {Orders(events) : events \in SUBSET Occurs(p.pool)} : Valid(h)}
<1>1. \A S : E!Orders(S) = Orders(S)
  BY SameOperators DEF E!Orders, Orders
<1>2. E!Completions(p) = Completions(p)
  BY <1>1, SameOperators DEF E!Completions, Completions
<1> QED
  BY <1>1, <1>2, SameOperators DEF E!Prefixes

\* A history that repeats nothing is an order of its events.
LEMMA OrderOfItself ==
  ASSUME NEW S, NEW h \in Seq(S), Cardinality(Occurs(h)) = Len(h)
  PROVE  Occurs(h) \subseteq S /\ h \in Orders(Occurs(h))
<1>1. DOMAIN h = 1 .. Len(h) /\ \A n \in DOMAIN h : h[n] \in S
  OBVIOUS
<1>2. h \in [1 .. Len(h) -> Occurs(h)]
  BY OntoMembers
<1>3. Occurs(h) \subseteq S
  BY <1>1 DEF Occurs
<1> QED
  BY <1>2, <1>3 DEF Orders

\* An order of events is a history of them.
LEMMA OrdersAreSequences ==
  ASSUME NEW S, IsFiniteSet(S), NEW h \in Orders(S)
  PROVE  h \in Seq(S) /\ Len(h) = Cardinality(S) /\ Occurs(h) = S
<1>1. Cardinality(S) \in Nat
  BY FS_CardinalityType
<1> QED
  BY <1>1 DEF Orders
\* The reference prefixes of a problem are its executable histories.
LEMMA PrefixesAreExecutable ==
  ASSUME NEW p \in Problems
  PROVE  E!Prefixes(p) = Executable(Occurs(p.pool)) /\ IsFiniteSet(Occurs(p.pool))
<1> DEFINE L == Occurs(p.pool)
<1>1. p.pool \in Seq(Event)
  BY EnumerationAssumption
<1>2. IsFiniteSet(L)
  <2>1. Len(p.pool) \in Nat /\ p.pool \in Surjection(1 .. Len(p.pool), L)
    BY <1>1, OntoMembers
  <2>2. IsFiniteSet(1 .. Len(p.pool))
    BY <2>1, FS_Interval
  <2> QED
    BY <2>1, <2>2, FS_Surjection
<1>3. ASSUME NEW events \in SUBSET L, NEW h \in Orders(events)
      PROVE  h \in Seq(L)
  <2>1. IsFiniteSet(events)
    BY <1>2, FS_Subset
  <2>2. h \in Seq(events)
    BY <2>1, OrdersAreSequences
  <2> QED
    BY <2>2
<1>4. ASSUME NEW h \in Executable(L)
      PROVE  Occurs(h) \in SUBSET L /\ h \in Orders(Occurs(h))
  <2>1. h \in Seq(L) /\ Valid(h)
    BY DEF Executable
  <2>2. Cardinality(Occurs(h)) = Len(h)
    BY <2>1, ValidIsDistinct, DistinctCount
  <2> QED
    BY <2>1, <2>2, OrderOfItself
<1>5. E!Prefixes(p) = {h \in UNION {Orders(events) : events \in SUBSET L} : Valid(h)}
  BY SameCarriers
<1> HIDE DEF L
<1>6. E!Prefixes(p) \subseteq Executable(L)
  BY <1>3, <1>5 DEF Executable
<1>7. Executable(L) \subseteq E!Prefixes(p)
  <2> SUFFICES ASSUME NEW h \in Executable(L) PROVE h \in E!Prefixes(p)
    OBVIOUS
  <2>1. Orders(Occurs(h)) \in {Orders(events) : events \in SUBSET L} /\ Valid(h)
    BY <1>4 DEF Executable
  <2> QED
    BY <1>4, <1>5, <2>1
<1> QED
  BY <1>2, <1>6, <1>7 DEF L

\* Its completions are the executable histories that are compatible.
LEMMA CompletionsAreCompatible ==
  ASSUME NEW p \in Problems
  PROVE  Completions(p) = {h \in Executable(Occurs(p.pool)) : Compatible(p.record, h)}
<1> DEFINE L == Occurs(p.pool)
           Carrier == UNION {Orders(p.record.events \cup extra) : extra \in SUBSET p.unrecorded}
<1>1. L = p.record.events \cup p.unrecorded /\ IsFiniteSet(L)
  BY EnumerationAssumption, PrefixesAreExecutable
<1> HIDE DEF L
<1>2. ASSUME NEW h \in Carrier, Compatible(p.record, h) PROVE h \in Executable(L)
  <2>1. PICK extra \in SUBSET p.unrecorded : h \in Orders(p.record.events \cup extra)
    OBVIOUS
  <2>2. p.record.events \cup extra \in SUBSET L
    BY <1>1
  <2>3. IsFiniteSet(p.record.events \cup extra)
    BY <1>1, <2>2, FS_Subset
  <2>4. h \in Seq(p.record.events \cup extra)
    BY <2>1, <2>3, OrdersAreSequences
  <2>5. h \in Seq(L)
    BY <2>2, <2>4
  <2> QED
    BY <1>2, <2>5 DEF Executable, Compatible, OrderCompatible
<1>3. ASSUME NEW h \in Executable(L), Compatible(p.record, h) PROVE h \in Carrier
  <2>1. h \in Seq(L) /\ Cardinality(Occurs(h)) = Len(h) /\ p.record.events \subseteq Occurs(h)
    BY <1>3 DEF Executable, Compatible, OrderCompatible
  <2>2. Occurs(h) \subseteq L /\ h \in Orders(Occurs(h))
    BY <2>1, OrderOfItself
  <2>3. Occurs(h) = p.record.events \cup (Occurs(h) \cap p.unrecorded)
    BY <1>1, <2>1, <2>2
  <2>4. Occurs(h) \cap p.unrecorded \in SUBSET p.unrecorded
    OBVIOUS
  <2> QED
    BY <2>2, <2>3, <2>4
<1>4. Completions(p) = {h \in Carrier : Compatible(p.record, h)}
  BY DEF Completions
<1> HIDE DEF Carrier
<1> QED
  BY <1>2, <1>3, <1>4 DEF L

\* The root's frame: only the empty history has been seen.
LEMMA RootFrame ==
  ASSUME NEW p \in Problems
  PROVE  LET L == Occurs(p.pool)
             F == <<E!Frame(<< >>, InitialState, p.pool)>>
         IN  GoodFrames(L, F) /\ Seen(L, F) = {<< >>}
<1> DEFINE L == Occurs(p.pool)
           F == <<E!Frame(<< >>, InitialState, p.pool)>>
           n == Len(p.pool)
<1>1. p.pool \in Seq(Event) /\ n = Cardinality(L)
  BY EnumerationAssumption
<1>2. n \in Nat /\ DOMAIN p.pool = 1 .. n /\ p.pool \in Seq(L)
  <2>1. n \in Nat /\ DOMAIN p.pool = 1 .. n
    BY <1>1
  <2>2. \A i \in 1 .. n : p.pool[i] \in L
    BY <2>1 DEF Occurs
  <2> QED
    BY <1>1, <2>1, <2>2
<1>3. NoRepeats(p.pool)
  <2>1. p.pool \in Surjection(1 .. n, L)
    BY <1>1, OntoMembers
  <2>2. IsFiniteSet(1 .. n) /\ Cardinality(1 .. n) = n
    BY <1>2, FS_Interval
  <2>3. p.pool \in Injection(1 .. n, L)
    BY <1>1, <2>1, <2>2, FS_SurjSameCardinalityImpliesInj
  <2> QED
    BY <1>2, <2>3 DEF Injection, IsInjective, NoRepeats
<1>4. << >> \in Executable(L)
  BY DEF Executable, Valid
<1>5. F = <<FrameOf(<< >>, p.pool, p.pool)>>
  <2>1. Len(<< >>) = 0 /\ << >> \in Seq(L)
    OBVIOUS
  <2>2. StateAfter(<< >>)[0] = InitialState
    BY <2>1, StateAfterSteps
  <2> QED
    BY <2>1, <2>2 DEF E!Frame, FrameOf
<1>6. FrameOf(<< >>, p.pool, p.pool) \in FrameSet(L)
  BY <1>2, <1>4 DEF FrameSet
<1>7. /\ F \in Seq(FrameSet(L)) /\ Len(F) = 1 /\ F[1].history = << >>
      /\ F[1].remaining = p.pool /\ F[1].untried = p.pool
  BY <1>5, <1>6 DEF FrameOf
<1> HIDE DEF F
<1>8. Occurs(<< >>) = {} /\ Occurs(p.pool) = L
  BY DEF Occurs
<1>9. GoodFrames(L, F)
  <2>1. FrameOK(L, F, 1)
    BY <1>3, <1>7, <1>8 DEF FrameOK
  <2>2. 1 .. 1 = {1}
    OBVIOUS
  <2> QED
    BY <1>7, <2>1, <2>2 DEF GoodFrames
<1>10. << >> \in Seen(L, F)
  BY <1>4, <1>7 DEF Seen, PendingAt
<1>11. ASSUME NEW h \in Seen(L, F) PROVE h = << >>
  <2>1. h \in Seq(L) /\ ~ PendingAt(F, h, 1)
    BY <1>7 DEF Seen, Executable
  <2>2. Len(h) >= 1 => h[1] \in Occurs(F[1].untried)
    BY <1>7, <2>1
  <2>3. \A j \in 1 .. (1 - 1) : h[j] = F[1].history[j]
    OBVIOUS
  <2>4. ~ (1 <= Len(h))
    BY <2>1, <2>2, <2>3 DEF PendingAt
  <2> QED
    BY <2>1, <2>4
<1> QED
  BY <1>9, <1>10, <1>11 DEF F, L

\* With one frame and nothing left to try, all that is executable has been seen.
LEMMA AllSeen ==
  ASSUME NEW L, NEW F, Len(F) = 1, F[1].untried = << >>
  PROVE  Seen(L, F) = Executable(L)
<1>1. Occurs(F[1].untried) = {}
  BY DEF Occurs
<1> QED
  BY <1>1 DEF Seen, PendingAt
\* The members of a sequence with one more.
LEMMA OneMember ==
  ASSUME NEW S, NEW s \in Seq(S), NEW h \in S
  PROVE  /\ s \o <<h>> \in Seq(S) /\ Len(s \o <<h>>) = Len(s) + 1
         /\ Occurs(s \o <<h>>) = Occurs(s) \cup {h}
<1> DEFINE t == s \o <<h>>
<1>1. /\ t \in Seq(S) /\ Len(s) \in Nat /\ Len(t) = Len(s) + 1
      /\ DOMAIN s = 1 .. Len(s) /\ DOMAIN t = 1 .. (Len(s) + 1)
      /\ t[Len(s) + 1] = h /\ \A i \in 1 .. Len(s) : t[i] = s[i]
  OBVIOUS
<1> HIDE DEF t
<1>2. \A i \in DOMAIN t : i \in DOMAIN s \/ i = Len(s) + 1
  BY <1>1
<1>3. Occurs(t) = Occurs(s) \cup {h}
  <2>1. Occurs(t) \subseteq Occurs(s) \cup {h}
    BY <1>1, <1>2 DEF Occurs
  <2>2. h \in Occurs(t)
    BY <1>1 DEF Occurs
  <2>3. Occurs(s) \subseteq Occurs(t)
    BY <1>1 DEF Occurs
  <2> QED
    BY <2>1, <2>2, <2>3
<1> QED
  BY <1>1, <1>3 DEF t

\* An emission is a new member of what was found, or nothing.
LEMMA EmitAdds ==
  ASSUME NEW S, NEW s \in Seq(S), NEW h \in S, h \notin Occurs(s), IsFiniteSet(Occurs(s)),
         Len(s) = Cardinality(Occurs(s)), NEW r
  PROVE  LET t == s \o (IF Compatible(r, h) THEN <<h>> ELSE << >>)
         IN  /\ t \in Seq(S) /\ Len(t) = Cardinality(Occurs(t))
             /\ Occurs(t) = Occurs(s) \cup (IF Compatible(r, h) THEN {h} ELSE {})
<1>1. CASE Compatible(r, h)
  <2>1. Cardinality(Occurs(s) \cup {h}) = Cardinality(Occurs(s)) + 1
    BY FS_AddElement
  <2>2. /\ s \o <<h>> \in Seq(S) /\ Len(s \o <<h>>) = Len(s) + 1
        /\ Occurs(s \o <<h>>) = Occurs(s) \cup {h}
    BY OneMember
  <2>3. (IF Compatible(r, h) THEN <<h>> ELSE << >>) = <<h>>
    BY <1>1
  <2> QED
    BY <1>1, <2>1, <2>2, <2>3
<1>2. CASE ~ Compatible(r, h)
  <2>1. s \o << >> = s
    OBVIOUS
  <2> QED
    BY <1>2, <2>1
<1> QED
  BY <1>1, <1>2

\* A submission starts the search at the root.
LEMMA SubmitSearchInv == Submit => SearchInv'
<1> SUFFICES ASSUME Submit PROVE SearchInv'
  OBVIOUS
<1>1. PICK p \in Problems :
        /\ problem' = p /\ frames' = <<E!Frame(<< >>, InitialState, p.pool)>>
        /\ visited' = 1 /\ found' = E!Emit(p, << >>) /\ result' = [kind |-> "searching"]
  BY DEF Submit
<1> DEFINE L == Occurs(p.pool)
<1>2. GoodFrames(L, frames') /\ Seen(L, frames') = {<< >>}
  BY <1>1, RootFrame
<1>3. IsFiniteSet({<< >>}) /\ Cardinality({<< >>}) = 1
  BY FS_Singleton
<1>4. << >> \in Executable(L)
  BY <1>2 DEF Seen
<1>5. /\ found' \in Seq(Executable(L)) /\ Len(found') = Cardinality(Occurs(found'))
      /\ Occurs(found') = {} \cup (IF Compatible(p.record, << >>) THEN {<< >>} ELSE {})
  <2>1. Occurs(<< >>) = {} /\ << >> \in Seq(Executable(L)) /\ Len(<< >>) = 0
    BY DEF Occurs
  <2>2. IsFiniteSet(Occurs(<< >>)) /\ Cardinality(Occurs(<< >>)) = 0
    BY <2>1, FS_EmptySet
  <2>3. found' = << >> \o (IF Compatible(p.record, << >>) THEN << << >> >> ELSE << >>)
    BY <1>1, SameOperators DEF E!Emit
  <2>4. << >> \notin Occurs(<< >>)
    BY <2>1
  <2> HIDE DEF L
  <2> QED
    BY <1>4, <2>1, <2>2, <2>3, <2>4, EmitAdds
<1>6. Occurs(found') = {h \in Seen(L, frames') : Compatible(p.record, h)}
  BY <1>2, <1>5
<1>7. Listed' = L /\ result'.kind = "searching"
  BY <1>1 DEF Listed
<1> QED
  BY <1>1, <1>2, <1>3, <1>5, <1>6, <1>7 DEF SearchInv

\* A step that extends the prefix.
LEMMA ExtendSearchInv ==
  ASSUME SearchInv, result.kind = "searching", E!Extend
  PROVE  SearchInv'
<1> DEFINE n == Len(frames)
           e == Head(frames[n].untried)
           g == Append(frames[n].history, e)
<1>1. /\ problem \in Problems /\ GoodFrames(Listed, frames)
      /\ IsFiniteSet(Seen(Listed, frames)) /\ visited = Cardinality(Seen(Listed, frames))
      /\ found \in Seq(Executable(Listed))
      /\ Occurs(found) = {h \in Seen(Listed, frames) : Compatible(problem.record, h)}
      /\ Len(found) = Cardinality(Occurs(found))
  BY DEF SearchInv
<1>2. /\ frames[n].untried # << >> /\ Allowed(frames[n].state, e)
      /\ frames' = Append(TriedOn(frames),
                          E!Frame(g, After(frames[n].state, e), E!Without(frames[n].remaining, e)))
      /\ found' = found \o (IF Compatible(problem.record, g) THEN <<g>> ELSE << >>)
      /\ visited' = visited + 1 /\ problem' = problem /\ result' = result
  BY SameOperators DEF E!Extend, E!Top, E!Tried, E!MayExtend, E!Emit, TriedOn
<1>3. Listed' = Listed
  BY <1>2 DEF Listed
<1>4. /\ GoodFrames(Listed, frames') /\ Seen(Listed, frames') = Seen(Listed, frames) \cup {g}
      /\ g \in Executable(Listed) /\ g \notin Seen(Listed, frames)
  BY <1>1, <1>2, ExtendingAdds
<1> HIDE DEF g
<1>5. /\ IsFiniteSet(Seen(Listed, frames'))
      /\ Cardinality(Seen(Listed, frames')) = Cardinality(Seen(Listed, frames)) + 1
  BY <1>1, <1>4, FS_AddElement
<1>6. IsFiniteSet(Occurs(found)) /\ g \notin Occurs(found)
  BY <1>1, <1>4, FS_Subset
<1>7. /\ found' \in Seq(Executable(Listed)) /\ Len(found') = Cardinality(Occurs(found'))
      /\ Occurs(found') = Occurs(found) \cup (IF Compatible(problem.record, g) THEN {g} ELSE {})
  BY <1>1, <1>2, <1>4, <1>6, EmitAdds
<1>8. Occurs(found') = {h \in Seen(Listed, frames') : Compatible(problem.record, h)}
  BY <1>1, <1>4, <1>7
<1> QED
  BY <1>1, <1>2, <1>3, <1>4, <1>5, <1>7, <1>8 DEF SearchInv

\* A step that leaves what was seen as it was.
LEMMA QuietSearchInv ==
  ASSUME SearchInv, result.kind = "searching",
         GoodFrames(Listed, frames'), Seen(Listed, frames') = Seen(Listed, frames),
         UNCHANGED <<problem, visited, found, result>>
  PROVE  SearchInv'
<1>1. Listed' = Listed
  BY DEF Listed
<1> QED
  BY <1>1 DEF SearchInv

\* The search keeps its invariant.
LEMMA SearchSearchInv == SearchInv /\ Search => SearchInv'
<1> SUFFICES ASSUME SearchInv, Search PROVE SearchInv'
  OBVIOUS
<1>1. result.kind = "searching" /\ GoodFrames(Listed, frames) /\ E!Next
  BY DEF Search, SearchInv
<1>2. CASE E!Extend
  BY <1>1, <1>2, ExtendSearchInv
<1>3. CASE E!Skip
  <2>1. /\ frames[Len(frames)].untried # << >>
        /\ ~ Allowed(frames[Len(frames)].state, Head(frames[Len(frames)].untried))
        /\ frames' = TriedOn(frames) /\ UNCHANGED <<problem, visited, found, result>>
    BY <1>3, SameOperators DEF E!Skip, E!Top, E!Tried, E!MayExtend, TriedOn
  <2>2. GoodFrames(Listed, frames') /\ Seen(Listed, frames') = Seen(Listed, frames)
    BY <1>1, <2>1, SkippingKeeps
  <2> QED
    BY <1>1, <2>1, <2>2, QuietSearchInv
<1>4. CASE E!Backtrack
  <2>1. /\ Len(frames) > 1 /\ frames[Len(frames)].untried = << >>
        /\ frames' = SubSeq(frames, 1, Len(frames) - 1) /\ UNCHANGED <<problem, visited, found, result>>
    BY <1>4 DEF E!Backtrack, E!Top
  <2>2. GoodFrames(Listed, frames') /\ Seen(Listed, frames') = Seen(Listed, frames)
    BY <1>1, <2>1, BacktrackingKeeps
  <2> QED
    BY <1>1, <2>1, <2>2, QuietSearchInv
<1>5. CASE E!Enumerate
  <2>1. /\ Len(frames) = 1 /\ frames[1].untried = << >>
        /\ UNCHANGED <<problem, frames, visited, found>>
    BY <1>5 DEF E!Enumerate, E!Top
  <2>2. Listed' = Listed
    BY <2>1 DEF Listed
  <2> QED
    BY <1>1, <2>1, <2>2 DEF SearchInv
<1> QED
  BY <1>1, <1>2, <1>3, <1>4, <1>5 DEF E!Next

\* What the search has seen, in every reachable state.
THEOREM SearchInvariant == InquirySpec => []SearchInv
<1>1. Start => SearchInv
  BY DEF Start, SearchInv
<1>2. SearchInv /\ [Inquire]_<<vars, search>> => SearchInv'
  <2> SUFFICES ASSUME SearchInv, [Inquire]_<<vars, search>> PROVE SearchInv'
    OBVIOUS
  <2>1. CASE Happens
    BY <2>1 DEF Happens, search, SearchInv
  <2>2. CASE Submit
    BY <2>2, SubmitSearchInv
  <2>3. CASE Search
    BY <2>3, SearchSearchInv
  <2>4. CASE UNCHANGED <<vars, search>>
    BY <2>4 DEF search, SearchInv, Listed
  <2> QED
    BY <2>1, <2>2, <2>3, <2>4 DEF Inquire
<1> QED
  BY <1>1, <1>2, PTL DEF InquirySpec

\* For every set of problems: a search that is over has emitted each completion
\* once, and charged one step for each executable prefix.
THEOREM SearchesAreExact == InquirySpec => []SearchIsExact
<1>1. SearchInv => SearchIsExact
  <2> SUFFICES ASSUME SearchInv, result.kind \notin {"unasked", "searching"}
               PROVE  /\ E!Occurs(found) = E!Completions(problem)
                      /\ Len(found) = E!Cardinality(E!Occurs(found))
                      /\ visited = E!Cardinality(E!Prefixes(problem))
    BY DEF SearchIsExact, E!SearchIsExact
  <2>1. /\ problem \in Problems /\ visited = Cardinality(Seen(Listed, frames))
        /\ Occurs(found) = {h \in Seen(Listed, frames) : Compatible(problem.record, h)}
        /\ Len(found) = Cardinality(Occurs(found))
        /\ Len(frames) = 1 /\ frames[1].untried = << >>
    BY DEF SearchInv
  <2>2. Seen(Listed, frames) = Executable(Listed)
    BY <2>1, AllSeen
  <2>3. /\ E!Prefixes(problem) = Executable(Listed)
        /\ Completions(problem) = {h \in Executable(Listed) : Compatible(problem.record, h)}
    BY <2>1, PrefixesAreExecutable, CompletionsAreCompatible DEF Listed
  <2> QED
    BY <2>1, <2>2, <2>3, SameOperators, SameCarriers
<1> QED
  BY <1>1, SearchInvariant, PTL

\* For every set of problems and queries: a certain answer to a faithful record is
\* true of what happened, no such record is inconsistent, and a family enumerated
\* within its limits contains what happened.
THEOREM CertaintyIsTrue == InquirySpec => []CertainIsTrue
<1>1. ReadOff /\ SearchInv /\ SearchIsExact => CertainIsTrue
  <2> SUFFICES ASSUME ReadOff, SearchInv, SearchIsExact,
                      result.kind \notin {"unasked", "searching"}, Faithful(problem)
               PROVE  /\ \A q \in Queries :
                           LET verdict == ListVerdict(Completions(problem), q)
                           IN /\ verdict # "inconsistent"
                              /\ verdict = "certainTrue" => GuardHolds(q, history)
                              /\ verdict = "certainFalse" => ~ GuardHolds(q, history)
                      /\ result.kind = "enumerated" => history \in Occurs(found)
    BY DEF CertainIsTrue
  <2>1. problem \in Problems /\ history \in Seq(Pool)
    BY DEF SearchInv, ReadOff, TypeOK
  <2>2. history \in Executable(Listed)
    <3>1. Occurs(history) \subseteq Listed /\ Valid(history)
      BY DEF Faithful, Listed, Compatible, OrderCompatible
    <3>2. \A i \in 1 .. Len(history) : history[i] \in Listed
      BY <2>1, <3>1 DEF Occurs
    <3> HIDE DEF Listed
    <3> QED
      BY <2>1, <3>1, <3>2 DEF Executable
  <2>3. history \in Completions(problem)
    BY <2>1, <2>2, CompletionsAreCompatible DEF Faithful, Listed
  <2>4. Occurs(found) = Completions(problem)
    BY SameOperators, SameCarriers DEF SearchIsExact, E!SearchIsExact
  <2>5. ASSUME NEW q \in Queries
        PROVE  LET verdict == ListVerdict(Completions(problem), q)
               IN /\ verdict # "inconsistent"
                  /\ verdict = "certainTrue" => GuardHolds(q, history)
                  /\ verdict = "certainFalse" => ~ GuardHolds(q, history)
    BY <2>3 DEF ListVerdict
  <2> QED
    BY <2>3, <2>4, <2>5
<1> QED
  BY <1>1, InquiryIsProcess, InductiveInvariant, SearchInvariant, SearchesAreExact, PTL
-----------------------------------------------------------------------------
(* Choosing one member of each of the sets C[n], ..., C[m]. *)

\* The choices from n to m.
Chosen(C, n, m) == {f \in [n .. m -> UNION {C[k] : k \in n .. m}] : \A k \in n .. m : f[k] \in C[k]}

\* The choices that stop somewhere, with n in them, and these and the empty one.
StoppedFrom(C, n, L) == UNION {Chosen(C, n, m) : m \in n .. L}
Stopped(C, n, L) == {[k \in {} |-> 0]} \cup StoppedFrom(C, n, L)

\* A one-to-one correspondence counts.
LEMMA Corresponds ==
  ASSUME NEW S, NEW T, IsFiniteSet(T), NEW g \in [S -> T],
         \A x, y \in S : g[x] = g[y] => x = y,
         \A t \in T : \E x \in S : g[x] = t
  PROVE  IsFiniteSet(S) /\ Cardinality(S) = Cardinality(T)
<1>1. g \in Injection(S, T)
  BY DEF Injection, IsInjective
<1>2. g \in Surjection(S, T)
  BY DEF Surjection
<1> QED
  BY <1>1, <1>2, FS_Injection

\* What it is to be one.
IsChoice(C, n, m, f) == f = [k \in n .. m |-> f[k]] /\ \A k \in n .. m : f[k] \in C[k]

\* Membership, with the range left out.
LEMMA ChosenMembers ==
  ASSUME NEW C, NEW n \in Int, NEW m \in Int, NEW f
  PROVE  f \in Chosen(C, n, m) <=> IsChoice(C, n, m, f)
<1>1. ASSUME f \in Chosen(C, n, m) PROVE f = [k \in n .. m |-> f[k]] /\ \A k \in n .. m : f[k] \in C[k]
  BY <1>1 DEF Chosen
<1>2. ASSUME f = [k \in n .. m |-> f[k]], \A k \in n .. m : f[k] \in C[k]
      PROVE  f \in Chosen(C, n, m)
  <2>1. \A k \in n .. m : f[k] \in UNION {C[j] : j \in n .. m}
    BY <1>2
  <2>2. f \in [n .. m -> UNION {C[j] : j \in n .. m}]
    BY <1>2, <2>1
  <2> QED
    BY <1>2, <2>2 DEF Chosen
<1> QED
  BY <1>1, <1>2 DEF IsChoice

\* Nothing is left to choose.
LEMMA NothingChosen ==
  ASSUME NEW C, NEW n \in Int, NEW m \in Int, m < n
  PROVE  Chosen(C, n, m) = {[k \in {} |-> 0]} /\ StoppedFrom(C, n, m) = {}
<1>1. n .. m = {}
  OBVIOUS
<1>2. Chosen(C, n, m) = {[k \in {} |-> 0]}
  <2>1. \A f : f \in Chosen(C, n, m) <=> f = [k \in n .. m |-> f[k]]
    BY <1>1, ChosenMembers DEF IsChoice
  <2>2. \A f : [k \in {} |-> f[k]] = [k \in {} |-> 0]
    OBVIOUS
  <2>3. \A f : f \in Chosen(C, n, m) <=> f = [k \in {} |-> 0]
    BY <1>1, <2>1, <2>2
  <2> QED
    BY <2>3
<1> QED
  BY <1>1, <1>2 DEF StoppedFrom

\* What f chooses after n.
Others(f, n, m) == [k \in (n + 1) .. m |-> f[k]]

\* A choice from n on is a choice at n and a choice after n.
LEMMA ChosenSplits ==
  ASSUME NEW C, NEW n \in Int, NEW m \in Int, n <= m
  PROVE  /\ \A f \in Chosen(C, n, m) : f[n] \in C[n] /\ Others(f, n, m) \in Chosen(C, n + 1, m)
         /\ \A f, g \in Chosen(C, n, m) : f[n] = g[n] /\ Others(f, n, m) = Others(g, n, m) => f = g
         /\ \A c \in C[n], g \in Chosen(C, n + 1, m) :
              \E f \in Chosen(C, n, m) : f[n] = c /\ Others(f, n, m) = g
<1>0. n \in n .. m /\ \A k \in n .. m : k = n \/ k \in (n + 1) .. m
  OBVIOUS
<1>00. \A k \in (n + 1) .. m : k \in n .. m /\ k # n
  OBVIOUS
<1>1. ASSUME NEW f \in Chosen(C, n, m)
      PROVE  f[n] \in C[n] /\ Others(f, n, m) \in Chosen(C, n + 1, m)
  <2>1. \A k \in n .. m : f[k] \in C[k]
    BY DEF Chosen
  <2>2. \A k \in (n + 1) .. m : Others(f, n, m)[k] = f[k] /\ f[k] \in C[k]
    BY <1>00, <2>1 DEF Others
  <2>3. Others(f, n, m) = [k \in (n + 1) .. m |-> Others(f, n, m)[k]]
    BY DEF Others
  <2>4. Others(f, n, m) \in Chosen(C, n + 1, m)
    <3> DEFINE o == Others(f, n, m)
    <3>1. IsChoice(C, n + 1, m, o)
      BY <2>2, <2>3 DEF IsChoice
    <3> HIDE DEF o
    <3>2. o \in Chosen(C, n + 1, m)
      BY <3>1, ChosenMembers
    <3> QED
      BY <3>2 DEF o
  <2> QED
    BY <1>0, <2>1, <2>4
<1>2. ASSUME NEW f \in Chosen(C, n, m), NEW g \in Chosen(C, n, m),
             f[n] = g[n], Others(f, n, m) = Others(g, n, m)
      PROVE  f = g
  <2>1. \A k \in (n + 1) .. m : f[k] = g[k]
    <3>1. \A k \in (n + 1) .. m : Others(f, n, m)[k] = f[k] /\ Others(g, n, m)[k] = g[k]
      BY DEF Others
    <3> QED
      BY <1>2, <3>1
  <2>2. \A k \in n .. m : f[k] = g[k]
    BY <1>0, <1>2, <2>1
  <2>3. f = [k \in n .. m |-> f[k]] /\ g = [k \in n .. m |-> g[k]]
    <3>1. IsChoice(C, n, m, f) /\ IsChoice(C, n, m, g)
      BY ChosenMembers
    <3> QED
      BY <3>1 DEF IsChoice
  <2> QED
    BY <2>2, <2>3
<1>3. ASSUME NEW c \in C[n], NEW g \in Chosen(C, n + 1, m)
      PROVE  \E f \in Chosen(C, n, m) : f[n] = c /\ Others(f, n, m) = g
  <2> DEFINE f == [k \in n .. m |-> IF k = n THEN c ELSE g[k]]
  <2>1. g = [k \in (n + 1) .. m |-> g[k]] /\ \A k \in (n + 1) .. m : g[k] \in C[k]
    <3>1. IsChoice(C, n + 1, m, g)
      BY ChosenMembers
    <3> QED
      BY <3>1 DEF IsChoice
  <2>2. f[n] = c /\ \A k \in (n + 1) .. m : f[k] = g[k]
    BY <1>0, <1>00
  <2>3. f = [k \in n .. m |-> f[k]]
    OBVIOUS
  <2> HIDE DEF f
  <2>4. \A k \in n .. m : f[k] \in C[k]
    BY <1>0, <2>1, <2>2
  <2>5. f \in Chosen(C, n, m)
    <3>1. IsChoice(C, n, m, f)
      BY <2>3, <2>4 DEF IsChoice
    <3> QED
      BY <3>1, ChosenMembers
  <2>6. Others(f, n, m) = g
    BY <2>1, <2>2 DEF Others
  <2> QED
    BY <2>2, <2>5, <2>6
<1> QED
  BY <1>1, <1>2, <1>3

\* How many choices there are from n on, and how many that stop somewhere.
LEMMA ChosenCount ==
  ASSUME NEW C, NEW n \in Int, NEW L \in Int, n <= L, IsFiniteSet(C[n]),
         IsFiniteSet(Chosen(C, n + 1, L)), IsFiniteSet(Stopped(C, n + 1, L))
  PROVE  /\ IsFiniteSet(Chosen(C, n, L)) /\ IsFiniteSet(StoppedFrom(C, n, L))
         /\ Cardinality(Chosen(C, n, L)) = Cardinality(C[n]) * Cardinality(Chosen(C, n + 1, L))
         /\ Cardinality(StoppedFrom(C, n, L)) = Cardinality(C[n]) * Cardinality(Stopped(C, n + 1, L))
<1>1. /\ IsFiniteSet(Chosen(C, n, L))
      /\ Cardinality(Chosen(C, n, L)) = Cardinality(C[n]) * Cardinality(Chosen(C, n + 1, L))
  <2> DEFINE S == Chosen(C, n, L)
             T == C[n] \X Chosen(C, n + 1, L)
             g == [f \in S |-> <<f[n], Others(f, n, L)>>]
  <2>1. IsFiniteSet(T) /\ Cardinality(T) = Cardinality(C[n]) * Cardinality(Chosen(C, n + 1, L))
    BY FS_Product
  <2>2. g \in [S -> T]
    BY ChosenSplits
  <2>3. \A x, y \in S : g[x] = g[y] => x = y
    <3>1. ASSUME NEW x \in S, NEW y \in S, g[x] = g[y] PROVE x = y
      <4>1. x[n] = y[n] /\ Others(x, n, L) = Others(y, n, L)
        BY <3>1
      <4> QED
        BY <4>1, ChosenSplits
    <3> QED
      BY <3>1
  <2>4. \A t \in T : \E x \in S : g[x] = t
    <3>1. ASSUME NEW t \in T PROVE \E x \in S : g[x] = t
      <4>1. PICK c \in C[n], h \in Chosen(C, n + 1, L) : t = <<c, h>>
        OBVIOUS
      <4>2. PICK f \in S : f[n] = c /\ Others(f, n, L) = h
        BY ChosenSplits
      <4>3. g[f] = <<c, h>>
        BY <4>2
      <4> QED
        BY <4>1, <4>3
    <3> QED
      BY <3>1
  <2> HIDE DEF S, T, g
  <2>5. IsFiniteSet(S) /\ Cardinality(S) = Cardinality(T)
    BY <2>1, <2>2, <2>3, <2>4, Corresponds
  <2> QED
    BY <2>1, <2>5 DEF S
<1>2. /\ IsFiniteSet(StoppedFrom(C, n, L))
      /\ Cardinality(StoppedFrom(C, n, L)) = Cardinality(C[n]) * Cardinality(Stopped(C, n + 1, L))
  <2> DEFINE S == StoppedFrom(C, n, L)
             T == C[n] \X Stopped(C, n + 1, L)
             end(f) == CHOOSE m \in n .. L : f \in Chosen(C, n, m)
             g == [f \in S |-> <<f[n], Others(f, n, end(f))>>]
  <2>1. IsFiniteSet(T) /\ Cardinality(T) = Cardinality(C[n]) * Cardinality(Stopped(C, n + 1, L))
    BY FS_Product
  <2>2. ASSUME NEW m \in n .. L, NEW f \in Chosen(C, n, m)
        PROVE  end(f) = m /\ f \in S
    <3>1. end(f) \in n .. L /\ f \in Chosen(C, n, end(f))
      BY <2>2
    <3>2. DOMAIN f = n .. m /\ DOMAIN f = n .. end(f)
      BY <3>1 DEF Chosen
    <3>3. end(f) = m
      <4> HIDE DEF end
      <4>1. m \in n .. end(f) /\ end(f) \in n .. m
        BY <3>1, <3>2
      <4> QED
        BY <3>1, <4>1
    <3> QED
      BY <3>3 DEF StoppedFrom
  <2>3. ASSUME NEW f \in S PROVE end(f) \in n .. L /\ f \in Chosen(C, n, end(f))
    BY <2>2 DEF StoppedFrom
  <2>4. ASSUME NEW m \in n .. L PROVE Chosen(C, n + 1, m) \subseteq Stopped(C, n + 1, L)
    <3>1. CASE m = n
      BY <3>1, NothingChosen DEF Stopped
    <3>2. CASE m # n
      BY <3>2 DEF Stopped, StoppedFrom
    <3> QED
      BY <3>1, <3>2
  <2>5. g \in [S -> T]
    <3>1. ASSUME NEW f \in S PROVE f[n] \in C[n] /\ Others(f, n, end(f)) \in Stopped(C, n + 1, L)
      <4> HIDE DEF end, S
      <4> QED
        BY <2>3, <2>4, ChosenSplits
    <3> QED
      BY <3>1
  <2>6. \A x, y \in S : g[x] = g[y] => x = y
    <3>1. ASSUME NEW x \in S, NEW y \in S, g[x] = g[y] PROVE x = y
      <4>1. x[n] = y[n] /\ Others(x, n, end(x)) = Others(y, n, end(y))
        BY <3>1
      <4> HIDE DEF end, S, g
      <4>2. end(x) \in n .. L /\ end(y) \in n .. L /\ x \in Chosen(C, n, end(x)) /\ y \in Chosen(C, n, end(y))
        BY <2>3
      <4>3. (n + 1) .. end(x) = (n + 1) .. end(y)
        BY <4>1 DEF Others
      <4>4. end(x) = end(y)
        <5>1. \A a, b \in n .. L : (n + 1) .. a = (n + 1) .. b => a = b
          <6>1. ASSUME NEW a \in n .. L, NEW b \in n .. L, (n + 1) .. a = (n + 1) .. b, a < b PROVE FALSE
            <7>1. b \in (n + 1) .. b /\ b \notin (n + 1) .. a
              BY <6>1
            <7> QED
              BY <6>1, <7>1
          <6> QED
            BY <6>1
        <5> QED
          BY <4>2, <4>3, <5>1
      <4> QED
        BY <4>1, <4>2, <4>4, ChosenSplits
    <3> QED
      BY <3>1
  <2>7. \A t \in T : \E x \in S : g[x] = t
    <3>1. ASSUME NEW t \in T PROVE \E x \in S : g[x] = t
      <4>1. PICK c \in C[n], h \in Stopped(C, n + 1, L) : t = <<c, h>>
        OBVIOUS
      <4>2. PICK m \in n .. L : h \in Chosen(C, n + 1, m)
        <5>1. CASE h \in StoppedFrom(C, n + 1, L)
          BY <5>1 DEF StoppedFrom
        <5>2. CASE h = [k \in {} |-> 0]
          <6>1. n \in n .. L /\ h \in Chosen(C, n + 1, n)
            BY <5>2, NothingChosen
          <6> QED
            BY <6>1
        <5> QED
          BY <4>1, <5>1, <5>2 DEF Stopped
      <4>3. PICK f \in Chosen(C, n, m) : f[n] = c /\ Others(f, n, m) = h
        BY <4>2, ChosenSplits
      <4>4. f \in S /\ end(f) = m
        BY <2>2
      <4>5. g[f] = <<f[n], Others(f, n, end(f))>>
        BY <4>4
      <4>6. g[f] = t
        BY <4>1, <4>3, <4>4, <4>5
      <4> QED
        BY <4>4, <4>6
    <3> QED
      BY <3>1
  <2> HIDE DEF S, T, g
  <2>8. IsFiniteSet(S) /\ Cardinality(S) = Cardinality(T)
    BY <2>1, <2>5, <2>6, <2>7, Corresponds
  <2> QED
    BY <2>1, <2>8 DEF S
<1> QED
  BY <1>1, <1>2
-----------------------------------------------------------------------------
(* The counts of one history's block. *)

\* Some function counts the slots from n on.
Counting(limit, h, f, n) ==
  f = [k \in n .. Len(slots) + 1 |->
         IF k > Len(slots) THEN <<1, 1>>
         ELSE LET choices == Cardinality(E!Survivors(h, slots[k]))
              IN  IF choices = 0 THEN <<0, 1>>
                  ELSE <<AtMost(limit + 1, choices * f[k + 1][1]), 1 + choices * f[k + 1][2]>>]

\* Such a function exists.
LEMMA CountingExists ==
  ASSUME NEW limit, NEW h, Len(slots) \in Nat, NEW n \in 1 .. Len(slots) + 1
  PROVE  \E f : Counting(limit, h, f, n)
<1> DEFINE L == Len(slots)
           Bad == {j \in 0 .. L : ~ \E f : Counting(limit, h, f, L + 1 - j)}
<1> SUFFICES ASSUME Bad # {} PROVE FALSE
  <2>1. L + 1 - n \in 0 .. L /\ n = L + 1 - (L + 1 - n)
    OBVIOUS
  <2> QED
    BY <2>1
<1>1. PICK j \in Bad : \A k \in Bad : j <= k
  <2> HIDE DEF Bad
  <2>1. Bad \in SUBSET Nat
    BY DEF Bad
  <2> QED
    BY <2>1, LeastNat
<1> DEFINE m == L + 1 - j
           choices == Cardinality(E!Survivors(h, slots[m]))
<1>2. j # 0
  <2>1. Counting(limit, h, [k \in (L + 1) .. (L + 1) |-> <<1, 1>>], L + 1)
    BY DEF Counting
  <2> QED
    BY <2>1
<1>3. PICK f : Counting(limit, h, f, m + 1)
  <2>1. j - 1 \in 0 .. L /\ j - 1 \notin Bad /\ L + 1 - (j - 1) = m + 1
    BY <1>1, <1>2
  <2> QED
    BY <2>1
<1>4. m \in 1 .. L
  BY <1>2
<1> DEFINE x == IF choices = 0 THEN <<0, 1>>
                ELSE <<AtMost(limit + 1, choices * f[m + 1][1]), 1 + choices * f[m + 1][2]>>
           g == [k \in m .. L + 1 |-> IF k = m THEN x ELSE f[k]]
<1>5. g[m + 1] = f[m + 1] /\ g[m] = x
  BY <1>4
<1>6. \A k \in (m + 1) .. (L + 1) : g[k] = f[k] /\ (k <= L => g[k + 1] = f[k + 1])
  BY <1>4
<1>7. ASSUME NEW k \in m .. (L + 1)
      PROVE  g[k] = IF k > L THEN <<1, 1>>
                    ELSE LET c == Cardinality(E!Survivors(h, slots[k]))
                         IN  IF c = 0 THEN <<0, 1>>
                             ELSE <<AtMost(limit + 1, c * g[k + 1][1]), 1 + c * g[k + 1][2]>>
  <2>1. CASE k = m
    <3> HIDE DEF g
    <3> QED
      BY <1>4, <1>5, <2>1
  <2>2. CASE k # m
    <3>1. k \in (m + 1) .. (L + 1)
      BY <1>4, <2>2
    <3>2. f[k] = IF k > L THEN <<1, 1>>
                 ELSE LET c == Cardinality(E!Survivors(h, slots[k]))
                      IN  IF c = 0 THEN <<0, 1>>
                          ELSE <<AtMost(limit + 1, c * f[k + 1][1]), 1 + c * f[k + 1][2]>>
      BY <1>3, <3>1 DEF Counting
    <3> HIDE DEF g
    <3> QED
      BY <1>4, <1>6, <3>1, <3>2
  <2> QED
    BY <2>1, <2>2
<1>8. Counting(limit, h, g, m)
  BY <1>7 DEF Counting
<1> QED
  BY <1>8, <1>1

\* SlotCounts is that function's first value.
LEMMA SlotCountsSteps ==
  ASSUME NEW limit, NEW h, Len(slots) \in Nat
  PROVE  \E f : Counting(limit, h, f, 1) /\ E!SlotCounts(limit, h) = f[1]
<1> DEFINE f == CHOOSE f : Counting(limit, h, f, 1)
<1>1. E!SlotCounts(limit, h) = f[1]
  BY DEF E!SlotCounts, E!AtMost, AtMost, E!Cardinality, Cardinality, Counting
<1>2. 1 \in 1 .. Len(slots) + 1
  OBVIOUS
<1>3. Counting(limit, h, f, 1)
  BY <1>2, CountingExists
<1> QED
  BY <1>1, <1>3

\* Multiplying a saturated count and saturating the product.
LEMMA SaturatedProduct ==
  ASSUME NEW l \in Nat, NEW c \in Nat, NEW x \in Nat, c # 0
  PROVE  AtMost(l + 1, c * AtMost(l + 1, x)) = AtMost(l + 1, c * x)
<1>1. CASE l + 1 < x
  <2>1. c * x >= x /\ c * (l + 1) >= l + 1
    <3>1. \A a, b \in Nat : a # 0 => a * b >= b
      <4>1. ASSUME NEW a \in Nat, NEW b \in Nat, a # 0 PROVE a * b >= b
        <5>1. PICK d \in Nat : a = d + 1
          BY <4>1
        <5>2. a * b = d * b + b /\ d * b \in Nat
          BY <5>1
        <5> QED
          BY <5>2
      <4> QED
        BY <4>1
    <3> QED
      BY <3>1
  <2>2. AtMost(l + 1, x) = l + 1
    BY <1>1 DEF AtMost
  <2>3. c * x \in Nat /\ c * (l + 1) \in Nat
    OBVIOUS
  <2> QED
    BY <1>1, <2>1, <2>2, <2>3 DEF AtMost
<1>2. CASE ~ (l + 1 < x)
  BY <1>2 DEF AtMost
<1> QED
  BY <1>1, <1>2

\* What the slots leave open at h.
Options(h) == [n \in 1 .. Len(slots) |-> E!Survivors(h, slots[n])]

\* A block's count is its choices, saturated, and one more than those that stop
\* somewhere.
LEMMA SlotsCounted ==
  ASSUME NEW limit \in Nat, NEW h, Len(slots) \in Nat,
         \A k \in 1 .. Len(slots) : IsFiniteSet(E!Survivors(h, slots[k]))
  PROVE  /\ IsFiniteSet(Chosen(Options(h), 1, Len(slots))) /\ IsFiniteSet(StoppedFrom(Options(h), 1, Len(slots)))
         /\ E!SlotCounts(limit, h) = <<AtMost(limit + 1, Cardinality(Chosen(Options(h), 1, Len(slots)))),
                                     1 + Cardinality(StoppedFrom(Options(h), 1, Len(slots)))>>
<1> DEFINE L == Len(slots)
           C == Options(h)
           Right(f, n) ==
             /\ IsFiniteSet(Chosen(C, n, L)) /\ IsFiniteSet(StoppedFrom(C, n, L))
             /\ f[n] = <<AtMost(limit + 1, Cardinality(Chosen(C, n, L))), 1 + Cardinality(StoppedFrom(C, n, L))>>
<1>0. \A k \in 1 .. L : C[k] = E!Survivors(h, slots[k]) /\ IsFiniteSet(C[k])
  BY DEF Options
<1>1. PICK f : Counting(limit, h, f, 1) /\ E!SlotCounts(limit, h) = f[1]
  BY SlotCountsSteps
<1>2. ASSUME NEW n \in 1 .. L, Right(f, n + 1) PROVE Right(f, n)
  <2> DEFINE a == Cardinality(Chosen(C, n + 1, L))
             b == Cardinality(StoppedFrom(C, n + 1, L))
             c == Cardinality(C[n])
  <2>0. c \in Nat /\ n <= L /\ n \in Int /\ L \in Int /\ IsFiniteSet(C[n])
    BY <1>0, FS_CardinalityType
  <2>1. a \in Nat /\ b \in Nat
    BY <1>2, FS_CardinalityType
  <2>2. [k \in {} |-> 0] \notin StoppedFrom(C, n + 1, L)
    <3>1. ASSUME NEW m \in (n + 1) .. L, [k \in {} |-> 0] \in Chosen(C, n + 1, m) PROVE FALSE
      <4>1. DOMAIN [k \in {} |-> 0] = (n + 1) .. m
        BY <3>1 DEF Chosen
      <4>2. n + 1 \in (n + 1) .. m
        BY <3>1
      <4> QED
        BY <4>1, <4>2
    <3> QED
      BY <3>1 DEF StoppedFrom
  <2>3. IsFiniteSet(Stopped(C, n + 1, L)) /\ Cardinality(Stopped(C, n + 1, L)) = b + 1
    <3> DEFINE e == [k \in {} |-> 0]
               S == StoppedFrom(C, n + 1, L)
    <3>1. IsFiniteSet(S) /\ e \notin S
      BY <1>2, <2>2
    <3> HIDE DEF e, S
    <3>2. IsFiniteSet(S \cup {e}) /\ Cardinality(S \cup {e}) = Cardinality(S) + 1
      BY <3>1, FS_AddElement
    <3>3. S \cup {e} = Stopped(C, n + 1, L)
      BY DEF S, e, Stopped
    <3> QED
      BY <3>2, <3>3 DEF S
  <2>4. /\ IsFiniteSet(Chosen(C, n, L)) /\ IsFiniteSet(StoppedFrom(C, n, L))
        /\ Cardinality(Chosen(C, n, L)) = c * a
        /\ Cardinality(StoppedFrom(C, n, L)) = c * (b + 1)
    BY <1>2, <2>0, <2>3, ChosenCount
  <2>5. f[n] = IF c = 0 THEN <<0, 1>>
               ELSE <<AtMost(limit + 1, c * f[n + 1][1]), 1 + c * f[n + 1][2]>>
    <3>1. n \in 1 .. L + 1 /\ ~ (n > L)
      BY <2>0
    <3> QED
      BY <1>0, <1>1, <3>1 DEF Counting
  <2>6. f[n + 1][1] = AtMost(limit + 1, a) /\ f[n + 1][2] = 1 + b
    BY <1>2
  <2>7. CASE c = 0
    <3>1. c * a = 0 /\ c * (b + 1) = 0 /\ AtMost(limit + 1, 0) = 0
      BY <2>1, <2>7 DEF AtMost
    <3> HIDE DEF a, b, c
    <3> QED
      BY <2>4, <2>5, <2>7, <3>1
  <2>8. CASE c # 0
    <3>1. AtMost(limit + 1, c * AtMost(limit + 1, a)) = AtMost(limit + 1, c * a)
      BY <2>0, <2>1, <2>8, SaturatedProduct
    <3> HIDE DEF a, b, c
    <3>2. 1 + b = b + 1
      BY <2>1
    <3> QED
      BY <2>4, <2>5, <2>6, <2>8, <3>1, <3>2
  <2> QED
    BY <2>7, <2>8
<1>3. Right(f, L + 1)
  <2>1. Chosen(C, L + 1, L) = {[k \in {} |-> 0]} /\ StoppedFrom(C, L + 1, L) = {}
    BY NothingChosen
  <2>2. f[L + 1] = <<1, 1>>
    <3>1. L + 1 \in 1 .. L + 1 /\ L + 1 > L
      OBVIOUS
    <3> QED
      BY <1>1, <3>1 DEF Counting
  <2>3. AtMost(limit + 1, 1) = 1
    BY DEF AtMost
  <2>4. /\ IsFiniteSet(Chosen(C, L + 1, L)) /\ Cardinality(Chosen(C, L + 1, L)) = 1
        /\ IsFiniteSet(StoppedFrom(C, L + 1, L)) /\ Cardinality(StoppedFrom(C, L + 1, L)) = 0
    <3> DEFINE e == [k \in {} |-> 0]
    <3> HIDE DEF C, e
    <3>1. IsFiniteSet({e}) /\ Cardinality({e}) = 1
      BY FS_Singleton
    <3> QED
      BY <2>1, <3>1, FS_EmptySet DEF e
  <2> HIDE DEF C
  <2> QED
    BY <2>2, <2>3, <2>4
<1> HIDE DEF Right
<1>4. Right(f, 1)
  <2> DEFINE Bad == {j \in 0 .. L : ~ Right(f, L + 1 - j)}
  <2> SUFFICES ASSUME Bad # {} PROVE FALSE
    <3>1. L \in 0 .. L /\ L + 1 - L = 1
      OBVIOUS
    <3> QED
      BY <3>1
  <2>1. PICK j \in Bad : \A k \in Bad : j <= k
    <3> HIDE DEF Bad
    <3>1. Bad \in SUBSET Nat
      BY DEF Bad
    <3> QED
      BY <3>1, LeastNat
  <2>2. j # 0
    BY <1>3
  <2>3. j - 1 \in 0 .. L /\ j - 1 \notin Bad /\ L + 1 - (j - 1) = (L + 1 - j) + 1 /\ L + 1 - j \in 1 .. L
    BY <2>1, <2>2
  <2> QED
    BY <1>2, <2>1, <2>3
<1> QED
  BY <1>1, <1>4 DEF Right

-----------------------------------------------------------------------------
(* The counts over the histories found. *)

\* The first n blocks.
Together(D, n) == UNION {D[i] : i \in 1 .. n}

\* A disjoint block more.
LEMMA BlocksAdd ==
  ASSUME NEW D, NEW n \in Nat \ {0}, IsFiniteSet(D[n]), IsFiniteSet(Together(D, n - 1)),
         \A i \in 1 .. (n - 1) : D[i] \cap D[n] = {}
  PROVE  /\ IsFiniteSet(Together(D, n))
         /\ Cardinality(Together(D, n)) = Cardinality(Together(D, n - 1)) + Cardinality(D[n])
<1>1. \A i : i \in 1 .. n <=> i \in 1 .. (n - 1) \/ i = n
  OBVIOUS
<1>2. Together(D, n) = Together(D, n - 1) \cup D[n] /\ Together(D, n - 1) \cap D[n] = {}
  BY <1>1 DEF Together
<1>3. Cardinality({}) = 0 /\ Cardinality(Together(D, n - 1)) \in Nat /\ Cardinality(D[n]) \in Nat
  BY FS_EmptySet, FS_CardinalityType
<1> DEFINE S == Together(D, n - 1)
           T == D[n]
<1>4. Together(D, n) = S \cup T /\ S \cap T = {} /\ IsFiniteSet(S) /\ IsFiniteSet(T)
      /\ Cardinality(S) \in Nat /\ Cardinality(T) \in Nat
  BY <1>2, <1>3
<1> HIDE DEF S, T
<1>5. IsFiniteSet(S \cup T) /\ Cardinality(S \cup T) = Cardinality(S) + Cardinality(T) - Cardinality(S \cap T)
  BY <1>4, FS_Union
<1>6. Cardinality(S \cap T) = 0 /\ Together(D, n) = S \cup T
  BY <1>3, <1>4
<1>7. Cardinality(S) + Cardinality(T) - 0 = Cardinality(S) + Cardinality(T)
  BY <1>4
<1>8. IsFiniteSet(Together(D, n)) /\ Cardinality(Together(D, n)) = Cardinality(S) + Cardinality(T)
  BY <1>5, <1>6, <1>7
<1> QED
  BY <1>8 DEF S, T

\* Some function counts the blocks of the histories up to n.
Adding(limit, f, n) ==
  f = [k \in 0 .. n |->
         IF k = 0 THEN [products |-> 0, extensions |-> 0]
         ELSE LET before == f[k - 1]
                  block  == E!SlotCounts(limit, found[k])
              IN  IF before.products > limit THEN before
                  ELSE [products   |-> AtMost(limit + 1, before.products + block[1]),
                        extensions |-> before.extensions + block[2] - 1]]

\* Such a function exists.
LEMMA AddingExists ==
  ASSUME NEW limit, NEW n \in Nat
  PROVE  \E f : Adding(limit, f, n)
<1> DEFINE Bad == {m \in Nat : ~ \E f : Adding(limit, f, m)}
<1> SUFFICES ASSUME Bad # {} PROVE FALSE
  OBVIOUS
<1>1. PICK m \in Bad : \A k \in Bad : m <= k
  <2> HIDE DEF Bad
  <2>1. Bad \in SUBSET Nat
    BY DEF Bad
  <2> QED
    BY <2>1, LeastNat
<1>2. m # 0
  <2>1. Adding(limit, [k \in 0 .. 0 |-> [products |-> 0, extensions |-> 0]], 0)
    BY DEF Adding
  <2> QED
    BY <2>1
<1>3. PICK f : Adding(limit, f, m - 1)
  <2>1. m - 1 \in Nat /\ m - 1 \notin Bad
    BY <1>1, <1>2
  <2> QED
    BY <2>1
<1> DEFINE after(before, k) ==
             LET block == E!SlotCounts(limit, found[k])
             IN  IF before.products > limit THEN before
                 ELSE [products   |-> AtMost(limit + 1, before.products + block[1]),
                       extensions |-> before.extensions + block[2] - 1]
           g == [k \in 0 .. m |-> IF k = m THEN after(f[m - 1], m) ELSE f[k]]
<1>4. ASSUME NEW k \in 0 .. m
      PROVE  g[k] = IF k = 0 THEN [products |-> 0, extensions |-> 0] ELSE after(g[k - 1], k)
  <2>1. CASE k = m
    <3>1. g[m] = after(f[m - 1], m) /\ g[m - 1] = f[m - 1]
      BY <1>2
    <3> HIDE DEF g, after
    <3> QED
      BY <1>2, <2>1, <3>1
  <2>2. CASE k # m
    <3>1. k \in 0 .. (m - 1) /\ g[k] = f[k] /\ (k # 0 => g[k - 1] = f[k - 1])
      BY <1>2, <2>2
    <3>2. f[k] = IF k = 0 THEN [products |-> 0, extensions |-> 0] ELSE after(f[k - 1], k)
      BY <1>3, <3>1 DEF Adding
    <3> HIDE DEF g, after
    <3> QED
      BY <3>1, <3>2
  <2> QED
    BY <2>1, <2>2
<1>5. g = [k \in 0 .. m |-> IF k = 0 THEN [products |-> 0, extensions |-> 0] ELSE after(g[k - 1], k)]
  BY <1>4
<1>6. Adding(limit, g, m)
  BY <1>5 DEF Adding
<1> QED
  BY <1>6, <1>1

\* ProductPreflight is that function's last value.
LEMMA PreflightSteps ==
  ASSUME NEW limit, Len(found) \in Nat
  PROVE  \E f : Adding(limit, f, Len(found)) /\ E!ProductPreflight(limit) = f[Len(found)]
<1> DEFINE f == CHOOSE f : Adding(limit, f, Len(found))
<1>1. E!ProductPreflight(limit) = f[Len(found)]
  BY DEF E!ProductPreflight, E!AtMost, AtMost, Adding
<1>2. Adding(limit, f, Len(found))
  BY AddingExists
<1> QED
  BY <1>1, <1>2

\* Each history found, with its choices.
RowBlocks == [i \in 1 .. Len(found) |-> {found[i]} \X Chosen(Options(found[i]), 1, Len(slots))]
PartBlocks == [i \in 1 .. Len(found) |-> {found[i]} \X StoppedFrom(Options(found[i]), 1, Len(slots))]

\* One history's rows are as many as its choices.
LEMMA OneByMany ==
  ASSUME NEW h, NEW S, IsFiniteSet(S)
  PROVE  IsFiniteSet({h} \X S) /\ Cardinality({h} \X S) = Cardinality(S)
<1> DEFINE g == [pair \in {h} \X S |-> pair[2]]
<1>1. g \in [{h} \X S -> S] /\ \A x, y \in {h} \X S : g[x] = g[y] => x = y
  OBVIOUS
<1>2. \A t \in S : \E x \in {h} \X S : g[x] = t
  <2>1. \A t \in S : <<h, t>> \in {h} \X S /\ g[<<h, t>>] = t
    OBVIOUS
  <2> QED
    BY <2>1
<1> DEFINE T == {h} \X S
<1> HIDE DEF T, g
<1>3. g \in [T -> S] /\ (\A x, y \in T : g[x] = g[y] => x = y) /\ \A t \in S : \E x \in T : g[x] = t
  BY <1>1, <1>2 DEF T
<1>4. IsFiniteSet(T) /\ Cardinality(T) = Cardinality(S)
  BY <1>3, Corresponds
<1> QED
  BY <1>4 DEF T

\* The saturated count is the number of rows, and short of saturation the nodes
\* are the choices that stop somewhere.
LEMMA PreflightCounts ==
  ASSUME NEW limit \in Nat, Len(slots) \in Nat, Len(found) \in Nat,
         \A i, j \in 1 .. Len(found) : i # j => found[i] # found[j],
         \A i \in 1 .. Len(found), k \in 1 .. Len(slots) : IsFiniteSet(E!Survivors(found[i], slots[k]))
  PROVE  LET N == Len(found)
             total == E!ProductPreflight(limit)
         IN  /\ IsFiniteSet(Together(RowBlocks, N)) /\ IsFiniteSet(Together(PartBlocks, N))
             /\ total.products = AtMost(limit + 1, Cardinality(Together(RowBlocks, N)))
             /\ Cardinality(Together(RowBlocks, N)) <= limit =>
                  total.extensions = Cardinality(Together(PartBlocks, N))
<1> DEFINE N == Len(found)
           Right(f, n) ==
             /\ IsFiniteSet(Together(RowBlocks, n)) /\ IsFiniteSet(Together(PartBlocks, n))
             /\ f[n].products = AtMost(limit + 1, Cardinality(Together(RowBlocks, n)))
             /\ Cardinality(Together(RowBlocks, n)) <= limit =>
                  f[n].extensions = Cardinality(Together(PartBlocks, n))
<1>1. PICK f : Adding(limit, f, N) /\ E!ProductPreflight(limit) = f[N]
  BY PreflightSteps
<1>2. Right(f, 0)
  <2>1. Together(RowBlocks, 0) = {} /\ Together(PartBlocks, 0) = {}
    BY DEF Together
  <2>2. f[0] = [products |-> 0, extensions |-> 0]
    BY <1>1 DEF Adding
  <2>3. AtMost(limit + 1, 0) = 0
    BY DEF AtMost
  <2>4. Cardinality({}) = 0 /\ IsFiniteSet({})
    BY FS_EmptySet
  <2>5. f[0].products = 0 /\ f[0].extensions = 0
    BY <2>2
  <2>6. Cardinality(Together(RowBlocks, 0)) = 0 /\ Cardinality(Together(PartBlocks, 0)) = 0
    BY <2>1, <2>4
  <2>7. IsFiniteSet(Together(RowBlocks, 0)) /\ IsFiniteSet(Together(PartBlocks, 0))
    BY <2>1, <2>4
  <2> QED
    BY <2>3, <2>5, <2>6, <2>7
<1>3. ASSUME NEW n \in 1 .. N, Right(f, n - 1) PROVE Right(f, n)
  <2> DEFINE h == found[n]
             R == Chosen(Options(h), 1, Len(slots))
             P == StoppedFrom(Options(h), 1, Len(slots))
             x == Cardinality(Together(RowBlocks, n - 1))
             y == Cardinality(Together(PartBlocks, n - 1))
             r == Cardinality(R)
             p == Cardinality(P)
  <2>1. /\ IsFiniteSet(R) /\ IsFiniteSet(P)
        /\ E!SlotCounts(limit, h) = <<AtMost(limit + 1, r), 1 + p>>
    BY SlotsCounted
  <2>2. x \in Nat /\ y \in Nat /\ r \in Nat /\ p \in Nat
    BY <1>3, <2>1, FS_CardinalityType
  <2>3. RowBlocks[n] = {h} \X R /\ PartBlocks[n] = {h} \X P
    BY DEF RowBlocks, PartBlocks
  <2>4. /\ IsFiniteSet(RowBlocks[n]) /\ Cardinality(RowBlocks[n]) = r
        /\ IsFiniteSet(PartBlocks[n]) /\ Cardinality(PartBlocks[n]) = p
    <3> HIDE DEF h, R, P
    <3>1. IsFiniteSet({h} \X R) /\ Cardinality({h} \X R) = Cardinality(R)
      BY <2>1, OneByMany
    <3>2. IsFiniteSet({h} \X P) /\ Cardinality({h} \X P) = Cardinality(P)
      BY <2>1, OneByMany
    <3> QED
      BY <2>3, <3>1, <3>2
  <2>5. \A i \in 1 .. (n - 1) : RowBlocks[i] \cap RowBlocks[n] = {} /\ PartBlocks[i] \cap PartBlocks[n] = {}
    <3>1. ASSUME NEW i \in 1 .. (n - 1)
          PROVE  RowBlocks[i] \cap RowBlocks[n] = {} /\ PartBlocks[i] \cap PartBlocks[n] = {}
      <4>1. i \in 1 .. N /\ found[i] # h
        OBVIOUS
      <4>2. RowBlocks[i] = {found[i]} \X Chosen(Options(found[i]), 1, Len(slots))
            /\ PartBlocks[i] = {found[i]} \X StoppedFrom(Options(found[i]), 1, Len(slots))
        BY <4>1 DEF RowBlocks, PartBlocks
      <4> HIDE DEF h, R, P
      <4> QED
        BY <2>3, <4>1, <4>2
    <3> QED
      BY <3>1
  <2>6. /\ IsFiniteSet(Together(RowBlocks, n)) /\ Cardinality(Together(RowBlocks, n)) = x + r
        /\ IsFiniteSet(Together(PartBlocks, n)) /\ Cardinality(Together(PartBlocks, n)) = y + p
    <3>1. n \in Nat \ {0}
      OBVIOUS
    <3> QED
      BY <1>3, <2>4, <2>5, <3>1, BlocksAdd
  <2>7. f[n] = IF f[n - 1].products > limit THEN f[n - 1]
               ELSE [products   |-> AtMost(limit + 1, f[n - 1].products + AtMost(limit + 1, r)),
                     extensions |-> f[n - 1].extensions + (1 + p) - 1]
    <3>1. n \in 0 .. N /\ n # 0
      OBVIOUS
    <3> DEFINE b == E!SlotCounts(limit, found[n])
    <3>2. f[n] = IF f[n - 1].products > limit THEN f[n - 1]
                 ELSE [products   |-> AtMost(limit + 1, f[n - 1].products + b[1]),
                       extensions |-> f[n - 1].extensions + b[2] - 1]
      BY <1>1, <3>1 DEF Adding
    <3>3. b = <<AtMost(limit + 1, r), 1 + p>>
      BY <2>1
    <3> HIDE DEF b, r, p
    <3>4. b[1] = AtMost(limit + 1, r) /\ b[2] = 1 + p
      BY <3>3
    <3> QED
      BY <3>2, <3>4
  <2>8. f[n - 1].products = AtMost(limit + 1, x) /\ (x <= limit => f[n - 1].extensions = y)
    BY <1>3
  <2> HIDE DEF x, y, r, p
  <2>9. CASE x > limit
    <3>1. AtMost(limit + 1, x) = limit + 1 /\ AtMost(limit + 1, x + r) = limit + 1 /\ ~ (x + r <= limit)
      BY <2>2, <2>9 DEF AtMost
    <3>2. f[n] = f[n - 1]
      BY <2>7, <2>8, <3>1
    <3> QED
      BY <2>6, <2>8, <3>1, <3>2
  <2>10. CASE ~ (x > limit)
    <3>1. AtMost(limit + 1, x) = x /\ AtMost(limit + 1, x + AtMost(limit + 1, r)) = AtMost(limit + 1, x + r)
      BY <2>2, <2>10 DEF AtMost
    <3>2. f[n - 1].products = x /\ f[n - 1].extensions = y /\ y + (1 + p) - 1 = y + p
      BY <2>2, <2>8, <2>10, <3>1
    <3>3. f[n] = [products |-> AtMost(limit + 1, x + r), extensions |-> y + p]
      BY <2>7, <2>10, <3>1, <3>2
    <3> QED
      BY <2>6, <3>3
  <2> QED
    BY <2>2, <2>9, <2>10
<1> HIDE DEF Right
<1>4. Right(f, N)
  <2> DEFINE Bad == {j \in 0 .. N : ~ Right(f, j)}
  <2> SUFFICES ASSUME Bad # {} PROVE FALSE
    <3>1. N \in 0 .. N
      OBVIOUS
    <3> QED
      BY <3>1
  <2>1. PICK j \in Bad : \A k \in Bad : j <= k
    <3> HIDE DEF Bad
    <3>1. Bad \in SUBSET Nat
      BY DEF Bad
    <3> QED
      BY <3>1, LeastNat
  <2>2. j # 0
    BY <1>2
  <2>3. j - 1 \in 0 .. N /\ j - 1 \notin Bad /\ j \in 1 .. N
    BY <2>1, <2>2
  <2> QED
    BY <1>3, <2>1, <2>3
<1> QED
  BY <1>1, <1>4 DEF Right
-----------------------------------------------------------------------------
(* The outcome of a search that is over. *)

\* What is asked, under which limits, and the outcome once the search is over.
OutcomeInv ==
  result.kind # "unasked" =>
    /\ slots \in Slots
    /\ cap \in [histories : Nat, steps : Nat, products : Nat]
    /\ result.kind # "searching" => result = E!Outcome

\* The limits a submission is given are naturals.
LEMMA ClampedAreNaturals ==
  ASSUME NEW limits \in Limits
  PROVE  E!Clamped(limits) \in [histories : Nat, steps : Nat, products : Nat]
<1>1. /\ limits \in [histories : Nat, steps : Nat, products : Nat]
      /\ HardLimits \in [histories : Nat, steps : Nat, products : Nat]
  BY EnumerationAssumption
<1>2. \A n, m \in Nat : E!AtMost(n, m) \in Nat
  BY DEF E!AtMost
<1> QED
  BY <1>1, <1>2 DEF E!Clamped

\* The outcome stands as long as what it was read off does.
LEMMA OutcomeStands ==
  ASSUME UNCHANGED <<slots, cap, found, visited>>
  PROVE  E!Outcome' = E!Outcome
BY DEF E!Outcome, E!ProductPreflight, E!SlotCounts

\* The outcome is read off when the search ends, and kept.
THEOREM OutcomeInvariant == InquirySpec => []OutcomeInv
<1>1. Start => OutcomeInv
  BY DEF Start, OutcomeInv
<1>2. OutcomeInv /\ [Inquire]_<<vars, search>> => OutcomeInv'
  <2> SUFFICES ASSUME OutcomeInv, [Inquire]_<<vars, search>> PROVE OutcomeInv'
    OBVIOUS
  <2>1. CASE Happens
    BY <2>1 DEF Happens, search, OutcomeInv
  <2>2. CASE Submit
    <3>1. PICK limits \in Limits : cap' = E!Clamped(limits)
      BY <2>2 DEF Submit
    <3>2. slots' \in Slots /\ result'.kind = "searching"
      BY <2>2 DEF Submit
    <3> QED
      BY <3>1, <3>2, ClampedAreNaturals DEF OutcomeInv
  <2>3. CASE Search
    <3>1. result.kind = "searching" /\ slots' = slots /\ cap' = cap
      BY <2>3 DEF Search, E!Next, E!Extend, E!Skip, E!Backtrack, E!Enumerate
    <3>2. CASE E!Enumerate
      <4>1. result' = E!Outcome /\ UNCHANGED <<slots, cap, found, visited>>
        BY <3>2 DEF E!Enumerate
      <4>2. result' = E!Outcome'
        BY <4>1, OutcomeStands
      <4> QED
        BY <3>1, <4>2 DEF OutcomeInv
    <3>3. CASE E!Extend \/ E!Skip \/ E!Backtrack
      <4>1. result' = result
        BY <3>3 DEF E!Extend, E!Skip, E!Backtrack
      <4> QED
        BY <3>1, <4>1 DEF OutcomeInv
    <3> QED
      BY <2>3, <3>2, <3>3 DEF Search, E!Next
  <2>4. CASE UNCHANGED <<vars, search>>
    <3>1. UNCHANGED <<slots, cap, found, visited, result>>
      BY <2>4 DEF search
    <3> QED
      BY <3>1, OutcomeStands DEF OutcomeInv
  <2> QED
    BY <2>1, <2>2, <2>3, <2>4 DEF Inquire
<1> QED
  BY <1>1, <1>2, PTL DEF InquirySpec

\* A choice of one alternative per slot is a selection of the reference.
LEMMA ChoicesAreSelections ==
  ASSUME slots \in Slots, NEW h, NEW n \in 0 .. Len(slots)
  PROVE  Chosen(Options(h), 1, n) = E!Selections(h, n)
<1>1. Len(slots) \in Nat
  BY EnumerationAssumption
<1>2. \A m \in 1 .. n : Options(h)[m] = E!Survivors(h, slots[m]) /\ Options(h)[m] \subseteq DOMAIN slots[m]
  BY <1>1 DEF Options, E!Survivors
<1> DEFINE U == UNION {DOMAIN slots[m] : m \in 1 .. n}
           C == Options(h)
<1>3. \A f : f \in E!Selections(h, n) <=>
                f \in [1 .. n -> U] /\ \A m \in 1 .. n : f[m] \in E!Survivors(h, slots[m])
  BY DEF E!Selections
<1>4. ASSUME NEW f \in Chosen(C, 1, n) PROVE f \in E!Selections(h, n)
  <2> HIDE DEF C
  <2>0. n \in Int /\ 1 \in Int
    BY <1>1
  <2>00. IsChoice(C, 1, n, f)
    BY <2>0, ChosenMembers
  <2>1. f = [m \in 1 .. n |-> f[m]] /\ \A m \in 1 .. n : f[m] \in C[m]
    BY <2>00 DEF IsChoice
  <2>2. \A m \in 1 .. n : f[m] \in E!Survivors(h, slots[m]) /\ f[m] \in U
    BY <1>2, <2>1 DEF C
  <2> HIDE DEF U
  <2>3. f \in [1 .. n -> U]
    BY <2>1, <2>2
  <2> QED
    BY <1>3, <2>2, <2>3
<1>5. ASSUME NEW f \in E!Selections(h, n) PROVE f \in Chosen(C, 1, n)
  <2> HIDE DEF U
  <2>0. f \in [1 .. n -> U] /\ \A m \in 1 .. n : f[m] \in E!Survivors(h, slots[m])
    BY <1>3
  <2>1. \A m \in 1 .. n : f[m] \in C[m]
    BY <1>2, <2>0
  <2> HIDE DEF C
  <2>2. IsChoice(C, 1, n, f)
    BY <2>0, <2>1 DEF IsChoice
  <2> QED
    BY <1>1, <2>2, ChosenMembers
<1> QED
  BY <1>4, <1>5

\* The blocks of the histories found make up the reference's rows, and the
\* choices that stop somewhere its proper partial selections.
LEMMA BlocksAreRows ==
  ASSUME slots \in Slots, Occurs(found) = Completions(problem), Len(found) \in Nat,
         DOMAIN found = 1 .. Len(found)
  PROVE  /\ Together(RowBlocks, Len(found)) = E!Rows
         /\ Together(PartBlocks, Len(found)) = E!ProperPartial
<1> DEFINE N == Len(found)
           L == Len(slots)
           Whole(i) == Chosen(Options(found[i]), 1, L)
           Part(i) == StoppedFrom(Options(found[i]), 1, L)
<1>1. L \in Nat /\ E!Completions(problem) = Occurs(found) /\ \A h : h \in Occurs(found) <=> \E i \in 1 .. N : h = found[i]
  BY EnumerationAssumption, SameCarriers DEF Occurs
<1>2. ASSUME NEW i \in 1 .. N PROVE Whole(i) = E!Selections(found[i], L)
  BY <1>1, ChoicesAreSelections
<1>3. ASSUME NEW i \in 1 .. N PROVE Part(i) = UNION {E!Selections(found[i], n) : n \in 1 .. L}
  <2>1. \A n \in 1 .. L : Chosen(Options(found[i]), 1, n) = E!Selections(found[i], n)
    BY <1>1, ChoicesAreSelections
  <2> QED
    BY <2>1 DEF StoppedFrom
<1>4. \A x : x \in Together(RowBlocks, N) <=> \E i \in 1 .. N : x \in {found[i]} \X Whole(i)
  BY DEF Together, RowBlocks
<1>5. \A x : x \in Together(PartBlocks, N) <=> \E i \in 1 .. N : x \in {found[i]} \X Part(i)
  BY DEF Together, PartBlocks
<1> HIDE DEF Whole, Part
<1>6. \A x : x \in E!Rows <=> \E i \in 1 .. N : \E c \in E!Selections(found[i], L) : x = <<found[i], c>>
  BY <1>1 DEF E!Rows
<1>7. \A x : x \in E!ProperPartial <=>
        \E i \in 1 .. N : \E c \in UNION {E!Selections(found[i], n) : n \in 1 .. L} : x = <<found[i], c>>
  BY <1>1 DEF E!ProperPartial
<1>8. \A x : x \in Together(RowBlocks, N) <=> x \in E!Rows
  BY <1>2, <1>4, <1>6
<1>9. \A x : x \in Together(PartBlocks, N) <=> x \in E!ProperPartial
  BY <1>3, <1>5, <1>7
<1> QED
  BY <1>8, <1>9

\* The first n numbers are n.
LEMMA FirstNumbers ==
  ASSUME NEW n \in Nat
  PROVE  IsFiniteSet(1 .. n) /\ Cardinality(1 .. n) = n
<1>1. n \in Int /\ 1 \in Int
  OBVIOUS
<1>2. IsFiniteSet(1 .. n) /\ Cardinality(1 .. n) = IF 1 > n THEN 0 ELSE n - 1 + 1
  BY <1>1, FS_Interval
<1> QED
  BY <1>2

\* For all slots and limits: a search that is over is refused exactly when a limit
\* is exceeded, for the first that is, and otherwise counts the rows and the
\* partial selections exactly.
THEOREM PreflightsAreExact == InquirySpec => []PreflightIsExact
<1>1. SearchInv /\ SearchIsExact /\ OutcomeInv => PreflightIsExact
  <2> SUFFICES ASSUME SearchInv, SearchIsExact, OutcomeInv, result.kind \notin {"unasked", "searching"}
               PROVE  E!PreflightIsExact
    BY DEF PreflightIsExact, E!PreflightIsExact
  <2> DEFINE N == Len(found)
             rows == Cardinality(Together(RowBlocks, N))
             parts == Cardinality(Together(PartBlocks, N))
             total == E!ProductPreflight(cap.products)
  <2>1. /\ problem \in Problems /\ slots \in Slots /\ found \in Seq(Executable(Listed))
        /\ cap.steps \in Nat /\ cap.histories \in Nat /\ cap.products \in Nat
        /\ N = Cardinality(Occurs(found)) /\ visited = Cardinality(Seen(Listed, frames))
        /\ IsFiniteSet(Seen(Listed, frames)) /\ result = E!Outcome
    BY DEF SearchInv, OutcomeInv
  <2>2. /\ Occurs(found) = Completions(problem)
        /\ Cardinality(Completions(problem)) = N /\ visited = Cardinality(E!Prefixes(problem))
    BY <2>1, SameOperators, SameCarriers DEF SearchIsExact, E!SearchIsExact
  <2>3. N \in Nat /\ DOMAIN found = 1 .. N /\ visited \in Nat /\ Len(slots) \in Nat
    BY <2>1, EnumerationAssumption, FS_CardinalityType
  <2>4. \A i, j \in 1 .. N : i # j => found[i] # found[j]
    <3>1. found \in Surjection(1 .. N, Occurs(found))
      BY <2>1, OntoMembers
    <3>2. IsFiniteSet(1 .. N) /\ Cardinality(1 .. N) = N
      <4> HIDE DEF N
      <4> QED BY <2>3, FirstNumbers
    <3>3. found \in Injection(1 .. N, Occurs(found))
      BY <2>1, <3>1, <3>2, FS_SurjSameCardinalityImpliesInj
    <3> QED
      BY <3>3 DEF Injection, IsInjective
  <2>5. ASSUME NEW i \in 1 .. N, NEW k \in 1 .. Len(slots)
        PROVE  IsFiniteSet(E!Survivors(found[i], slots[k]))
    <3>1. slots[k] \in Seq(Occurs(slots[k]))
      BY <2>1, <2>3, EnumerationAssumption
    <3>2. DOMAIN slots[k] = 1 .. Len(slots[k]) /\ Len(slots[k]) \in Nat
      BY <3>1
    <3>3. IsFiniteSet(DOMAIN slots[k])
      BY <3>2, FirstNumbers
    <3> QED
      BY <3>3, FS_Subset DEF E!Survivors
  <2>6. /\ IsFiniteSet(Together(RowBlocks, N)) /\ IsFiniteSet(Together(PartBlocks, N))
        /\ total.products = AtMost(cap.products + 1, rows)
        /\ rows <= cap.products => total.extensions = parts
    BY <2>1, <2>3, <2>4, <2>5, PreflightCounts
  <2>7. rows = Cardinality(E!Rows) /\ parts = Cardinality(E!ProperPartial) /\ rows \in Nat
    BY <2>1, <2>2, <2>3, <2>6, BlocksAreRows, FS_CardinalityType
  <2>8. result = IF visited > cap.steps THEN [kind |-> "steps", count |-> visited]
                 ELSE IF N > cap.histories THEN [kind |-> "histories", count |-> N]
                 ELSE IF total.products > cap.products THEN [kind |-> "products", count |-> total.products]
                 ELSE [kind |-> "enumerated", products |-> total.products, extensions |-> total.extensions]
    BY <2>1 DEF E!Outcome
  <2> HIDE DEF N, rows, parts, total
  <2>9. /\ result.kind = "steps"      <=> visited > cap.steps
        /\ result.kind = "histories"  <=> ~ (visited > cap.steps) /\ N > cap.histories
        /\ result.kind = "products"   <=> /\ ~ (visited > cap.steps) /\ ~ (N > cap.histories)
                                          /\ total.products > cap.products
        /\ result.kind = "enumerated" <=> /\ ~ (visited > cap.steps) /\ ~ (N > cap.histories)
                                          /\ ~ (total.products > cap.products)
        /\ result.kind = "steps"      => result.count = visited
        /\ result.kind = "histories"  => result.count = N
        /\ result.kind = "products"   => result.count = total.products
        /\ result.kind = "enumerated" => /\ result.products = total.products
                                         /\ result.extensions = total.extensions
    BY <2>8
  <2>10. /\ total.products > cap.products <=> rows > cap.products
         /\ rows > cap.products => total.products = cap.products + 1
         /\ ~ (rows > cap.products) => total.products = rows /\ total.extensions = parts
    BY <2>1, <2>6, <2>7 DEF AtMost
  <2>11. /\ visited = Cardinality(E!Prefixes(problem))
         /\ N = Cardinality(E!Completions(problem))
         /\ rows = Cardinality(E!Rows) /\ parts = Cardinality(E!ProperPartial)
    BY <2>2, <2>7, SameCarriers
  <2> QED
    BY <2>9, <2>10, <2>11, SameOperators DEF E!PreflightIsExact
<1> QED
  BY <1>1, SearchInvariant, SearchesAreExact, OutcomeInvariant, PTL
=============================================================================
