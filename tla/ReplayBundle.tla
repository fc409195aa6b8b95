----------------------------- MODULE ReplayBundle -----------------------------
(***************************************************************************)
(* One replay bundle on disk and the programs that write it: runs of the   *)
(* elaborator (run, write_bundle, cleanup_targets, main of elaborate.py)   *)
(* and of the freezer (freeze, install_frozen_outputs, main of             *)
(* freeze-bundle.py), step by step, while the source and the canonical     *)
(* policy are edited, disk calls fail and runs are interrupted or killed.  *)
(* A replay (scripts/replay.sh) writes nothing: it is what ReplayExit says *)
(* of the files.                                                           *)
(*                                                                         *)
(* What an elaborator writes is a function of the trace and the policy it  *)
(* read (Elaborator), so a file holds the pair it was derived from.        *)
(***************************************************************************)
EXTENDS Elaborator

CONSTANTS
  Traces, Edits,   \* what source.yaml can hold at first and after an edit
  Policies, First, \* what the canonical policy can hold, and holds at first
  TraceOf,         \* the trace each of the former is
  PolicyOf,        \* the policy each of the latter is
  Elabs, Freezes,  \* the runs of each program
  MaxEdits, MaxFaults,
  NoFile

Sources == {s \in Traces \cup Edits : TraceOf[s].form = "good"}

ASSUME BundleAssumption ==
  /\ First \subseteq Policies
  /\ \A s \in Traces \cup Edits : /\ TraceOf[s].form \in Form
                                  /\ TraceOf[s].form = "good" => IsTrace(TraceOf[s])
  /\ \A p \in Policies : IsPolicy(PolicyOf[p])
  /\ \A p, r \in Policies :   \* revisions keep the questions
       /\ DOMAIN PolicyOf[p].questions = DOMAIN PolicyOf[r].questions
       /\ \A q \in DOMAIN PolicyOf[p].questions :
            PolicyOf[p].questions[q].asks = PolicyOf[r].questions[q].asks
  /\ Elabs \cap Freezes = {}
  /\ MaxEdits \in Nat /\ MaxFaults \in Nat
  /\ NoFile \notin Traces \cup Edits \cup Policies
  /\ NoFile \notin [by : Freezes, of : (Sources \X Policies) \X Policies]
  /\ NoFile \notin [by : Freezes, sha : Policies, exit : 0..2]

VARIABLES
  source, canon,  \* source.yaml and the canonical policy
  file,           \* the bundle's six produced files
  stages,         \* the runs whose staging directory exists
  pc, mem, exit,  \* each run's place, what it holds and how it ended
  edits, faults,  \* how many there have been
  beside,         \* the runs another run has overlapped
  stuck,          \* the runs whose clean-up or roll-back failed or was cut short
  cut             \* the runs interrupted, killed or failed in their last removal

vars == <<source, canon, file, stages, pc, mem, exit, edits, faults, beside, stuck, cut>>

\* What derive accepts, and the checker's verdict on what it emits.
CanDerive ==
  [s \in Sources |-> [p \in Policies |-> Derivable(TraceOf[s], PolicyOf[p])]]
VerdictOn ==
  [s \in Sources |-> [p \in Policies |-> [c \in Policies |->
     IF CanDerive[s][p] THEN Verdict(TraceOf[s], PolicyOf[p], PolicyOf[c]) ELSE [exit |-> 2]]]]

Runs    == Elabs \cup Freezes
Written == <<"copy", "emitted", "prov">>      \* in the order write_bundle installs
Frozen  == <<"core", "verdict", "manifest">>  \* in the order the freezer installs
Blank   == [t |-> NoFile, p |-> NoFile, old |-> NoFile]

Active(r) == pc[r] \notin {"idle", "done"}

NoBundle == [n \in {Written[i] : i \in 1..3} \cup {Frozen[i] : i \in 1..3} |-> NoFile]

\* The bundle as committed: elaborated from t and p and frozen.
Committed(t, p) ==
  [NoBundle EXCEPT
     !.copy = p, !.emitted = <<t, p>>, !.prov = <<t, p>>,
     !.core = [by |-> "commit", of |-> <<<<t, p>>, p>>],
     !.verdict = [by |-> "commit", of |-> <<<<t, p>>, p>>],
     !.manifest = [by |-> "commit", sha |-> p, exit |-> VerdictOn[t][p][p].exit]]

Init ==
  /\ source \in Traces
  /\ canon \in First
  /\ \/ file = NoBundle
     \/ /\ source \in Sources /\ CanDerive[source][canon] /\ VerdictOn[source][canon][canon].exit = 0
        /\ file = Committed(source, canon)
  /\ stages = {}
  /\ pc = [r \in Runs |-> "idle"]
  /\ mem = [r \in Runs |-> Blank]
  /\ exit = [r \in Runs |-> "none"]
  /\ edits = 0 /\ faults = 0
  /\ beside = {} /\ stuck = {} /\ cut = {}

-----------------------------------------------------------------------------
(* The world: edits, and disk calls that fail. *)

EditSource ==
  /\ edits < MaxEdits
  /\ \E t \in Edits \ {source} : source' = t
  /\ edits' = edits + 1
  /\ UNCHANGED <<canon, file, stages, pc, mem, exit, faults, beside, stuck, cut>>

EditPolicy ==
  /\ edits < MaxEdits
  /\ \E p \in Policies \ {canon} : canon' = p
  /\ edits' = edits + 1
  /\ UNCHANGED <<source, file, stages, pc, mem, exit, faults, beside, stuck, cut>>

Fault == faults < MaxFaults /\ faults' = faults + 1

world == <<source, canon, edits>>

-----------------------------------------------------------------------------
(* Steps of a run. *)

Goto(r, l) == pc' = [pc EXCEPT ![r] = l] /\ UNCHANGED exit
End(r, code) ==
  pc' = [pc EXCEPT ![r] = "done"] /\ exit' = [exit EXCEPT ![r] = code]

\* A run starts; it and the runs under way overlap from here on.
Begin(r) ==
  LET others == {s \in Runs \ {r} : Active(s)}
  IN beside' = IF others = {} THEN beside ELSE beside \cup others \cup {r}

\* load_source: what it does not accept is an ElabError, except for a value
\* of an unhashable type, whose TypeError main does not catch.
Load(e) ==
  /\ pc[e] = "idle"
  /\ Begin(e)
  /\ CASE TraceOf[source].form = "good"      -> Goto(e, "derive")
       [] TraceOf[source].form = "malformed" -> Goto(e, "clean1")
       [] TraceOf[source].form = "misshapen" -> End(e, "crash")
  /\ mem' = [mem EXCEPT ![e].t = source]
  /\ UNCHANGED <<world, file, stages, faults, stuck, cut>>

\* The policy is read and the trace derived; an ElabError cleans up.
Derive(e) ==
  /\ pc[e] = "derive"
  /\ mem' = [mem EXCEPT ![e].p = canon]
  /\ Goto(e, IF CanDerive[mem[e].t][canon] THEN "stage" ELSE "clean1")
  /\ UNCHANGED <<world, file, stages, faults, beside, stuck, cut>>

Stage(e) ==
  /\ pc[e] = "stage"
  /\ stages' = stages \cup {e}
  /\ Goto(e, "put1")
  /\ UNCHANGED <<world, file, mem, faults, beside, stuck, cut>>

PutAt  == [put1 |-> 1, put2 |-> 2, put3 |-> 3]
AfterPut == <<"put2", "put3", "leave">>

Content(e, name) == IF name = "copy" THEN mem[e].p ELSE <<mem[e].t, mem[e].p>>

\* os.replace out of the stage; a stage another run's clean-up has removed is
\* an OSError.
Put(e) ==
  /\ pc[e] \in DOMAIN PutAt
  /\ LET i == PutAt[pc[e]]
     IN IF e \in stages
        THEN /\ file' = [file EXCEPT ![Written[i]] = Content(e, Written[i])]
             /\ Goto(e, AfterPut[i])
        ELSE Goto(e, "clean1") /\ UNCHANGED file
  /\ UNCHANGED <<world, stages, mem, faults, beside, stuck, cut>>

\* The finally clause of write_bundle, on success.
Leave(e) ==
  /\ pc[e] = "leave" /\ e \in Elabs
  /\ stages' = stages \ {e}
  /\ End(e, "0")
  /\ UNCHANGED <<world, file, mem, faults, beside, stuck, cut>>

\* A write or a replace fails: the stage goes, main cleans up.
DiskError(e) ==
  /\ pc[e] \in {"stage"} \cup DOMAIN PutAt /\ e \in Elabs
  /\ Fault
  /\ stages' = stages \ {e}
  /\ Goto(e, "clean1")
  /\ UNCHANGED <<world, file, mem, beside, stuck, cut>>

\* cleanup_targets: the two named files, then every policy copy and every
\* elaborator stage in the bundle, of whatever run; a removal that fails is
\* passed over.
CleanNamed == [clean1 |-> {"emitted"}, clean2 |-> {"prov"}, clean3 |-> {}]
CleanAt == [clean1 |-> {"emitted"}, clean2 |-> {"prov"}, clean3 |-> {"copy"}]

Removed(names) == [n \in DOMAIN file |-> IF n \in names THEN NoFile ELSE file[n]]

CleanStep(e) ==
  /\ IF pc[e] = "clean3" THEN End(e, "2")
     ELSE Goto(e, IF pc[e] = "clean1" THEN "clean2" ELSE "clean3")
  /\ UNCHANGED <<world, mem, beside, cut>>

Clean(e) ==
  /\ pc[e] \in DOMAIN CleanAt
  /\ file' = Removed(CleanAt[pc[e]])
  /\ stages' = IF pc[e] = "clean3" THEN stages \ Elabs ELSE stages
  /\ CleanStep(e)
  /\ UNCHANGED <<faults, stuck>>

CleanFails(e) ==
  /\ pc[e] \in DOMAIN CleanAt
  /\ Fault
  /\ stuck' = stuck \cup {e}
  /\ CleanStep(e)
  /\ UNCHANGED <<file, stages>>

-----------------------------------------------------------------------------
(* The freezer. *)

\* The program's identity and the four inputs are there; one freeze at a time.
Identify(f) ==
  /\ pc[f] = "idle"
  /\ \A g \in Freezes : ~ Active(g)
  /\ Begin(f)
  /\ IF NoFile \in {file[Written[i]] : i \in 1..3} THEN End(f, "2") ELSE Goto(f, "hash")
  /\ UNCHANGED <<world, file, stages, mem, faults, stuck, cut>>

\* The checker has been built; the policy copy is hashed.
HashCanonical(f) ==
  /\ pc[f] = "hash"
  /\ mem' = [mem EXCEPT ![f].p = canon]
  /\ IF file.copy = NoFile THEN End(f, "2") ELSE Goto(f, "copy")
  /\ UNCHANGED <<world, file, stages, faults, beside, stuck, cut>>
Hash(f) ==
  /\ pc[f] = "hash"
  /\ mem' = [mem EXCEPT ![f].p = file.copy]
  /\ IF file.copy = NoFile THEN End(f, "2") ELSE Goto(f, "copy")
  /\ UNCHANGED <<world, file, stages, faults, beside, stuck, cut>>

\* The program and the policy are copied to the stage and the core derived
\* there.
Copy(f) ==
  /\ pc[f] = "copy"
  /\ IF NoFile \in {file.emitted, file.copy} THEN End(f, "2") /\ UNCHANGED <<mem, stages>>
     ELSE IF Ambiguous(TraceOf[file.emitted[1]]) THEN End(f, "2") /\ UNCHANGED <<mem, stages>>
     ELSE /\ mem' = [mem EXCEPT ![f].t = [core |-> <<file.emitted, file.copy>>]]
          /\ stages' = stages \cup {f}
          /\ Goto(f, "check")
  /\ UNCHANGED <<world, file, faults, beside, stuck, cut>>

\* lara check of a program beside a policy copy, and of emitted.lara now.
CheckOf(pair) ==
  IF NoFile \in {pair[1], pair[2]} THEN [exit |-> 2]
  ELSE VerdictOn[pair[1][1]][pair[1][2]][pair[2]]

CheckNow == CheckOf(<<file.emitted, file.copy>>)

\* What the freezer will install: every file names the freeze it is of.
Outputs(f, v) ==
  [core     |-> [by |-> f, of |-> mem[f].t.core],
   verdict  |-> [by |-> f, of |-> <<file.emitted, file.copy>>],
   manifest |-> [by |-> f, sha |-> mem[f].p, exit |-> v.exit]]

Check(f) ==
  /\ pc[f] = "check"
  /\ mem' = [mem EXCEPT ![f] = [t |-> Outputs(f, CheckNow), p |-> @.p,
                                old |-> [n \in {Frozen[i] : i \in 1..3} |-> file[n]]]]
  /\ Goto(f, "backup1")
  /\ UNCHANGED <<world, file, stages, faults, beside, stuck, cut>>

\* A build, the revision, the generator or a read fails: a FreezeError.
ToolFails(f) ==
  /\ pc[f] \in {"hash", "copy", "check"}
  /\ Fault
  /\ stages' = stages \ {f}
  /\ End(f, "2")
  /\ UNCHANGED <<world, file, mem, beside, stuck, cut>>

BackupAt == [backup1 |-> 1, backup2 |-> 2, backup3 |-> 3]
InstallAt == [install1 |-> 1, install2 |-> 2, install3 |-> 3]
BackAt == [back1 |-> 1, back2 |-> 2, back3 |-> 3]
AfterBackup  == <<"backup2", "backup3", "install1">>
AfterInstall == <<"install2", "install3", "drop">>
AfterBack    == <<"fail", "back1", "back2">>

\* An existing destination moves into the stage's roll-back directory.
Backup(f) ==
  /\ pc[f] \in DOMAIN BackupAt
  /\ LET i == BackupAt[pc[f]]
     IN /\ file' = [file EXCEPT ![Frozen[i]] = NoFile]
        /\ Goto(f, AfterBackup[i])
  /\ UNCHANGED <<world, stages, mem, faults, beside, stuck, cut>>

Install(f) ==
  /\ pc[f] \in DOMAIN InstallAt
  /\ LET i == InstallAt[pc[f]]
     IN /\ file' = [file EXCEPT ![Frozen[i]] = mem[f].t[Frozen[i]]]
        /\ Goto(f, AfterInstall[i])
  /\ UNCHANGED <<world, stages, mem, faults, beside, stuck, cut>>

InstallFails(f) ==
  /\ \/ pc[f] \in DOMAIN InstallAt
     \/ pc[f] \in DOMAIN BackupAt /\ file[Frozen[BackupAt[pc[f]]]] # NoFile
  /\ Fault
  /\ Goto(f, "back3")
  /\ UNCHANGED <<world, file, stages, mem, beside, stuck, cut>>

\* The roll-back, last output first: what was there comes back, what was not
\* and has been installed is unlinked.
RestoredBackups(f, i) ==
  IF mem[f].old[Frozen[i]] = NoFile THEN file
  ELSE [file EXCEPT ![Frozen[i]] = mem[f].old[Frozen[i]]]
Restored(f, i) == [file EXCEPT ![Frozen[i]] = mem[f].old[Frozen[i]]]

Back(f) ==
  /\ pc[f] \in DOMAIN BackAt
  /\ LET i == BackAt[pc[f]]
     IN file' = Restored(f, i) /\ Goto(f, AfterBack[i])
  /\ UNCHANGED <<world, stages, mem, faults, beside, stuck, cut>>

\* A restore that fails is remembered for the message, the rest goes on.
BackFails(f) ==
  /\ pc[f] \in DOMAIN BackAt
  /\ file # Restored(f, BackAt[pc[f]])
  /\ Fault
  /\ stuck' = stuck \cup {f}
  /\ Goto(f, AfterBack[BackAt[pc[f]]])
  /\ UNCHANGED <<world, file, stages, mem, beside, cut>>

\* The temporary directory is removed, and what was backed up in it.
Drop(f) ==
  /\ pc[f] \in {"drop", "fail"}
  /\ stages' = stages \ {f}
  /\ End(f, IF pc[f] = "drop" THEN "0" ELSE "2")
  /\ UNCHANGED <<world, file, mem, faults, beside, stuck, cut>>

\* Removing it fails: main reports a failure, also after everything is
\* installed.
DropFails(f) ==
  /\ pc[f] \in {"drop", "fail"}
  /\ Fault
  /\ cut' = cut \cup {f}
  /\ End(f, "2")
  /\ UNCHANGED <<world, file, stages, mem, beside, stuck>>

-----------------------------------------------------------------------------
(* Interrupts and kills. *)

\* An interrupt leaves through the finally clauses, which remove the stage,
\* and past main's handlers; a kill leaves the stage where it is.
Stop(r) ==
  /\ Active(r)
  /\ Fault
  /\ \/ stages' = stages \ {r}
     \/ r \in stages /\ UNCHANGED stages
  /\ cut' = cut \cup {r}
  /\ stuck' = IF pc[r] \in DOMAIN CleanAt \cup DOMAIN BackAt THEN stuck \cup {r} ELSE stuck
  /\ End(r, "stopped")
  /\ UNCHANGED <<world, file, mem, beside>>

Next ==
  \/ EditSource
  \/ EditPolicy
  \/ \E e \in Elabs : \/ Load(e) \/ Derive(e) \/ Stage(e) \/ Put(e) \/ Leave(e)
                      \/ DiskError(e) \/ Clean(e) \/ CleanFails(e)
  \/ \E f \in Freezes : \/ Identify(f) \/ Hash(f) \/ Copy(f) \/ Check(f) \/ ToolFails(f)
                        \/ Backup(f) \/ Install(f) \/ InstallFails(f)
                        \/ Back(f) \/ BackFails(f) \/ Drop(f) \/ DropFails(f)
  \/ \E r \in Runs : Stop(r)

Spec == Init /\ [][Next]_vars

-----------------------------------------------------------------------------
(* A replay of a bundle nobody is writing: refused, mismatch or match. *)

ReplayExit ==
  IF \E n \in DOMAIN file : file[n] = NoFile THEN 2
  ELSE IF file.copy # file.manifest.sha THEN 1
  ELSE IF CheckOf(file.verdict.of) = CheckNow /\ file.manifest.exit = CheckNow.exit THEN 0 ELSE 1

-----------------------------------------------------------------------------
(* Properties. *)

\* A cell of the claim the topic of which is what question q asks, in the
\* experiment itself or in a dead end when it is about an experiment.
HasCell(t, e, pred) ==
  \E x \in Cells(t, e[1]) :
    /\ Predicate[TopicAt(t, x)] = pred
    /\ pred \in OfExperiment => NodeAt(t, x).kind = "dead_end" \/ x[2] = e[2]

\* Evidence in the claim that speaks against its argument from e.
Counter(t, p, e) ==
  \/ \E pred \in p.exceptions :
       HasCell(t, e, pred) /\ \A n \in Supporting(t, e[1]) : e[2] <= n
  \/ \E c \in p.contraries, q \in DOMAIN p.questions :
       p.questions[q].asks = c[1] /\ HasCell(t, e, c[1]) /\ HasCell(t, e, c[2])

\* The justified claims of the trace s elaborated under p and checked under the
\* policy copy c, against the trace itself.
Evidenced ==
  [s \in Sources |-> [p \in Policies |-> [c \in Policies |->
     LET t == TraceOf[s]
         asked == PolicyOf[c].questions
     IN VerdictOn[s][p][c].exit = 0 =>
          \A k \in Claims(t) : VerdictOn[s][p][c].status[k] = "justified" =>
            \E e \in AllInstances(t) :
              /\ t.claims[e[1]].subject = t.claims[k].subject
              /\ \A q \in DOMAIN asked : asked[q].mandatory => HasCell(t, e, asked[q].asks)
              /\ ~ Counter(t, PolicyOf[p], e)]]]

\* A claim the emitted program justifies has an experiment with a positive
\* report, evidence for every mandatory question of the policy beside it and
\* none against: no question is discharged with another experiment's cell, no
\* undercut or undermining is lost on the way to the verdict.  Only the first
\* of several experiments answers for an exception (task 6 of derive).
JustifiedIsEvidenced ==
  file.emitted # NoFile /\ file.copy # NoFile =>
    Evidenced[file.emitted[1]][file.emitted[2]][file.copy]

Ends(r, code) == pc[r] # "done" /\ pc'[r] = "done" /\ exit'[r] = code

\* A run of the elaborator no other run overlaps that exits 0 leaves the three
\* files of one derivation from what it read, one that exits 2 and whose
\* clean-up did not fail none of the three, stale ones included; in either case
\* no stage.  Of a run that is killed, interrupted or ends in the TypeError main
\* does not catch it says nothing: those leave what is there.
ElaborateIsTransactional ==
  [][\A e \in Elabs \ (beside \cup stuck') :
       /\ Ends(e, "0") =>
            /\ file'.emitted = <<mem[e].t, mem[e].p>>
            /\ file'.prov = file'.emitted
            /\ file'.copy = mem[e].p
       /\ Ends(e, "2") => \A i \in 1..3 : file'[Written[i]] = NoFile
       /\ Ends(e, "0") \/ Ends(e, "2") => e \notin stages']_vars

\* The manifest goes last and comes away before anything new goes in: with a
\* manifest in the bundle, a core or a verdict beside it is of the same freeze,
\* wherever an installation failed, was interrupted or killed.  Either may be
\* absent, which a replay refuses.  Not while a freeze rolls back, nor once a
\* roll-back has failed in part or was cut short: it restores the manifest
\* first, and that may stay beside what the freeze has installed.
ManifestCommits ==
  /\ file.manifest # NoFile
  /\ \A f \in Freezes : pc[f] \notin DOMAIN BackAt /\ f \notin stuck
  => \A n \in {"core", "verdict"} :
       file[n] # NoFile => file[n].by = file.manifest.by

\* A freeze that reports failure and whose roll-back did not fail has put back
\* all it found; only when its last step fails, the removal of its staging
\* directory, the bundle may be all the new one, manifest included.
FreezeRestores ==
  [][\A f \in Freezes \ stuck' :
       Ends(f, "2") /\ mem[f].old # NoFile =>
         LET Holds(bundle) == \A i \in 1..3 : file'[Frozen[i]] = bundle[Frozen[i]]
         IN Holds(mem[f].old) \/ (f \in cut' /\ Holds(mem[f].t))]_vars

\* Both: one freeze at a time, stopped or failing anywhere but in its
\* roll-back, never leaves a manifest over a file of another freeze, and
\* reports failure with the bundle it found or, if only the removal of its
\* staging directory failed, with its own.
FreezeIsTransactional == []ManifestCommits /\ FreezeRestores

\* What a freeze has frozen replays, and its core is of the program that was
\* checked, unless an elaborator ran beside it: edits of source.yaml and
\* the canonical policy do not reach the files of the bundle it reads.
\* Nobody edits those by hand here.
FrozenBundleReplays ==
  [][\A f \in Freezes \ beside :
       Ends(f, "0") =>
         /\ ReplayExit' = 0
         /\ file'.core.of = file'.verdict.of]_vars
=============================================================================
