# A verification development for Lara

Lara checks *claim-support artifacts*: a unit declares evidence leaves, support
terms, attacks between them and queried claims; the checker accepts or rejects
the unit, compiles an accepted one to an abstract argumentation framework,
labels it by the grounded semantics and reads a status off the labels for every
queried claim. Around that core stand the commands that read packages and write
verdict files, the source updates, research-process histories, and the runners
that measure agents against the checker.

This directory holds TLA+ modules that model the parts of Lara whose behaviour
over time, over orderings, or over partial failure is hard to test, the TLC
configurations that check them, and TLAPS proofs for every value of the
constants. `PROJECT.json` lists components, runs, mutants, hazards, findings and
theorems, and maps each definition to the source lines it stands for.

## 1. Inventory

### 1.1 The path of a unit

| component | source | state it keeps | operations |
|---|---|---|---|
| acceptance boundary | `src/Lara/Check.hs`, `Attack.hs` | the declaration it looks at, node and hole partition, edges | `checkUnitWith`: rules, signature, policy, duplicates, support, attacks, conflict scan |
| framework and labels | `Grounded.hs`, `Runtime.hs` | cached edge list, extension, round | `buildAdj`, `grounded`, `labelOf`, `queryStatus` |
| quarantine | `Blocked.hs`, `Driver.hs`, `Driver/Internal.hs` | removed leaves, retained unit, blocked set | prune, group boundary (R9), checker, closure, publication |
| source updates | `Update.hs` | the raw source, the batch | leaf, instance, attack, discharge; `applyBatch` |
| process histories | `Process/History.hs`, `Types.hs`, `Source.hs` | used ids, committed plans, runs, dataset versions, retractions | `step`, order queries |
| process families | `Process/Family.hs`, `Enumerate.hs` | the search stack, counters, product rows | enumeration, preflight, limits, the verdict of a query |
| composition maps | `Map/Load.hs`, `Link.hs`, `Qualify.hs` | the read cache, the members loaded, the linked unit | `loadMap`, `linkMap`: contract, members, merge, generated attacks, check |

`Main.hs` calls the driver; the driver calls quarantine, which hands a smaller
unit to the checker; the checker hands its nodes and live attacks to the
framework; the closure of `Blocked` decides which statuses are published. All of
it is pure Haskell: what is hard here is not concurrency but *two views of the
same data* that have to agree. The edges are cached once and the attack oracle
never asked again; the conflict scan reads raw attacks while compilation reads
live ones; the blocked set is computed over declared indices while supports are
positions in the checked unit; a batch of edits is checked against intermediate
sources; attacks address occurrences by position in terms that discharges
rewrite.

Correctness, part by part:

* *labels*: the bounded iteration reaches the least complete extension of the
  attack relation in the source; labels and statuses agree with every complete
  extension.
* *acceptance*: rejections are at the first defect; in an accepted unit no
  complete extension holds two contrary conclusions, and each is closed under
  subarguments; ablations differ only through the stage they turn off.
* *quarantine*: removing evidence never makes a claim look better than the full
  program would; a status published without a block is the full program's, if
  the prune took none of the arguments that support the claim.
* *updates*: identities stay unique, a discharge is local, attacks keep
  addressing what they addressed, batches are all or nothing.
* *process*: the incremental bookkeeping admits exactly the founded histories;
  what is said of order is settled when it happens; enumeration is exhaustive
  and its limits exact; a certain answer over an incomplete record is true of
  what really happened.
* *maps*: members that are accepted alone are accepted together; linking
  neither loses nor moves nor invents an attack among one member's arguments; a
  status changes only by what another member brings; members are judged by one
  contract even while the files change.

### 1.2 Commands and files

| component | source | state it keeps | hard behaviour |
|---|---|---|---|
| atomic output | `AtomicWrite.hs`, `app/Main.hs` | temporary file, destination | concurrent commands and readers, failing calls, interrupts in the cleanup, kills |
| check-ara | `Evidence/Load.hs`, `Snapshot.hs`, `Report.hs`, `cbits/evidence_posix.c` | captured bytes, temporary directory, destination | a package that changes while it is read; two publishers; interrupts around the rename |
| spend ledger (P9) | `scripts/inquiry-p9.py` | `spend.jsonl`, one directory per cell with `record.json` and `score.json` | kills between a billed call and its line or record; resumption |
| elaborator | `elaborator/elaborate.py` | `emitted.lara`, `provenance.json` and the policy copy of a bundle, a staging directory | overlapping runs on one bundle, a source edited under it, failures between two renames and in the cleanup |
| freezer and replay | `scripts/freeze-bundle.py`, `scripts/replay.sh` | core, verdict and manifest of the same bundle, backups | install and rollback that may fail half-way; inputs that change between copy, derivation, check and hash |
| inquiry measurement | `scripts/inquiry-evaluate.py` and its report and manifest helpers | `run.json`, captures, reports, archive | signals and failed calls at any step, one recovery, a deadline that may pass during sealing |

The elaborator writes the program the freezer reads, and the manifest the freezer
writes is what a replay compares with the checker's answer. All of them interact through files only. Nothing in the repository keeps a daemon or a
shared-memory structure; interleavings come from two commands given at once, from
someone who edits a package, and from the operator who gives a command again.

### 1.3 Other components

| component | source (under `src/Lara` unless said) | role | here |
|---|---|---|---|
| extension semantics | `Semantics.hs` | deciders of complete, preferred, stable and semi-stable sets | operators of `Frameworks`; used as the reference |
| support inference | `SupportTerm.hs` | recursive check of support terms, holes and critical questions | an input of `CheckUnit` and `Quarantine`; planned |
| certificates | `Strict*`, `LP` kernel | checkers of proof objects | not modelled: pure, mirrored in Lean |
| signatures, policies, propositions | `Sigma*`, `Policy.hs`, `Prop.hs`, `Term.hs` | declarations, contraries, exceptions, equivalence | contraries, exceptions and Path B in `CheckUnit`; the rest as flaws |
| raw admission, replay | `Admission*`, `Replay.hs` | refusals before the driver; digests of a recorded run | the outcome only; planned |
| evidence codecs | `Evidence/CSV.hs`, `JSON.hs`, `Decimal.hs`, ... | parsers and renderers | `Front`, `Needs`, `Accepts` of `EvidenceBundle` |
| map reports | `Map/Driver.hs`, `Types.hs`, `Wire.hs` | alignments, questions, the manifest decoder | not modelled: computed once from what `MapLoad` decides |
| process analysis, audits, impact | `Process/Analysis.hs`, `Audit*`, ... | tables of answers that hold in every completion | the verdict they start from is in `ProcessVerdict` |
| public-world runs | `PW/*` | queries over enumerated worlds | not modelled: pure, one process |
| surface language, elaboration, wire | `Syntax.hs`, `Source/*`, `Elaborate*`, `Wire*` | text to units and back | not modelled: data, not control |
| harness, mutation suites, examples | `Measure.hs`, `Mutate*`, `Examples*` | experiments | the four configurations in `CheckUnit` |
| reports of reviewers | `BindingAudit*` | tables | not modelled: sequential |
| benchmarks, gates | `scripts/bench*`, `evidence-measure.py`, `check-*` | timed runs in containers, comparisons on fixtures | not modelled: one process that starts external tools in sequence |
| Lean development | `lean/` | a mechanised mirror of the checker | itself a proof |

## 2. Modules

| module | extends | what it is |
|---|---|---|
| `Frameworks` | - | attacked sets, one grounded step, labels, status, deciders of `Semantics.hs` |
| `Grounded` | `Frameworks` | the evaluation: scan, rounds, labels, statuses |
| `FrameworkLemmas` | `Frameworks`, TLAPS | lemmas on characteristic steps, labels and embedded frameworks |
| `Terms` | - | support terms by their subterm relation; attack occurrence and closure |
| `CheckUnit` | `Terms`, `Frameworks` | the stages of the checker under four configurations |
| `UnitProofs` | `CheckUnit`, `SourceUpdate`, TLAPS | theorems on acceptance and on edits |
| `Quarantine` | `Terms`, `Frameworks` | prune, check, ground, close, publish |
| `QuarantineProofs` | `Quarantine`, `FrameworkLemmas` | theorems |
| `ReplaceRegister` | - | abstract specification: a register each writer sets at most once |
| `AtomicWrite` | INSTANCE `ReplaceRegister` | concurrent writers on a directory; refines it |
| `EvidenceBundle`, `EvidenceBundleProofs` | - | check-ara commands on a changing package |
| `ProcessEvents` | - | events, guards and effect of a step, order queries |
| `ProcessHistory` | `ProcessEvents` | the state machine whose behaviours are the valid histories |
| `ProcessRecords`, `FamilyEnumeration` | `ProcessEvents` | compatibility and completions; the search and the products |
| `ProcessVerdict` | `ProcessHistory`, `ProcessRecords`, INSTANCE `FamilyEnumeration` | composition: what happened, a record of it, the search, the answer |
| `ProcessProofs` | `ProcessVerdict`, TLAPS | theorems on histories, searches, answers and preflights |
| `MapLink` | `Frameworks`, INSTANCE `Terms` | qualification, merge, generated attacks, the check of the linked unit |
| `MapLoad` | `MapLink` | the loader: reads through one cache while files change, refusals, link |
| `MapLoadProofs` | `MapLoad`, `FrameworkLemmas` | theorems |
| `Elaborator` | - | the derivation of elaborate.py and the checker's verdict on what it emits |
| `ReplayBundle` | `Elaborator` | composition: elaborators, a freezer and a replay on one bundle |
| `VerdictProofs` | `Grounded`, `ReplayBundle`, `FrameworkLemmas` | theorems on the evaluation, a derivation and the bundle |
| `SourceUpdate` | - | batches of edits |
| `SpendLedger` | - | the P9 commands |
| `InquiryMeasure` | - | one measurement run |
| `FileProofs` | `SpendLedger`, `AtomicWrite`, `InquiryMeasure`, TLAPS | theorems on the files of the three, with the refinement |
| `MC*` | their module | the instances TLC checks |

A proof module that extends several specifications sees all their names, which is
why `Grounded`, `SourceUpdate`, `SpendLedger` and `InquiryMeasure` name theirs with a
prefix (`GroundedInit`, `UpdateNext`, `LedgerNext`, `MeasureSpec`, ...).

How state and actions correspond to code:

* **Grounded.** `adj` is the list `buildAdj` computes; `BuildAdj`, `Iterate`,
  `LabelAll` and `Report` are `buildAdj`, one recursion of `iter`, the labels of
  the carrier and `queryStatus`. The number of rounds is `Rounds`, the length of
  the argument list: the code has no stability test, and neither has the model.
* **CheckUnit.** One action per stage and, in the stages that scan a list, per
  declaration; `at` is the index. `todo` holds the remaining configurations of
  the measurement harness (`Measure.hs`), `verdicts` what each answered. Support
  inference is an input, `result`, restricted to what its recursion guarantees:
  an error in a subterm is an error above, a hole is never complete above. Nodes
  are named by declared indices; the code renumbers them in order
  (`cuNodeDecls`).
* **Quarantine.** `PruneUnit`, `GroupBoundary`, `CheckAccepts`/`CheckRejects`,
  `Ground`, `StartClosure`, `Close`, `Publish` in the order of
  `Driver/Internal.hs`. The checker's other rejections are one nondeterministic
  outcome: after any of them nothing is published.
* **AtomicWrite.** One action per system call of `atomicWriteWith`, with the
  handle's buffer, and disturbances: a call fails, an interrupt arrives, a kill.
  `Cleanup` and `Refuse` are the bracket's handler and `emitAccepted`.
* **EvidenceBundle.** One action per file captured, per pure stage and per
  system call of the publication. Bytes are versions; what the pure stages make
  of them are the constants `Front`, `Needs`, `Accepts`, and `Pointer` names the
  contents that are Git LFS pointers, which a capture refuses even when they are
  what is pinned. `Edit` changes one file at a time, to another version or to
  something unreadable. `Cleanup` removes the temporary directory or fails to: it
  then stays `"linked"` with some of its files, and `fault` says so.
* **SourceUpdate.** `work` is the state inside `applyBatch`, `source` the
  caller's. Terms are records and positions sequences of steps; premises count
  from 1. The caller adopts the batch's result: the admission and check of the
  whole unit that follow a batch exist in the Lean development only. `Tighten`
  is left out: `Update.hs` has its side condition and no effect on a source. The
  terms of sources and edits (`Parts`, with their subterms) arrive with each question
  open or answered once, which is what `SupportTerm` demands of every occurrence;
  the position of a discharge is followed to an occurrence or to `OffRange`.
* **ProcessHistory.** `Allowed` and `After` are `step`; one action per event
  kind. Source claims, witnesses, outcomes and provenance carry no guard that
  reads the past and are left out. `FoundedAfter` says what a valid history is
  from the sequence alone, and is no translation: it is the reference the
  bookkeeping is compared with.
* **ProcessVerdict.** Until `Submit` the actions are those of `ProcessHistory`;
  from then on those of `FamilyEnumeration`, on the problem submitted. `Faithful`
  is the trust boundary the code states (`sourceRel`). Records that are not
  faithful are submitted too, but only before anything happened, since the search
  does not read the history. The process has ended when its record is submitted.
* **MapLink** and **MapLoad.** `stage` is the loader's place in the order the
  source's header fixes; `cache` is the `SourceCache`, keyed by file. Members are their positions
  in the manifest, so that aliases are distinct by construction; the decoder refuses an
  alias twice, and the tripwires behind it in `linkBoundary` cannot be reached.
  A term is an owner and a shape: qualification renames leaves, so that only
  terms without a leaf are ever shared. `elaboratedContractFailure` is left out: the
  source says, and the order of checks shows, that it cannot fire.
* **Elaborator** and **ReplayBundle.** The derivation is an operator of a trace
  and a policy (cells, questions, attacks, refusals); what it writes is named by the
  pair it was derived from. One action per file written, renamed, backed up, restored or
  removed, with faults (a failing disk call, an interrupt, a kill) at each.
  `beside` remembers which runs overlapped, `stuck` and `cut` which failed in their
  own cleanup. Identifiers are unique by position; the copy of program and policy
  to the stage is one step; one freezer runs at a time.
* **FamilyEnumeration.** `frames` is the stack of the depth-first search of
  `Enumerate.hs`; the hard limits are scaled down by constants; a `Maybe` is a set
  with at most one element.
* **SpendLedger.** `ledger` is what `spend.jsonl` sums to; a command moves
  through admit, call, charge and dump, and `Kill` takes it back to idle between any two of
  them. A record is opened (torn) and then written. `Reply` is what the JSON of an
  answer is to its reader: `score` raises on one that is no object, before its
  call if it is the agent's, after the charge if it is the scorer's
  (`ScoreRaises`).
* **InquiryMeasure.** `at` is the runner's next step, `run` the dictionary in
  memory and `disk` the output directory. `Fault` is a signal or a failed call at a
  step, routed to the handler that covers that step. `Replays` is what
  `validate_saved` demands of a directory.

Actions merge consecutive code steps only where no failure, no other process and
no property tells them apart.

## 3. Runs

All runs finish within three minutes on two workers. State counts are distinct
states.

| run | instance | states | what it shows |
|---|---|---|---|
| `grounded3` | 3 arguments, all 512 attack relations, every support set | 28,672 | the bound suffices, labels agree with every complete extension, each status is given exactly when they say so |
| `check_unit` | two leaves, a rule and a strict wrapper; up to 3 declarations, 2 of 7 attacks; four configurations | 3,316,271 | first defects; consistency; nodes rest on no hole and stand with their parts; scope of ablations |
| `quarantine` | 4 declarations over 3 leaves, up to 3 of 11 attacks, every policy seed, two groups | 1,036,796 | what is published under a block is no promotion and exact outside it; totality, the fast path, the closure ends |
| `atomic_write` | 2 accepting writers, 1 rejecting, 1 reader, 2 chunks | 261,219 | no torn read, truthful exits, refinement of the register |
| `evidence_bundle` | 2 commands, 5 objects, 4 manifests (one pins a pointer), 2 edits | 2,318,196 | one package per verdict, what each rejection is of, publications whole and owned as the exits say, what stays behind and why |
| `spend_ledger` | 3 cells, ceiling 3, 2 kills, 1 smoke call | 4,699,610 | the ceiling, what kills can lose, repeat and tear, every cell recorded unless a kill tore it |
| `source_update` | 2 batches of up to 3 of 13 edits, positions of length 3 | 39,726 | identities, locality, edits of a batch compose one at a time |
| `process_verdict` | 14 events over 9 identities; 6 records, 4 slot lists, 5 limits | 641,241 | bookkeeping against the sequence; precommitment; search, preflight and limits against their references; certain answers true |
| `inquiry_measure` | 2 cases, up to 3 faults | 115,382 | replayable directories, earned and timely passes, kept evidence |
| `inquiry_interrupt` | the same with a signal at one more step | violation | the finding of Section 5 |
| `replay_bundle` | 2 elaborators, 1 freezer, 7 sources, 3 policies, 1 edit, 2 faults | 1,577,730 | justified claims are evidenced; what each exit of an elaboration or a freeze leaves in the bundle; a frozen bundle replays |
| `map_link` | up to 3 members of 12 programs, 5 policies, 4 manifests, 1 edit | 95,011 | accepted members link, keep their graph and undisturbed statuses; blame under a changing policy file |

Some properties are conjunctions of parts defined by name just before them: `ConditionalIsSound`,
`NodesStandOnParts`, `PublicationIsWhole`, `KillsBoundLoss`, `BatchesCompose`,
`PassesAreEarned`, `PrecommitmentIsSound`, `FreezeIsTransactional`.

Why the bounds are enough to meet the interesting cases:

* Three arguments give odd and even cycles, self-attacks, floating acceptance and
  chains in which the extension grows for as many rounds as there are
  supports for it.
* In `check_unit` the wrapper holds the rule, which holds a leaf, so that attacks
  land at the root, inside, at a strict target (R11) and at a position that is not there (R10);
  two attacks suffice to cover a conflict with one and
  break another with the other.
* Four declarations are the least that let an attack that is dropped with its
  target delete an edge between two retained arguments.
* Two writers and a reader give every order of two renames around two reads; a
  writer that rejects never touches the destination.
* `MaxEdits` = 2 lets both objects the second capture pass reads change between
  the passes, or one change and change back.
* Two kills lose two calls, or the same one twice; with a ceiling of 3 a later
  cell is sometimes admitted and sometimes not.
* Two batches of three edits let an edit depend on each of the two before it and
  a later batch on an earlier one.
* Nine identities bound a history's length at nine, since an id is used once: the
  bound is in the code's guard, not in the model.
* In `process_verdict` the search runs from every faithful record of every
  history that the pool allows, so that a certain answer meets every
  history it speaks about; the other records cover the limits.
* In `replay_bundle` each source takes another way through the derivation
  (evidence against from a dead end, from a second experiment, before or after the
  answer; a question unanswered or answered elsewhere; two claims on one subject);
  one edit and two faults reach a failure inside the handling of a failure after
  an edit.
* In `map_link` a convention without leaves is shared by members, one of which
  attacks it, one builds on it and one undercuts it; a member with a hole shifts
  its nodes from its declarations; a policy file is shared, or belongs to one
  member only, and changes between two reads.
* Two cases are one that may fail and one that must then not start; three faults
  reach a failure inside the recovery from a failure inside the recovery.

`CHECK_DEADLOCK FALSE` is set where commands end and nothing is left to do.

### Fairness

* `Quarantine`: weak fairness of `Next`; a pure computation goes on until it has
  its answer. `Terminates` then says that the closure, which has no bound of its
  own, reaches stability. The bound on the number of steps
  needs no fairness and is proved (`EveryStepDescends`).
* `SpendLedger`: weak fairness of `Proceed` (a command that runs takes its next
  step) and strong fairness of starting `run` (the operator gives it again after
  a kill; kills are bounded). `EveryCellRecorded` needs both.
* `InquiryMeasure`: weak fairness of `Step`; children are waited for with
  timeouts, so that every call returns. Faults and the deadline are not fair.
* The others state safety only and assume none.

## 4. What is proved

TLAPS proves the following for every value of the constants; the proofs are in
the modules named `*Proofs`, `FrameworkLemmas` holds facts they share.
`PROJECT.json` lists sixty of the theorems.

**Grounded** (assuming only that the carrier is finite). The inductive invariant
joins to the types `CacheExact` (the cache is the oracle), `EveryRoundSound` (the
extension is admissible and inside every complete extension), `Progress` (it is a
fixed point or has at least as many members as there were rounds) and `Computed`
(what the labels and statuses were computed from). `Progress` is the argument for the missing
stability test: a set that grew in each of |args| rounds is all of the carrier.
Results: `BoundIsEnough`, `LabelsAreComplete`, `StatusesSceptical`, and the two
facts no run checks separately, `RoundsSound` and `ExtensionAscends`.

**CheckUnit** (finite subterm relations that contain each term and are
transitive; lists of terms and attacks). `Position`, `Cursor` and `Established`
say what the stages that have passed have established of the unit up to the declaration at
hand; `VerdictsSound` says it of every verdict. `ConflictsAreEdges` is the
bridge: a contrary pair of nodes the scan found covered by a *raw* attack is an
edge of the graph compiled from *live* ones, because the source of the covering attack
is a node. From it follow `ExtensionsConsistent`, and with the
closure of attacks under superterms `SubargumentClosure`; `NodesWithoutHoles`
comes from the partition. `NodesOnParts` joins the last two.
`FirstInv` says that what a stage has passed is no defect and that the stage and
the declaration at hand are as far as the first defect at most (`Passed`,
`HolesLocated`). The first defect itself is a least element of a well-founded
order, so that a verdict is compared with everything wrong in the unit:
`FirstDefectReported`. `AblationsStayInScope` follows from `FitsDefects` of two
verdicts on one unit: the defects an ablated configuration looks for are among
those of the full one.

**Quarantine** (finitely many arguments). The invariant's core is `NeverAhead`. A
*shield* is a set that contains the blocked seed and is closed under the
declared edges. Outside every shield the checked iteration stays inside each
complete extension of the reinstated program, and what it attacks is attacked there.
The published blocked set is itself the least shield, so that
statuses read outside of it are those of the reinstated program, where the prune
left the support whole: `NonPromotion`
and `PublishedIsExact`, together `ConditionalSoundness`; `QuarantineIsTotal`,
`FastPathIsExact`. `EveryStepDescends` proves `RunsDown`, an
action property of the proof module: a check has at most 2n + 6 steps for n arguments, because a round of the closure that does not end it
blocks an argument more (`CloseDescends`). What `Terminates` says beyond it, that a
step which can be taken is taken, rests on fairness and ENABLED.

**SourceUpdate** (any sources, edits, positions and bounds). `UpdateInv` says that the
caller's state and the one a batch is building are *checked states* over one set of
terms: leaves and arguments declared once, metadata that follow the leaves, attacks between
declared arguments, and terms with each question open or answered once. The set is closed under
subterms and need not be the one the history began with, since a discharge makes
terms that were nowhere before; the invariant says that there is such a set, and
`DischargeDescent` adds the rebuilt occurrences to it. It says further that the batch
declared no member of a group and that `work` is what its edits make of `source`
one at a time, each allowed by the one before (`OneAtATime`).

What descends a term does so by a fold along a position. The library's
induction theorems are out of reach, but a fold is the last value of a function on the steps
(`SubtermFolds`, `AfterAllLast`), and two such functions that differ do so at a first
step (`LeastNat`): that gives `Descent`, one step at a time, and from it what a
discharge does. On the path to its site every occurrence keeps its root and
changes (`DischargeOnPath`); off it every occurrence is what it was
(`DischargeOffPath`); none is lost (`DischargeKeepsRoots`). Results:
`IdentitiesAlwaysHold`, `BatchesAlwaysCompose`, and `EditsAlwaysLocal`, where an
attack is followed through an edit of its target.

**AtomicWrite** (any numbers of writers, readers and chunks). The invariant
follows each command: `Filled` (how far its file has come at each step),
`Accounted` (a file the destination ever named is whole and has its final mode;
at which steps and with which exit a command's file can have been named) and
`Reading` (what a reader holds has been the destination). `Refinement` proves that the
directory implements `ReplaceRegister`: every step is a step of the register or
a stutter, and a command's set takes place at its rename.

**SpendLedger** (any number of cells and commands, any caps and ceiling).
`InCommand` says where a command can be and what its cell holds there. `Room` is
the argument for the ceiling: the room an admission found is there until the call is
charged, since only the command in progress charges; smoke calls alone are outside of it
(`CeilingIsKept`). `SettledInv` and `TornInv` pair every call, file and cost the
ledger does not know with the command in progress or with a kill of its own
(`KillsAloneLose`).

**InquiryMeasure** (any number of cases and faults, any set of interruptible
steps). `Evidence` says which captures exist and to what they are attached;
`Scores` how many pairs are scored at each step of the loop; `Discrepancies` where the
discrepancy may lag behind the checkpoints; `Inventories` and `Reporting` what
the three reports, their hashes and the archive hold at each step of
sealing and of the recovery; `SealedRun` that a sealed status describes the run that
is ending. `DirectoriesReplay` has one hypothesis, that no signal comes at
the step `"mark"`. That is the divergence of Section 5, and `inquiry_interrupt`
shows that without the hypothesis the property is false. `PassesEarned` and
`EvidenceIsKept` do not need it.

**EvidenceBundle** (any commands, packages and edits). `Loaded` says which
objects a command has captured at each stage and that they agree with its
manifest; `Owner` relates
its temporary directory, the destination and its exit code. What a rejection is of
(`Justified`) is proved of the step that gives it, since the files may change after. The steps of other
commands disturb it only through the destination, which is taken when vacant.
Results: `SnapshotConsistent`, `RejectionsClassified`, `ExitsAreTruthful` and
`LeavesNothingPartial`, together `PublicationsAreWhole`; `BundlesStand`.

**ProcessHistory** (any pool of events). `ReadOff` says that each component of
the state is what the sequence says it is: used ids, runs, plans, retractions
(`Occurrences`), the current version of each dataset (`CurrentVersions`) and that
a run's plan was committed before it (`CommittedFirst`). Then the guard of a step
equals the reading of the sequence (`StepsAreFounded`), and the order
queries are early, settled and, for predictability, irrevocable
(`PrecommitmentsAreSound` joins the first two). `InquiryIsProcess` proves that what
happens before a record is submitted in `ProcessVerdict` is a `ProcessHistory`, so
that all of this holds of every inquiry.

**The search and the answer** (any set of problems, queries, slots and limits).
`SearchInv` reads the stack of frames: each frame is an executable prefix of the
one above with the events it has still to try, no prefix is on two frames, and
the prefixes visited so far (`Seen`) are those not below a frame or an untried
event. Charges count `Seen`, what was emitted are its completions: with an empty stack
that is the whole carrier, each once (`SearchesAreExact`). `CertaintyIsTrue`
adds that the history that happened is one of the completions of a faithful
record, hence emitted if the search was not cut short. `PreflightsAreExact` compares the
saturating counters of the preflight with sets: the product over the slots
is in bijection with the choices of one alternative each (`IsChoice`, one slot
at a time), and a count is saturated exactly if that set passes its limit; the
limit that is reported is the first that fails, and none is reported when none is
exceeded.

**MapLoad** (any programs, policies, files and edits). `LinkIsTotal` says that
the refusal at the end of `linkMap` is never taken. A term is shared only if it has no
leaf (`MergedTerms`), so that each member's attacks, re-pointed, have the class they had
alone (`OccurrenceKept`, `ExceptionKept`, `CarriedClass`); a generated attack is
typed by the same contraries (`GeneratedIsTyped`); a conflict inside a member is
covered by the attack that covered it there (`OwnConflictCovered`), one across
members by a generated one (`CrossConflictCovered`). `LoadInv` carries to the link that every member
was accepted alone under the contract. `CacheIsOneContract` needs that the
cache never forgets: the contract and the program being loaded are the retained
texts of their files (`CacheInv`).

`OwnGraphsAreKept`: the nodes of a member keep distinct places in the linked unit (a
term of the member's own has no other owner, a shared one is declared by each
of them), a declared attack of the member is carried with both its ends, and one
that saturation generates between two terms of one member only repeats what
the member declared. `UndisturbedStatusHolds` rests on it and on the directionality
of grounded labelling, a lemma on any two frameworks: if one embeds into another,
keeps its attacks, and is attacked from outside nowhere, then its labels
and the status of a claim are its own (`PartKeepsItsLabels`,
`PartKeepsItsStatus`). That needs no bound on the frameworks, which is why
`LeastCompleteExists` is proved for every framework.

**ReplayBundle**, the derivation (any trace and policy). `JustifiedClaimsAreEvidenced`
argues in the framework the checker builds: what answers no question is never
attacked (`OnlyAnswersAreAttacked`), so that what it attacks is not accepted
(`AcceptedIsUncountered`). Its one hypothesis, `Separates`, says of a policy that
evidence against an answer cannot itself answer a question: no question asks for
an exception, or for the contrary of what another asks. `elaborate.py` takes its policies
from `examples/E1`; the one there and those of the run satisfy it. Where it fails, evidence against a claim may be
attacked itself and the claim be justified in spite of it.

**ReplayBundle**, the bundle (any number of runs, edits and faults). `BundleInv`
says place by place, of a run no other overlaps, what it has read and from
which source (`AsRead`, `FromInputs`), which of its files are written
(`Elaborated`), which are moved, installed and put back (`Moved`), and that the installed
files are of one freeze (`OfOne`). `Overlaps` says that two runs under way have
marked each other, which is why a run without a mark makes every step since
its start itself (`Alone`). Results: `ElaboratorIsTransactional`,
`FreezerIsTransactional`, `FrozenBundlesReplay`.

Each module's assumptions on its constants are named (`ArgsAssumption`,
`TermAssumption`, `ListAssumption`, `UpdateAssumption`, `ArgAssumption`, `DeclAssumption`,
`WriterAssumption`, `PackageAssumption`, `PoolAssumption`, `BudgetAssumption`, `EnumerationAssumption`,
`ShapeAssumption`, `LoadAssumption`, `BundleAssumption`) and
evaluated by TLC in the runs.

**Only model-checked:** liveness (`Terminates`, `EveryCellRecorded`,
`EndsReplayable`): fairness and ENABLED are out of the prover's reach. Every invariant
and action property of a passing run is stated by a theorem.

Type invariants are stated with the proofs, or in the modules they are about, and proved
as parts of the inductive invariants. The other modules declare the range of each variable in a
comment at its declaration and spend their properties on
behaviour.

## 5. Findings

*A failed checkpoint can lose its discrepancy* (`inquiry_interrupt`).
`scripts/inquiry-evaluate.py:231` appends the failed checkpoint before line
233 attaches it as the discrepancy; a signal between them seals a run
that replay refuses, where `docs/evaluation.md:41` promises that the
discrepancy retains the failed predicates. The passing run excludes signals at
that one step (`"mark"`) and nothing else.

Facts met while modelling that no run is spent on:

* *Ledger.* The call of `smoke` (`scripts/inquiry-p9.py:311`) is charged and never
  admitted, though the docstring at line 247 and `docs/evaluation.md:382` speak of every
  call; `CeilingHolds` states by how much the ledger can pass the ceiling because of it. A
  run that is killed after a call and before its record makes the call again
  when it is given again (`KillsBoundLoss` bounds it).
* *Ledger.* `score` raises on JSON that is no object: on an agent's answer
  (line 383) whenever the ceiling admits its call, so that no cell after it is scored; on a scorer's after the
  charge (line 402), so that giving `score` again pays for the call again.
* *check-ara* interrupted after the rename and before its bracket ends exits 2
  with its bundle in place (the exception `ExitTruthful` names). A temporary
  directory whose removal fails stays, with exit 2 (the exception of
  `NothingPartial`), where `docs/evidence-admission-design.md:105` says that failure
  removes the temporary output.
* *Elaborator.* A trace value of an unhashable type ends in a TypeError that
  `main` does not catch, exit 1 and no cleanup, where the header of `elaborate.py` (lines
  20-24) speaks of one failure exit and of no stale file on any failure; an interrupt
  between two renames leaves a mixture too. `ElaborateIsTransactional` is about
  exits 0 and 2. Of several experiments that support one
  claim, only the first is undercut by a matching cell (line 835):
  `JustifiedIsEvidenced` says so. The cleanup of one run removes the files of another that
  overlaps it; `beside` names those runs.
* *Freezer.* An interrupt (not an OSError) during the installation skips the
  rollback, and the backups go with the staging directory, so
  that the bundle lacks a file and a replay refuses it. The rollback restores the
  manifest before the files it speaks of (line 203): one that fails after that, or
  is cut short, leaves the old manifest over new files (`stuck` names those runs;
  the message of line 213 tells of a failed one). A staging directory that cannot be
  removed makes a freeze exit 2 with its new manifest in place, which the header
  (line 14) excludes: `FreezeRestores` names that outcome. A program that
  disappears between the copy and the check is frozen with the verdict of exit 2.
* *Link.* The comment at `Map/Link.hs:771` calls a generated attack of a
  co-owned term on a term of one of its owners forced. In accepted members it
  is inert: that owner's check already demanded an attack that covers the pair.

## 6. What the models leave out

* *Crashes of the operating system.* The output file is renamed without fsync; the
  models' crashes are kills of the process.
* *Failures of writing to standard output* and of reporting an error.
* *Data*: propositions stand for their equivalence classes, terms in `CheckUnit`
  and `Quarantine` for their subterm relation, documents for versions, captures
  of one child's two streams for one file.
* In `Quarantine` every attack endpoint is declared; the checker's refusal of
  an undeclared one (R1) is in `CheckUnit`.
* In `InquiryMeasure`, the `active_operation` marker, the wording of stop
  reasons and the semantic predicates over decoded products.
* Two P9 runs given at once on one ledger: the study has one operator. Two
  freezers at once on one bundle, for the same reason: `Identify` has a guard the code
  lacks. Edits of a bundle's own files by hand.
* In `AtomicWrite`, an interrupt inside the cleanup itself.
* In `ProcessRecords`, compound guards and queries (`GuardNot`, `GuardAnd`, `GuardOr` of
  `Family.hs`, `QueryNot`, `QueryAnd`, `QueryOr` of `History.hs`): Boolean
  combinations of the modelled ones.
* In `MapLink`, policies differ in contraries, exceptions, admission and
  soundness only; the policy's other rows, alignments and questions are left out.
* In `Elaborator`, the parsing of traces and policies, the support and none
  roles of the provenance log, and unbound variables of a policy's rules.
* *Not modelled at all.* The parts of Section 1.3 marked so: formats, parsers and
  proof-object checkers, which have no state and no interaction; generators,
  reports and gates, which are one process that reads files and writes one;
  `bench_container.py` and `evidence-measure.py`, which call external tools in sequence and keep
  nothing but their report. Most Python lines of the repository are frozen
  copies of its own scripts under `ara/evidence`, notebooks, tests and such
  gates; the models concern the Haskell core and the five scripts that keep state.

## 7. Plan

Done, in this order: Grounded and its proofs; CheckUnit; Quarantine; AtomicWrite
with its register; EvidenceBundle; SpendLedger; ProcessHistory and
FamilyEnumeration; InquiryMeasure; SourceUpdate; Elaborator and ReplayBundle;
MapLink, MapLoad and their proofs; ProcessVerdict, which composes history,
record and enumeration.

Left, models:

1. The admission chain and replay preflight (`Admission/Internal.hs`,
   `Replay.hs`) composed with Quarantine.
2. The tables of process analyses, audits and impact over the verdict of
   ProcessVerdict.
3. Support inference as a recursive function against a reference definition; the
   order backend's cycle search; the value-binding fixpoint of elaboration.

Left, proofs: of each further model its invariants. Of what is modelled, the invariants
and action properties are proved.

## 8. Running

    tlc -workers 2 -config Grounded3.cfg Grounded.tla
    tlapm VerdictProofs.tla

and likewise for the other rows of Section 3 (the module of a run is in
`PROJECT.json`) and the other `*Proofs` modules.
