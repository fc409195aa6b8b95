---------------------------- MODULE InquiryMeasure ----------------------------
(***************************************************************************)
(* One bounded inquiry capture (scripts/inquiry-evaluate.py, measure): the *)
(* planned driver and consumer invocations, the checkpoint after each pair *)
(* of drivers, the publication of run.json and the one recovery of reports.*)
(* A signal or a failed system call may end any step; the aggregate        *)
(* deadline may pass at any time.  Whoever looks at the directory at any   *)
(* moment may replay it (validate_saved).                                  *)
(***************************************************************************)
EXTENDS Integers, Sequences, FiniteSets

CONSTANTS
  Cases,          \* how many cases the manifest plans; two drivers run on each
  MaxFaults,      \* how many signals and failed calls a run meets at most
  Interruptible   \* the steps at which a signal may arrive

ASSUME MeasureAssumption == Cases \in Nat

Planned == 2 * Cases
Reports == 1 .. 3  \* results.jsonl, summary.json, summary.tsv
None == [none |-> TRUE]

VARIABLES
  at,       \* the next step of the runner
  next,     \* the planned invocation the loop is at
  pending,  \* what an invocation returned and the run does not hold yet
  report,   \* the report being written, and which file is next
  run,      \* the run in memory
  disk,     \* the output directory: raw captures, report files, archive, run.json
  late,     \* whether the aggregate deadline has passed
  faults,   \* signals and failed calls so far
  ended     \* "none", "pass" or "fail"

measureVars == <<at, next, pending, report, run, disk, late, faults, ended>>

\* The steps, by the handler that covers them.
Body    == {"begin", "loop", "announce", "driver", "attach", "announceConsumer", "consumer",
            "attachConsumer", "progress", "append", "mark", "checkpoint"}
Sealing == {"score", "link", "hash", "seal", "replace", "published"}
Recovery == {"reset", "archive", "rescore", "rewrite", "reseal"}
Steps   == Body \cup {"after", "scan", "raise"} \cup Sealing \cup Recovery \cup {"end"}

-----------------------------------------------------------------------------
(* Scores and reports. *)

\* semantic_checkpoint of score_pair: every driver right and accepted.
PairPasses(invocations, c) ==
  /\ 2 * c <= Len(invocations)
  /\ \A k \in {2 * c - 1, 2 * c} : invocations[k].driver = "right" /\ invocations[k].consumer = "accepted"

\* summary and report_bytes over the scored pairs: what the bytes depend on.
ReportOf(r) ==
  [invocations |-> r.invocations, unattached |-> r.unattached,
   complete |-> r.complete, missing |-> r.missing, elapsed |-> r.elapsed]

Passed(r) ==
  /\ r.complete /\ r.missing = 0
  /\ \A c \in 1 .. Cases : PairPasses(r.invocations, c)

Missing(r) == Planned - Len(r.invocations)

-----------------------------------------------------------------------------
(* Steps that publish and the loop over the planned invocations. *)

MeasureInit ==
  /\ at = "begin" /\ next = 1 /\ pending = None /\ report = [value |-> None, file |-> 1]
  /\ run = [invocations |-> << >>, captures |-> {}, unattached |-> {}, hashes |-> [i \in Reports |-> None],
            checkpoints |-> << >>, discrepancy |-> 0, complete |-> FALSE, missing |-> 0,
            sealed |-> FALSE, elapsed |-> 0]
  /\ disk = [raw |-> {}, files |-> [i \in Reports |-> None], archive |-> [i \in Reports |-> None],
             status |-> None]
  /\ late = FALSE /\ faults = 0 /\ ended = "none"

\* progress: missing and elapsed are taken anew and run.json is replaced.
Progressed(r) == [r EXCEPT !.missing = Missing(r), !.elapsed = @ + 1]

Publish(from, to) ==
  /\ at = from /\ at' = to
  /\ run' = Progressed(run)
  /\ disk' = [disk EXCEPT !.status = run']
  /\ UNCHANGED <<next, pending, report, late, faults, ended>>

Begin            == Publish("begin", "loop")
Announce         == Publish("announce", "driver")
AnnounceConsumer == Publish("announceConsumer", "consumer")

Loop ==
  /\ at = "loop"
  /\ \/ /\ next > Planned
        /\ run' = [run EXCEPT !.complete = TRUE] /\ at' = "after"
     \/ /\ next <= Planned /\ late
        /\ at' = "after" /\ UNCHANGED run
     \/ /\ next <= Planned /\ ~ late
        /\ at' = "announce" /\ UNCHANGED run
  /\ UNCHANGED <<next, pending, report, disk, late, faults, ended>>

\* invoke: the captures are created first and survive whatever happens; a late
\* start, a timeout, a death and a signal while waiting come back as a failure.
Invoke(from, to, stream, results) ==
  /\ at = from /\ at' = to
  /\ <<next, stream>> \notin disk.raw
  /\ \E result \in IF late THEN {"failed"} ELSE results : pending' = [result |-> result]
  /\ disk' = [disk EXCEPT !.raw = @ \cup {<<next, stream>>}]
  /\ UNCHANGED <<next, report, run, late, faults, ended>>

Driver   == Invoke("driver", "attach", "driver", {"right", "wrong", "failed"})
Consumer == Invoke("consumer", "attachConsumer", "consumer", {"accepted", "refused", "failed"})

Attach ==
  /\ at = "attach"
  /\ run' = [run EXCEPT !.invocations = Append(@, [planned |-> next, driver |-> pending.result, consumer |-> "none"]),
                        !.captures = @ \cup {<<next, "driver">>}]
  /\ at' = IF pending.result = "failed" THEN "after" ELSE "announceConsumer"
  /\ pending' = None
  /\ UNCHANGED <<next, report, disk, late, faults, ended>>

AttachConsumer ==
  /\ at = "attachConsumer" /\ at' = "progress"
  /\ run' = [run EXCEPT !.invocations[next].consumer = pending.result,
                        !.captures = @ \cup {<<next, "consumer">>}]
  /\ pending' = None
  /\ UNCHANGED <<next, report, disk, late, faults, ended>>

\* A failed consumer stops the run; the second driver of a case is scored.
AfterConsumerUnscored == IF next % 2 = 0 /\ next < Planned THEN "append" ELSE "loop"
AfterConsumer ==
  CASE run.invocations[next].consumer = "failed" -> "after"
    [] next % 2 = 0 -> "append"
    [] OTHER -> "loop"

Progress ==
  /\ at = "progress" /\ at' = AfterConsumer
  /\ run' = Progressed(run)
  /\ disk' = [disk EXCEPT !.status = run']
  /\ next' = IF at' = "loop" THEN next + 1 ELSE next
  /\ UNCHANGED <<pending, report, late, faults, ended>>

-----------------------------------------------------------------------------
(* checkpoint_pair: score and append, attach the discrepancy, publish. *)

AppendCheckpoint ==
  /\ at = "append" /\ at' = "mark"
  /\ run' = [run EXCEPT !.checkpoints = Append(@, PairPasses(run.invocations, next \div 2))]
  /\ UNCHANGED <<next, pending, report, disk, late, faults, ended>>

DiscrepancyAfterNone(checkpoints) == 0
DiscrepancyAfter(checkpoints) == IF checkpoints[Len(checkpoints)] THEN 0 ELSE Len(checkpoints)

MarkDiscrepancy ==
  /\ at = "mark" /\ at' = "checkpoint"
  /\ run' = [run EXCEPT !.discrepancy = DiscrepancyAfter(run.checkpoints)]
  /\ UNCHANGED <<next, pending, report, disk, late, faults, ended>>

AfterCheckpoint == IF run.checkpoints[Len(run.checkpoints)] THEN "loop" ELSE "after"

Checkpoint ==
  /\ at = "checkpoint" /\ at' = AfterCheckpoint
  /\ run' = Progressed(run)
  /\ disk' = [disk EXCEPT !.status = run']
  /\ next' = IF at' = "loop" THEN next + 1 ELSE next
  /\ UNCHANGED <<pending, report, late, faults, ended>>

-----------------------------------------------------------------------------
(* The end of a run: inventory, score, reports, status. *)

After ==
  /\ at = "after" /\ at' = "scan"
  /\ run' = [run EXCEPT !.missing = Missing(run)]
  /\ UNCHANGED <<next, pending, report, disk, late, faults, ended>>

Scanned == run.captures \cup disk.raw

Scan ==
  /\ at = "scan" /\ at' = "score"
  /\ run' = [run EXCEPT !.captures = Scanned, !.unattached = disk.raw \ run.captures]
  /\ UNCHANGED <<next, pending, report, disk, late, faults, ended>>

\* A failed inventory publishes an unsealed checkpoint and raises.
Raise ==
  /\ at = "raise"
  /\ run' = Progressed(run)
  /\ disk' = [disk EXCEPT !.status = run']
  /\ at' = "end" /\ ended' = "fail"
  /\ UNCHANGED <<next, pending, report, late, faults>>

\* The report is made of the final elapsed time and completion.
Finished(r) == [r EXCEPT !.elapsed = @ + 1, !.complete = @ /\ ~ late]

Score ==
  /\ at = "score" /\ at' = "link"
  /\ run' = Finished(run)
  /\ report' = [value |-> ReportOf(run'), file |-> 1]
  /\ UNCHANGED <<next, pending, disk, late, faults, ended>>

\* write_new: exclusive creation, then the inventory.
Link ==
  /\ at = "link" /\ at' = "hash"
  /\ disk.files[report.file] = None
  /\ disk' = [disk EXCEPT !.files[report.file] = report.value]
  /\ UNCHANGED <<next, pending, report, run, late, faults, ended>>

Hash ==
  /\ at = "hash"
  /\ run' = [run EXCEPT !.hashes[report.file] = report.value]
  /\ IF report.file + 1 \in Reports
     THEN at' = "link" /\ report' = [report EXCEPT !.file = @ + 1]
     ELSE at' = "seal" /\ UNCHANGED report
  /\ UNCHANGED <<next, pending, disk, late, faults, ended>>

-----------------------------------------------------------------------------
(* The terminal status and the recovery. *)

\* What an exception while sealing leaves to recover_reports.
Recovering(r) == [r EXCEPT !.complete = FALSE, !.sealed = FALSE]

MissesDeadlineNever == FALSE
MissesDeadline == late

\* publish_status with the deadline: the check comes after the flush.
Seal ==
  /\ at = "seal"
  /\ IF MissesDeadline
     THEN at' = "reset" /\ run' = Recovering([run EXCEPT !.sealed = TRUE])
     ELSE at' = "replace" /\ run' = [run EXCEPT !.sealed = TRUE]
  /\ UNCHANGED <<next, pending, report, disk, late, faults, ended>>

Replace ==
  /\ at = "replace" /\ at' = "published"
  /\ disk' = [disk EXCEPT !.status = run]
  /\ UNCHANGED <<next, pending, report, run, late, faults, ended>>

Leave(from) ==
  /\ at = from /\ at' = "end"
  /\ ended' = IF Passed(report.value) THEN "pass" ELSE "fail"
  /\ UNCHANGED <<next, pending, report, run, disk, late, faults>>

Published == Leave("published")

Reset ==
  /\ at = "reset" /\ at' = "archive"
  /\ run' = Progressed(run)
  /\ disk' = [disk EXCEPT !.status = run']
  /\ report' = [report EXCEPT !.file = 1]
  /\ UNCHANGED <<next, pending, late, faults, ended>>

ArchivedNothing(old, i) == None
Archived(old, i) == old[i]

\* Prior report bytes are kept before they are replaced.
Archive ==
  /\ at = "archive"
  /\ disk' = [disk EXCEPT !.archive[report.file] = Archived(disk.files, report.file)]
  /\ run' = [run EXCEPT !.hashes[report.file] = None]
  /\ IF report.file + 1 \in Reports
     THEN at' = "archive" /\ report' = [report EXCEPT !.file = @ + 1]
     ELSE at' = "rescore" /\ UNCHANGED report
  /\ UNCHANGED <<next, pending, late, faults, ended>>

Rescore ==
  /\ at = "rescore" /\ at' = "rewrite"
  /\ run' = [run EXCEPT !.elapsed = @ + 1]
  /\ report' = [value |-> ReportOf(run'), file |-> 1]
  /\ UNCHANGED <<next, pending, disk, late, faults, ended>>

Rewrite ==
  /\ at = "rewrite"
  /\ disk' = [disk EXCEPT !.files[report.file] = report.value]
  /\ run' = [run EXCEPT !.hashes[report.file] = report.value]
  /\ IF report.file + 1 \in Reports
     THEN at' = "rewrite" /\ report' = [report EXCEPT !.file = @ + 1]
     ELSE at' = "reseal" /\ UNCHANGED report
  /\ UNCHANGED <<next, pending, late, faults, ended>>

Reseal ==
  /\ at = "reseal" /\ at' = "end"
  /\ run' = [run EXCEPT !.sealed = TRUE]
  /\ disk' = [disk EXCEPT !.status = run']
  /\ ended' = IF Passed(report.value) THEN "pass" ELSE "fail"
  /\ UNCHANGED <<next, pending, report, late, faults>>

-----------------------------------------------------------------------------
(* Faults and time. *)

\* The steps whose system calls may fail.
Failing == Steps \ {"loop", "mark", "after", "seal", "end"}

\* The handler an exception at a step ends in.
Handled ==
  \/ /\ at \in Body
     /\ at' = "after" /\ UNCHANGED <<run, report, ended>>
  \/ /\ at = "scan"
     /\ at' = "raise" /\ run' = Recovering(run) /\ UNCHANGED <<report, ended>>
  \/ /\ at \in Sealing
     /\ at' = "reset" /\ run' = Recovering(run) /\ UNCHANGED <<report, ended>>
  \/ /\ at \in Recovery \cup {"after", "raise"}
     /\ at' = "end" /\ ended' = "fail" /\ UNCHANGED <<run, report>>

Fault ==
  /\ faults < MaxFaults /\ faults' = faults + 1
  /\ at \in Failing \cup Interruptible /\ at # "end"
  /\ Handled
  /\ UNCHANGED <<next, pending, disk, late>>

Expire ==
  /\ ~ late /\ late' = TRUE /\ at # "end"
  /\ UNCHANGED <<at, next, pending, report, run, disk, faults, ended>>

Step ==
  \/ Begin \/ Loop \/ Announce \/ Driver \/ Attach \/ AnnounceConsumer \/ Consumer \/ AttachConsumer
  \/ Progress \/ AppendCheckpoint \/ MarkDiscrepancy \/ Checkpoint \/ After \/ Scan \/ Raise
  \/ Score \/ Link \/ Hash \/ Seal \/ Replace \/ Published
  \/ Reset \/ Archive \/ Rescore \/ Rewrite \/ Reseal

MeasureNext == Step \/ Fault \/ Expire

\* Every call of the runner returns: a child is waited for with a timeout.
MeasureSpec == MeasureInit /\ [][MeasureNext]_measureVars /\ WF_measureVars(Step)

-----------------------------------------------------------------------------
(* validate_saved, on the directory as it is. *)

CheckpointsReplay(saved) ==
  LET failed == {c \in DOMAIN saved.checkpoints : ~ saved.checkpoints[c]}
  IN  /\ Len(saved.checkpoints) <= Cases
      /\ \A c \in DOMAIN saved.checkpoints :
           /\ 2 * c <= Len(saved.invocations)
           /\ \A k \in {2 * c - 1, 2 * c} : saved.invocations[k].consumer # "none"
           /\ saved.checkpoints[c] = PairPasses(saved.invocations, c)
      /\ failed # {} => failed = {Len(saved.checkpoints)}
                        /\ Len(saved.invocations) = 2 * Len(saved.checkpoints)
      /\ saved.discrepancy = IF failed = {} THEN 0 ELSE Len(saved.checkpoints)
      /\ saved.complete => Len(saved.checkpoints) = Cases /\ failed = {}

Replays(d) ==
  /\ d.status # None /\ d.status.sealed
  /\ d.status.captures \subseteq d.raw
  /\ \A k \in DOMAIN d.status.invocations :
       /\ d.status.invocations[k].planned = k
       /\ <<k, "driver">> \in d.status.captures
       /\ d.status.invocations[k].consumer # "none" => <<k, "consumer">> \in d.status.captures
  /\ d.status.missing = Missing(d.status)
  /\ d.status.complete => d.status.missing = 0
  /\ CheckpointsReplay(d.status)
  /\ \A i \in Reports : d.status.hashes[i] = ReportOf(d.status) /\ d.files[i] = d.status.hashes[i]

ReplaysAsPass(d) == Replays(d) /\ Passed(d.files[2])

\* A PASS is in the directory, or all that is left is to replace run.json.
PassComing == ReplaysAsPass(disk) \/ (at = "replace" /\ Passed(report.value))

-----------------------------------------------------------------------------
(* Properties. *)

\* Whenever a sealed run.json is in the directory, replay accepts the directory
\* as it is at that moment: its captures, its checkpoints, its discrepancy and
\* the bytes of all three reports; and the inventory holds every capture, those
\* included that no invocation record was attached to.
SealedReplays ==
  disk.status # None /\ disk.status.sealed =>
    Replays(disk) /\ disk.raw = disk.status.captures

\* A replayable PASS is earned: every planned invocation of both drivers was
\* captured, right and accepted, and every pair has a passed checkpoint; and
\* exit 0 is given only for a directory that replays as PASS.
PassIsEarned ==
  /\ ReplaysAsPass(disk) =>
       /\ disk.raw = (1 .. Planned) \X {"driver", "consumer"}
       /\ \A k \in 1 .. Planned : run.invocations[k].driver = "right" /\ run.invocations[k].consumer = "accepted"
       /\ run.checkpoints = [c \in 1 .. Cases |-> TRUE]
  /\ ended = "pass" => ReplaysAsPass(disk)

\* A run that is late is not on its way to a PASS from then on, unless the
\* deadline passed during the replacement itself.
LateNeverPasses == [][late => (PassComing' => PassComing)]_measureVars

\* Both: a PASS is earned by every pair and within the deadline.
PassesAreEarned == []PassIsEarned /\ LateNeverPasses

\* Captures are never removed, and the bytes of a report are replaced only
\* when the archive holds them.
EvidenceKept ==
  [][/\ disk.raw \subseteq disk'.raw
     /\ \A i \in Reports :
          disk.files[i] # None /\ disk'.files[i] # disk.files[i] => disk.archive[i] = disk.files[i]]_measureVars

\* A run that meets no fault ends with a replayable directory, late or not.
EndsReplayable == <>(faults > 0 \/ (at = "end" /\ Replays(disk)))

\* A failed pair that was scored is kept as the discrepancy of the sealed run,
\* whatever stopped the run afterwards (docs/evaluation.md).
DiscrepancyRetained ==
  disk.status # None /\ disk.status.sealed =>
    \A c \in DOMAIN disk.status.checkpoints : ~ disk.status.checkpoints[c] => disk.status.discrepancy = c
=============================================================================
