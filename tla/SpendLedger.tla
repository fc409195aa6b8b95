----------------------------- MODULE SpendLedger -----------------------------
(***************************************************************************)
(* The P9 runner (scripts/inquiry-p9.py): the commands `smoke', `run' and  *)
(* `score' make billed calls against one spend ledger and one ceiling.     *)
(* A command may be killed between any two of its steps and started again; *)
(* `run' resumes by skipping the cells that have a record.json.            *)
(*                                                                         *)
(* One command runs at a time.  Cells are numbered in the frozen order.    *)
(***************************************************************************)
EXTENDS Naturals, FiniteSetsExt

CONSTANTS
  Cells,      \* the (task, arm) cells are 1 .. Cells
  Ceiling, RunCap, ScoreCap, SmokeCap,
  Commands,   \* the commands that are given
  MaxKills,   \* bound: kills
  MaxSmokes   \* bound: smoke commands

Cell == 1 .. Cells

ASSUME BudgetAssumption ==
  /\ {Cells, Ceiling, RunCap, ScoreCap, SmokeCap, MaxKills, MaxSmokes} \subseteq Nat
  /\ Commands \subseteq {"run", "score", "smoke"}

VARIABLES
  ledger,   \* what spend.jsonl sums to
  dirs,     \* the cells that have a directory
  record,   \* each cell's record.json
  parsed,   \* what its final text holds
  scored,   \* each cell's score.json
  command,  \* the command that runs, or "idle"
  step,     \* what it does next
  cell,     \* the cell it is at, 0 before the first
  bill,     \* the record it holds: whether a call was made, and its result
  calls,    \* history: the agent calls made for each cell
  paid,     \* history: what all calls cost
  kills, smokes

files   == <<ledger, dirs, record, parsed, scored>>
driver  == <<command, step, cell, bill>>
history == <<calls, paid>>
ledgerVars    == <<files, driver, history, kills, smokes>>

\* The JSON a final text ends with: none that counts, one its reader takes for
\* an object, or one the reader raises on.
Reply == {"none", "object", "other"}

Bill == [called : BOOLEAN, cost : Nat, reported : BOOLEAN, answer : Reply]
NoBill == [called |-> FALSE, cost |-> 0, reported |-> TRUE, answer |-> "none"]

LedgerInit ==
  /\ ledger = 0 /\ dirs = {}
  /\ record = [c \in Cell |-> "none"]
  /\ parsed = [c \in Cell |-> "none"]
  /\ scored = [c \in Cell |-> "none"]
  /\ command = "idle" /\ step = "next" /\ cell = 0 /\ bill = NoBill
  /\ calls = [c \in Cell |-> 0] /\ paid = 0
  /\ kills = 0 /\ smokes = 0

Cap == CASE command = "run" -> RunCap [] command = "score" -> ScoreCap [] OTHER -> SmokeCap

\* Ledger.admit: the whole cap has to fit under the ceiling.
AdmitWhateverFits(cap) == ledger <= Ceiling
Admit(cap) == ledger + cap <= Ceiling

-----------------------------------------------------------------------------
(* Commands start, end and are killed. *)

StartRun ==
  /\ command = "idle" /\ "run" \in Commands
  /\ command' = "run"
  /\ UNCHANGED <<files, step, cell, bill, history, kills, smokes>>

StartScore ==
  /\ command = "idle" /\ "score" \in Commands
  /\ command' = "score"
  /\ UNCHANGED <<files, step, cell, bill, history, kills, smokes>>

\* smoke builds its workspace and goes to its call.
StartSmoke ==
  /\ command = "idle" /\ "smoke" \in Commands
  /\ smokes < MaxSmokes
  /\ smokes' = smokes + 1
  /\ command' = "smoke" /\ step' = "call" /\ cell' = 0
  /\ UNCHANGED <<files, bill, history, kills>>

End ==
  /\ command' = "idle" /\ step' = "next" /\ cell' = 0 /\ bill' = NoBill

\* A kill loses what the command holds in memory.
KillCommand ==
  /\ command # "idle" /\ kills < MaxKills
  /\ kills' = kills + 1
  /\ End
  /\ UNCHANGED <<files, history, smokes>>

-----------------------------------------------------------------------------
(* run. *)

\* A record.json that exists, whole or not, makes the cell skipped.
ToRunAgain == {c \in Cell : c > cell}
ToRun == {c \in Cell : c > cell /\ record[c] = "none"}

RunCell ==
  /\ command = "run" /\ step = "next" /\ ToRun # {}
  /\ cell' = Min(ToRun)
  /\ dirs' = dirs \cup {cell'}
  /\ step' = "admit"
  /\ UNCHANGED <<ledger, record, parsed, scored, command, bill, history, kills, smokes>>

RunAdmits ==
  /\ command = "run" /\ step = "admit" /\ Admit(RunCap)
  /\ step' = "call"
  /\ UNCHANGED <<files, command, cell, bill, history, kills, smokes>>

NotRunUnrecorded ==
  /\ command = "run" /\ step = "admit" /\ ~ Admit(RunCap)
  /\ step' = "next"
  /\ UNCHANGED <<files, command, cell, bill, history, kills, smokes>>
NotRun ==
  /\ command = "run" /\ step = "admit" /\ ~ Admit(RunCap)
  /\ bill' = NoBill
  /\ step' = "dump"
  /\ UNCHANGED <<files, command, cell, history, kills, smokes>>

\* dump writes record.json in place: it exists before it is whole.
OpenRecord ==
  /\ command = "run" /\ step = "dump"
  /\ record' = [record EXCEPT ![cell] = "torn"]
  /\ step' = "write"
  /\ UNCHANGED <<ledger, dirs, parsed, scored, command, cell, bill, history, kills, smokes>>

WriteRecord ==
  /\ command = "run" /\ step = "write"
  /\ record' = [record EXCEPT ![cell] = IF bill.called THEN "ran" ELSE "not_run"]
  /\ parsed' = [parsed EXCEPT ![cell] = bill.answer]
  /\ bill' = NoBill
  /\ step' = "next"
  /\ UNCHANGED <<ledger, dirs, scored, command, cell, history, kills, smokes>>

RunEnds ==
  /\ command = "run" /\ step = "next" /\ ToRun = {}
  /\ End
  /\ UNCHANGED <<files, history, kills, smokes>>

-----------------------------------------------------------------------------
(* A billed call and its charge, of every command. *)

\* The CLI holds a call to its cap and may end without reporting its cost.
\* Nothing reads what a smoke call answers.
Call ==
  /\ step = "call"
  /\ \E cost \in 0 .. Cap, reported \in BOOLEAN,
       answer \in IF command = "smoke" THEN {"none"} ELSE Reply :
       /\ bill' = [called |-> TRUE, cost |-> cost, reported |-> reported, answer |-> answer]
       /\ paid' = paid + cost
  /\ calls' = IF command = "run" THEN [calls EXCEPT ![cell] = @ + 1] ELSE calls
  /\ step' = "charge"
  /\ UNCHANGED <<files, command, cell, kills, smokes>>

\* Ledger.charge: an unreported cost is charged at the full cap.
Charged == IF bill.reported THEN bill.cost ELSE Cap

Charge ==
  /\ step = "charge"
  /\ ledger' = ledger + Charged
  /\ step' = "dump"
  /\ UNCHANGED <<dirs, record, parsed, scored, command, cell, bill, history, kills, smokes>>

SmokeEnds ==
  /\ command = "smoke" /\ step = "dump"
  /\ End
  /\ UNCHANGED <<files, history, kills, smokes>>

-----------------------------------------------------------------------------
(* score: the cells that have a directory, in an order of its own. *)

ToScore == {c \in dirs : scored[c] = "none"}

\* A record.json that is missing or torn does not load: the command raises.
ScoreCell(c) ==
  /\ command = "score" /\ step = "next" /\ c \in ToScore
  /\ IF record[c] \in {"ran", "not_run"}
     THEN /\ cell' = c
          /\ step' = IF parsed[c] = "none" THEN "dump" ELSE "admit"
          /\ UNCHANGED <<command, bill>>
     ELSE End
  /\ UNCHANGED <<files, history, kills, smokes>>

\* Once admitted, an answer that dict() refuses raises before the call.
ScoreAdmit ==
  /\ command = "score" /\ step = "admit"
  /\ IF Admit(ScoreCap) /\ parsed[cell] = "other"
     THEN End
     ELSE /\ step' = IF Admit(ScoreCap) THEN "call" ELSE "dump"
          /\ UNCHANGED <<command, cell, bill>>
  /\ UNCHANGED <<files, history, kills, smokes>>

\* A scorer's verdict that is no object raises once its call is charged: the
\* cell has no score.json, and score given again makes the call again.
Unreadable == bill.called /\ bill.answer = "other"

ScoreRaises ==
  /\ command = "score" /\ step = "dump" /\ Unreadable
  /\ End
  /\ UNCHANGED <<files, history, kills, smokes>>

OpenScore ==
  /\ command = "score" /\ step = "dump" /\ ~ Unreadable
  /\ scored' = [scored EXCEPT ![cell] = "torn"]
  /\ step' = "write"
  /\ UNCHANGED <<ledger, dirs, record, parsed, command, cell, bill, history, kills, smokes>>

WriteScore ==
  /\ command = "score" /\ step = "write"
  /\ scored' = [scored EXCEPT ![cell] = "whole"]
  /\ bill' = NoBill
  /\ step' = "next"
  /\ UNCHANGED <<ledger, dirs, record, parsed, command, cell, history, kills, smokes>>

ScoreEnds ==
  /\ command = "score" /\ step = "next" /\ ToScore = {}
  /\ End
  /\ UNCHANGED <<files, history, kills, smokes>>

Proceed ==
  \/ RunCell \/ RunAdmits \/ NotRun \/ OpenRecord \/ WriteRecord \/ RunEnds
  \/ Call \/ Charge \/ SmokeEnds
  \/ (\E c \in Cell : ScoreCell(c)) \/ ScoreAdmit \/ ScoreRaises \/ OpenScore \/ WriteScore
  \/ ScoreEnds

LedgerNext == StartRun \/ StartScore \/ StartSmoke \/ Proceed \/ KillCommand

\* A command left alone proceeds, and run is given until it has nothing to do.
LedgerSpec == LedgerInit /\ [][LedgerNext]_ledgerVars /\ WF_ledgerVars(Proceed) /\ SF_ledgerVars(StartRun)

-----------------------------------------------------------------------------
(* Properties. *)

\* Over every kill and resumption the ledger passes the ceiling by the smoke
\* call at most, which nobody admits; and a cell is recorded "not run" only for
\* the ceiling, when no later event makes room for it: "no replenishment".
CeilingHolds ==
  /\ ledger <= Ceiling + smokes * SmokeCap
  /\ \A c \in Cell : record[c] = "not_run" => ledger + RunCap > Ceiling

\* What was really paid is in the ledger, but for the call in progress and one
\* call of every kill: that is all the ledger can lose.
LossBounded ==
  paid <= ledger + (IF step = "charge" THEN bill.cost ELSE 0)
            + kills * Max({RunCap, ScoreCap, SmokeCap})

\* run calls the agent again for a cell only when a kill lost its record.
Repeats == UNION {{c} \X (2 .. calls[c]) : c \in Cell}
RepeatsAreKills == Cardinality(Repeats) <= kills

TornRecords == {c \in Cell : record[c] = "torn"}
TornScores  == {c \in Cell : scored[c] = "torn"}

\* For each kill no more than one call of any command is missing from the
\* ledger, one agent call of run is made again, and one file is left torn, if
\* not by the command in progress.  What score raises on loses none of these,
\* though the scorer's calls it repeats are not counted here.
KillsBoundLoss ==
  /\ LossBounded /\ RepeatsAreKills
  /\ Cardinality(TornRecords) + Cardinality(TornScores)
       <= kills + (IF step = "write" THEN 1 ELSE 0)

\* In the end every cell has a record.json, of its run or of the ceiling that
\* stopped it, save one torn file a kill, which run takes for a record and never
\* writes again: run, given again after a kill, comes to its end.
EveryCellRecorded ==
  <>[](/\ \A c \in Cell : record[c] # "none"
       /\ Cardinality(TornRecords) <= kills)

=============================================================================
