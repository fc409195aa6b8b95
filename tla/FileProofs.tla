------------------------------ MODULE FileProofs ------------------------------
(***************************************************************************)
(* What files hold after any number of kills, signals and failed calls: the*)
(* spend ledger and the records of the P9 runner (SpendLedger), the        *)
(* destination of --out (AtomicWrite) and the output directory of an       *)
(* inquiry measurement (InquiryMeasure), for any number of cells, commands,*)
(* readers, cases and faults and a verdict of any size.                    *)
(*                                                                         *)
(* Of the ledger the inductive invariant says where each command can be,   *)
(* that the room an admission made is still there when its call is charged,*)
(* and that each call, file and cost out of the ledger's sight belongs to  *)
(* the command in progress or to a kill of its own.  Of the output file it *)
(* says how full a file is at each step of its writer, and that a file the *)
(* destination has ever named is finished and stays so.  Of the measurement*)
(* it says which captures exist and what they were attached to (Evidence), *)
(* how many pairs are scored at each step of the loop (Scores), where the  *)
(* discrepancy may lag behind them (Discrepancies), what the three files,  *)
(* hashes and archives hold at each step of the sealing and the recovery   *)
(* (Inventories, Reporting), and that a sealed status describes the run    *)
(* that is ending (SealedRun).                                             *)
(***************************************************************************)
EXTENDS SpendLedger, AtomicWrite, InquiryMeasure, FiniteSetTheorems, TLAPS

-----------------------------------------------------------------------------
(* The inductive invariant of the spend ledger. *)

LedgerSteps == {"next", "admit", "call", "charge", "dump", "write"}

LedgerType ==
  /\ ledger \in Nat /\ paid \in Nat /\ kills \in Nat /\ smokes \in Nat
  /\ record \in [Cell -> {"none", "torn", "ran", "not_run"}]
  /\ scored \in [Cell -> {"none", "torn", "whole"}]
  /\ calls \in [Cell -> Nat] /\ bill \in Bill /\ dirs \subseteq Cell
  /\ command \in {"idle", "run", "score", "smoke"} /\ step \in LedgerSteps
  /\ cell \in Nat

\* Where each command can be, and what its cell holds there.
InCommand ==
  /\ command = "idle" => step = "next" /\ cell = 0
  /\ command = "run" /\ step # "next" => cell \in Cell
  /\ command = "run" /\ step \in {"admit", "call", "charge", "dump"} => record[cell] = "none"
  /\ command = "run" /\ step = "write" => record[cell] = "torn"
  /\ command = "run" /\ step \in {"charge", "dump"} /\ bill.called => calls[cell] >= 1
  /\ command = "score" /\ step # "next" => cell \in Cell
  /\ command = "score" /\ step = "write" => scored[cell] = "torn"
  /\ command = "smoke" => step \in {"call", "charge", "dump"} /\ smokes >= 1
  /\ step = "charge" => bill.called /\ bill.cost <= Cap

\* The smoke calls already charged.
Unadmitted == IF command = "smoke" /\ step \in {"call", "charge"} THEN smokes - 1 ELSE smokes

\* The room an admission made is still there when the call is charged.
Room ==
  /\ command \in {"run", "score"} /\ step \in {"call", "charge"} => ledger + Cap <= Ceiling
  /\ ledger <= Ceiling + Unadmitted * SmokeCap
  /\ command = "run" /\ step \in {"dump", "write"} /\ ~ bill.called => ledger + RunCap > Ceiling
  /\ \A c \in Cell : record[c] = "not_run" => ledger + RunCap > Ceiling

\* The calls that are not the first of a recorded cell: each is in progress, or
\* a kill lost the record it was made for.
Unsettled == UNION {{c} \X ((IF record[c] = "none" THEN 1 ELSE 2) .. calls[c]) : c \in Cell}

Torn(file) == {c \in Cell : file[c] = "torn"}

\* The command holds a call that no record tells of, or a file it has opened.
InProgress == IF command = "run" /\ step \in {"charge", "dump"} /\ bill.called THEN 1 ELSE 0
Writing == IF step = "write" THEN 1 ELSE 0

SettledInv == IsFiniteSet(Unsettled) /\ Cardinality(Unsettled) <= kills + InProgress
TornInv == Cardinality(Torn(record)) + Cardinality(Torn(scored)) <= kills + Writing

LedgerInv == LedgerType /\ InCommand /\ Room /\ SettledInv /\ TornInv /\ LossBounded

-----------------------------------------------------------------------------
(* The spend ledger: types and places. *)

\* The cell a command takes is one of those still to run.
LEMMA FirstToRun ==
  ASSUME ToRun # {}
  PROVE  Min(ToRun) \in ToRun
<1>1. ToRun \in SUBSET Nat
  BY DEF ToRun, Cell
<1>2. PICK n \in ToRun : \A m \in ToRun : <<m, n>> \notin OpToRel(<, Nat)
  BY <1>1, NatLessThanWellFounded, WFMin
<1>3. \A m \in ToRun : m \in Nat /\ n \in Nat /\ ~ (m < n)
  BY <1>1, <1>2 DEF OpToRel
<1>4. \A m \in ToRun : n <= m
  BY <1>3
<1> QED
  BY <1>4 DEF Min

\* A cell nothing was spent on has a bill.
LEMMA NothingBilled == NoBill \in Bill
BY DEF NoBill, Bill, Reply

\* Every step keeps the types.
LEMMA LedgerTypeStep ==
  ASSUME LedgerType, InCommand, LedgerNext
  PROVE  LedgerType'
<1> USE BudgetAssumption DEF LedgerType, InCommand, files, driver, history, LedgerSteps, Cell
<1>1. CASE StartRun
  BY <1>1 DEF StartRun
<1>2. CASE StartScore
  BY <1>2 DEF StartScore
<1>3. CASE StartSmoke
  BY <1>3 DEF StartSmoke
<1>4. CASE KillCommand
  BY <1>4, NothingBilled DEF KillCommand, End
<1>5. CASE RunCell
  <2>1. cell' \in 1 .. Cells
    BY <1>5, FirstToRun DEF RunCell, ToRun
  <2>2. dirs' = dirs \cup {cell'} /\ step' = "admit"
    BY <1>5 DEF RunCell
  <2>3. UNCHANGED <<ledger, record, scored, command, bill, history, kills, smokes>>
    BY <1>5 DEF RunCell
  <2>4. cell' \in Nat /\ dirs' \subseteq 1 .. Cells
    BY <2>1, <2>2
  <2> QED
    BY <2>2, <2>3, <2>4
<1>6. CASE RunAdmits
  BY <1>6 DEF RunAdmits
<1>7. CASE NotRun
  BY <1>7, NothingBilled DEF NotRun
<1>8. CASE OpenRecord
  BY <1>8 DEF OpenRecord
<1>9. CASE WriteRecord
  BY <1>9, NothingBilled DEF WriteRecord
<1>10. CASE RunEnds
  BY <1>10, NothingBilled DEF RunEnds, End
<1>11. CASE Call
  <2>1. Cap \in Nat
    BY DEF Cap
  <2>2. PICK cost \in 0 .. Cap, reported \in BOOLEAN, answer \in Reply :
          /\ bill' = [called |-> TRUE, cost |-> cost, reported |-> reported, answer |-> answer]
          /\ paid' = paid + cost
    BY <1>11 DEF Call, Reply
  <2>3. bill' \in Bill /\ paid' \in Nat
    BY <2>1, <2>2 DEF Bill
  <2>4. step' = "charge" /\ UNCHANGED <<files, command, cell, kills, smokes>>
    BY <1>11 DEF Call
  <2>5. calls' = calls \/ calls' = [calls EXCEPT ![cell] = @ + 1]
    BY <1>11 DEF Call
  <2>6. calls' \in [1 .. Cells -> Nat]
    BY <2>5
  <2> QED
    BY <2>3, <2>4, <2>6
<1>12. CASE Charge
  <2>1. Charged \in Nat
    BY DEF Charged, Cap, Bill
  <2> QED
    BY <1>12, <2>1 DEF Charge
<1>13. CASE SmokeEnds
  BY <1>13, NothingBilled DEF SmokeEnds, End
<1>14. ASSUME NEW c \in Cell, ScoreCell(c) PROVE LedgerType'
  <2>1. bill' \in Bill /\ cell' \in Nat /\ step' \in LedgerSteps /\ command' \in {"idle", "score"}
    BY <1>14, NothingBilled DEF ScoreCell, End
  <2>2. UNCHANGED <<files, history, kills, smokes>>
    BY <1>14 DEF ScoreCell
  <2> QED
    BY <2>1, <2>2
<1>15. CASE ScoreAdmit
  BY <1>15, NothingBilled DEF ScoreAdmit, End
<1>16. CASE OpenScore
  BY <1>16 DEF OpenScore
<1>17. CASE WriteScore
  BY <1>17, NothingBilled DEF WriteScore
<1>18. CASE ScoreEnds
  BY <1>18, NothingBilled DEF ScoreEnds, End
<1>19. CASE ScoreRaises
  BY <1>19, NothingBilled DEF ScoreRaises, End
<1> QED
  BY <1>1, <1>2, <1>3, <1>4, <1>5, <1>6, <1>7, <1>8, <1>9, <1>10, <1>11, <1>12, <1>13,
     <1>14, <1>15, <1>16, <1>17, <1>18, <1>19 DEF LedgerNext, Proceed

\* Every step keeps what is said of the command in progress.
LEMMA InCommandStep ==
  ASSUME LedgerType, InCommand, LedgerNext
  PROVE  InCommand'
<1> USE BudgetAssumption DEF LedgerType, InCommand, files, driver, history, LedgerSteps
<1>1. CASE StartRun
  BY <1>1 DEF StartRun
<1>2. CASE StartScore
  BY <1>2 DEF StartScore
<1>3. CASE StartSmoke
  BY <1>3 DEF StartSmoke
<1>4. CASE KillCommand
  BY <1>4 DEF KillCommand, End
<1>5. CASE RunCell
  BY <1>5, FirstToRun DEF RunCell, ToRun
<1>6. CASE RunAdmits
  BY <1>6 DEF RunAdmits
<1>7. CASE NotRun
  BY <1>7 DEF NotRun, NoBill
<1>8. CASE OpenRecord
  BY <1>8 DEF OpenRecord
<1>9. CASE WriteRecord
  BY <1>9 DEF WriteRecord
<1>10. CASE RunEnds
  BY <1>10 DEF RunEnds, End
<1>11. CASE Call
  BY <1>11 DEF Call, Cap
<1>12. CASE Charge
  BY <1>12 DEF Charge
<1>13. CASE SmokeEnds
  BY <1>13 DEF SmokeEnds, End
<1>14. ASSUME NEW c \in Cell, ScoreCell(c) PROVE InCommand'
  BY <1>14 DEF ScoreCell, End
<1>15. CASE ScoreAdmit
  BY <1>15 DEF ScoreAdmit, End
<1>16. CASE OpenScore
  BY <1>16 DEF OpenScore
<1>17. CASE WriteScore
  BY <1>17 DEF WriteScore
<1>18. CASE ScoreEnds \/ ScoreRaises
  BY <1>18 DEF ScoreEnds, ScoreRaises, End
<1> QED
  BY <1>1, <1>2, <1>3, <1>4, <1>5, <1>6, <1>7, <1>8, <1>9, <1>10, <1>11, <1>12, <1>13,
     <1>14, <1>15, <1>16, <1>17, <1>18 DEF LedgerNext, Proceed
-----------------------------------------------------------------------------
(* The steps: the ceiling. *)

\* The room an admission found stays until its call is charged.
LEMMA RoomStep ==
  ASSUME LedgerType, InCommand, Room, LedgerNext
  PROVE  Room'
<1>1. /\ ledger \in Nat /\ smokes \in Nat /\ SmokeCap \in Nat /\ Ceiling \in Nat
      /\ RunCap \in Nat /\ ScoreCap \in Nat /\ Cap \in Nat /\ Charged \in Nat
  BY BudgetAssumption DEF LedgerType, Cap, Charged, Bill
<1>2. (smokes + 1) * SmokeCap = smokes * SmokeCap + SmokeCap
  BY <1>1
<1>3. smokes >= 1 => (smokes - 1) * SmokeCap = smokes * SmokeCap - SmokeCap
  BY <1>1
<1> USE DEF Room, Unadmitted, files, driver, history
<1>4. CASE StartRun
  BY <1>1, <1>4 DEF StartRun, InCommand
<1>5. CASE StartScore
  BY <1>1, <1>5 DEF StartScore, InCommand
<1>6. CASE StartSmoke
  BY <1>1, <1>6 DEF StartSmoke
<1>7. ASSUME End, UNCHANGED <<files, smokes>> PROVE Room'
  <2>1. ledger <= Ceiling + smokes * SmokeCap
    BY <1>1, <1>3 DEF InCommand
  <2> QED
    BY <1>7, <2>1 DEF End
<1>8. CASE RunCell
  BY <1>1, <1>8 DEF RunCell
<1>9. CASE RunAdmits
  BY <1>1, <1>9 DEF RunAdmits, Admit, Cap
<1>10. CASE NotRun
  BY <1>1, <1>10 DEF NotRun, Admit, NoBill
<1>11. CASE OpenRecord
  BY <1>1, <1>11 DEF OpenRecord, LedgerType
<1>12. CASE WriteRecord
  BY <1>1, <1>12 DEF WriteRecord, LedgerType
<1>13. CASE Call
  BY <1>1, <1>13 DEF Call, Cap
<1>14. CASE Charge
  <2>1. Charged <= Cap /\ bill.called
    BY <1>1, <1>14 DEF Charge, Charged, InCommand
  <2>2. command \in {"run", "score", "smoke"}
    BY <1>14 DEF Charge, InCommand, LedgerType
  <2>3. ledger' = ledger + Charged /\ step' = "dump" /\ UNCHANGED <<record, command, bill, smokes>>
    BY <1>14 DEF Charge
  <2>4. CASE command = "smoke"
    <3>1. Cap = SmokeCap /\ smokes >= 1
      BY <2>4 DEF Cap, InCommand
    <3> QED
      BY <1>1, <1>3, <1>14, <2>1, <2>3, <2>4, <3>1 DEF Charge
  <2>5. CASE command \in {"run", "score"}
    <3>1. ledger + Cap <= Ceiling /\ smokes * SmokeCap \in Nat
      BY <1>1, <1>14, <2>5 DEF Charge
    <3> QED
      BY <1>1, <2>1, <2>3, <2>5, <3>1
  <2> QED
    BY <2>2, <2>4, <2>5
<1>15. CASE \E c \in Cell : ScoreCell(c)
  <2>1. CASE End
    BY <1>7, <1>15, <2>1 DEF ScoreCell
  <2>2. CASE ~ End
    BY <1>1, <1>15, <2>2 DEF ScoreCell
  <2> QED
    BY <2>1, <2>2
<1>16. CASE ScoreAdmit
  <2>1. CASE End
    BY <1>7, <1>16, <2>1 DEF ScoreAdmit
  <2>2. CASE ~ End
    BY <1>1, <1>16, <2>2 DEF ScoreAdmit, Admit, Cap
  <2> QED
    BY <2>1, <2>2
<1>17. CASE OpenScore
  BY <1>1, <1>17 DEF OpenScore
<1>18. CASE WriteScore
  BY <1>1, <1>18 DEF WriteScore
<1>19. KillCommand \/ RunEnds \/ SmokeEnds \/ ScoreEnds \/ ScoreRaises
         => End /\ UNCHANGED <<files, smokes>>
  BY DEF KillCommand, RunEnds, SmokeEnds, ScoreEnds, ScoreRaises
<1> QED
  BY <1>4, <1>5, <1>6, <1>7, <1>8, <1>9, <1>10, <1>11, <1>12, <1>13,
     <1>14, <1>15, <1>16, <1>17, <1>18, <1>19 DEF LedgerNext, Proceed
-----------------------------------------------------------------------------
(* The steps: what a kill loses. *)

Most == Max({RunCap, ScoreCap, SmokeCap})

\* The cap of a run is not above the largest one.
LEMMA MostOfCaps == Most \in Nat /\ Cap \in Nat /\ Cap <= Most
<1> DEFINE S == {RunCap, ScoreCap, SmokeCap}
<1>1. RunCap \in Nat /\ ScoreCap \in Nat /\ SmokeCap \in Nat
  BY BudgetAssumption
<1>2. \E x \in S : \A y \in S : x >= y
  BY <1>1
<1>3. Most \in S /\ \A y \in S : Most >= y
  BY <1>2 DEF Most, Max
<1>4. Cap \in S
  BY DEF Cap
<1> QED
  BY <1>1, <1>3, <1>4

\* What is unsettled of one cell.
LEMMA UnsettledPairs ==
  \A x : x \in Unsettled <=>
    \E c \in Cell : \E k \in ((IF record[c] = "none" THEN 1 ELSE 2) .. calls[c]) : x = <<c, k>>
BY DEF Unsettled

\* The calls without a record, after a step.
LEMMA UnsettledAfter ==
  \A x : x \in Unsettled' <=>
    \E c \in Cell : \E k \in ((IF record'[c] = "none" THEN 1 ELSE 2) .. calls'[c]) : x = <<c, k>>
BY DEF Unsettled, Cell

\* They stay as they were while no call is made and no record opened.
LEMMA UnsettledKept ==
  ASSUME calls' = calls, \A c \in Cell : record'[c] = "none" <=> record[c] = "none"
  PROVE  Unsettled' = Unsettled
BY UnsettledPairs, UnsettledAfter

\* A call is unsettled until its record is opened.
LEMMA UnsettledCall ==
  ASSUME LedgerType, cell \in Cell, record[cell] = "none", record' = record,
         calls' = [calls EXCEPT ![cell] = @ + 1]
  PROVE  Unsettled' = Unsettled \cup {<<cell, calls[cell] + 1>>}
<1>1. calls \in [Cell -> Nat]
  BY DEF LedgerType
<1>2. \A x : x \in Unsettled' => x \in Unsettled \cup {<<cell, calls[cell] + 1>>}
  <2> SUFFICES ASSUME NEW c \in Cell, NEW k \in ((IF record'[c] = "none" THEN 1 ELSE 2) .. calls'[c])
               PROVE  <<c, k>> \in Unsettled \cup {<<cell, calls[cell] + 1>>}
    BY UnsettledAfter
  <2>1. k \in ((IF record[c] = "none" THEN 1 ELSE 2) .. calls[c]) \/ (c = cell /\ k = calls[cell] + 1)
    BY <1>1
  <2> QED
    BY <2>1, UnsettledPairs
<1>3. \A x : x \in Unsettled => x \in Unsettled'
  <2> SUFFICES ASSUME NEW c \in Cell, NEW k \in ((IF record[c] = "none" THEN 1 ELSE 2) .. calls[c])
               PROVE  <<c, k>> \in Unsettled'
    BY UnsettledPairs
  <2>1. k \in ((IF record'[c] = "none" THEN 1 ELSE 2) .. calls'[c])
    BY <1>1
  <2> QED
    BY <2>1, UnsettledAfter
<1>4. <<cell, calls[cell] + 1>> \in Unsettled'
  <2>1. calls[cell] + 1 \in ((IF record'[cell] = "none" THEN 1 ELSE 2) .. calls'[cell])
    BY <1>1
  <2> QED
    BY <2>1, UnsettledAfter
<1> QED
  BY <1>2, <1>3, <1>4

\* Opening a record settles the first call of its cell and no other.
LEMMA UnsettledOpen ==
  ASSUME LedgerType, cell \in Cell, record[cell] = "none", calls' = calls,
         record' = [record EXCEPT ![cell] = "torn"]
  PROVE  /\ Unsettled' = Unsettled \ {<<cell, 1>>}
         /\ calls[cell] >= 1 => <<cell, 1>> \in Unsettled
<1>1. calls \in [Cell -> Nat] /\ record \in [Cell -> {"none", "torn", "ran", "not_run"}]
  BY DEF LedgerType
<1>2. \A x : x \in Unsettled' => x \in Unsettled /\ x # <<cell, 1>>
  <2> SUFFICES ASSUME NEW c \in Cell, NEW k \in ((IF record'[c] = "none" THEN 1 ELSE 2) .. calls'[c])
               PROVE  <<c, k>> \in Unsettled /\ <<c, k>> # <<cell, 1>>
    BY UnsettledAfter
  <2>1. k \in ((IF record[c] = "none" THEN 1 ELSE 2) .. calls[c]) /\ ~ (c = cell /\ k = 1)
    BY <1>1
  <2> QED
    BY <2>1, UnsettledPairs
<1>3. \A x : x \in Unsettled /\ x # <<cell, 1>> => x \in Unsettled'
  <2> SUFFICES ASSUME NEW c \in Cell, NEW k \in ((IF record[c] = "none" THEN 1 ELSE 2) .. calls[c]),
                      <<c, k>> # <<cell, 1>>
               PROVE  <<c, k>> \in Unsettled'
    BY UnsettledPairs
  <2>1. k \in ((IF record'[c] = "none" THEN 1 ELSE 2) .. calls'[c])
    BY <1>1
  <2> QED
    BY <2>1, UnsettledAfter
<1>4. calls[cell] >= 1 => <<cell, 1>> \in Unsettled
  <2>1. calls[cell] >= 1 => 1 \in ((IF record[cell] = "none" THEN 1 ELSE 2) .. calls[cell])
    BY <1>1
  <2> QED
    BY <2>1, UnsettledPairs
<1> QED
  BY <1>2, <1>3, <1>4

\* Tearing a file and mending it.
LEMMA TornFiles ==
  ASSUME NEW Words, NEW file \in [Cell -> Words], NEW c \in Cell
  PROVE  /\ IsFiniteSet(Torn(file)) /\ Cardinality(Torn(file)) \in Nat
         /\ Cardinality(Torn([file EXCEPT ![c] = "torn"])) <= Cardinality(Torn(file)) + 1
         /\ Cardinality(Torn([file EXCEPT ![c] = "torn"])) \in Nat
         /\ \A word : word # "torn" /\ file[c] = "torn" =>
              Cardinality(Torn([file EXCEPT ![c] = word])) = Cardinality(Torn(file)) - 1
<1>1. IsFiniteSet(Cell)
  BY BudgetAssumption, FS_Interval DEF Cell
<1>2. IsFiniteSet(Torn(file))
  BY <1>1, FS_Subset DEF Torn
<1>3. Cardinality(Torn(file)) \in Nat
  BY <1>2, FS_CardinalityType
<1>4. Torn([file EXCEPT ![c] = "torn"]) = Torn(file) \cup {c}
  BY DEF Torn
<1>5. /\ Cardinality(Torn(file) \cup {c}) = IF c \in Torn(file) THEN Cardinality(Torn(file))
                                                           ELSE Cardinality(Torn(file)) + 1
  BY <1>2, FS_AddElement
<1>6. ASSUME NEW word, word # "torn", file[c] = "torn"
      PROVE  Cardinality(Torn([file EXCEPT ![c] = word])) = Cardinality(Torn(file)) - 1
  <2>1. Torn([file EXCEPT ![c] = word]) = Torn(file) \ {c} /\ c \in Torn(file)
    BY <1>6 DEF Torn
  <2> QED
    BY <1>2, <2>1, FS_RemoveElement
<1>7. /\ Cardinality(Torn([file EXCEPT ![c] = "torn"])) <= Cardinality(Torn(file)) + 1
      /\ Cardinality(Torn([file EXCEPT ![c] = "torn"])) \in Nat
  <2>1. \/ Cardinality(Torn([file EXCEPT ![c] = "torn"])) = Cardinality(Torn(file))
        \/ Cardinality(Torn([file EXCEPT ![c] = "torn"])) = Cardinality(Torn(file)) + 1
    <3> HIDE DEF Torn
    <3> QED
      BY <1>4, <1>5, Zenon
  <2> QED
    BY <1>3, <2>1
<1> QED
  BY <1>2, <1>3, <1>6, <1>7
\* A bound that gains on one side what it loses on the other.
LEMMA StillWithin ==
  ASSUME NEW a \in Nat, NEW b \in Nat, NEW c \in Nat, NEW x \in {0, 1}, NEW y \in {0, 1},
         a <= b + x, b + x <= c + y
  PROVE  a <= c + y
OBVIOUS

\* A bound allows more with a command in progress.
LEMMA MoreInProgress ==
  ASSUME NEW b \in Nat, NEW y \in Nat
  PROVE  b + 0 <= b + y
OBVIOUS

\* Every step keeps the unsettled calls within what kills explain.
LEMMA SettledStep ==
  ASSUME LedgerType, InCommand, SettledInv, LedgerNext
  PROVE  SettledInv'
<1>1. /\ kills \in Nat /\ InProgress \in {0, 1} /\ InProgress' \in {0, 1}
      /\ Cardinality(Unsettled) \in Nat
  BY FS_CardinalityType DEF SettledInv, LedgerType, InProgress
<1>2. ASSUME calls' = calls, \A c \in Cell : record'[c] = "none" <=> record[c] = "none",
             kills + InProgress <= kills' + InProgress'
      PROVE  SettledInv'
  <2>1. Unsettled' = Unsettled
    BY <1>2, UnsettledKept
  <2>2. kills' \in Nat
    BY LedgerTypeStep DEF LedgerType
  <2>3. Cardinality(Unsettled) <= kills + InProgress /\ IsFiniteSet(Unsettled)
    BY DEF SettledInv
  <2>4. Cardinality(Unsettled) <= kills' + InProgress'
    <3> HIDE DEF InProgress
    <3> QED
    BY <1>1, <1>2, <2>2, <2>3, StillWithin
  <2> QED
    BY <2>1, <2>3, <2>4 DEF SettledInv
<1> USE DEF files, driver, history
<1>3. CASE StartRun \/ StartScore \/ StartSmoke
  BY <1>1, <1>2, <1>3 DEF StartRun, StartScore, StartSmoke, InProgress, InCommand
<1>4. CASE KillCommand
  BY <1>1, <1>2, <1>4 DEF KillCommand, InProgress
<1>5. CASE RunCell \/ RunAdmits
  BY <1>1, <1>2, <1>5 DEF RunCell, RunAdmits, InProgress
<1>6. CASE NotRun
  BY <1>1, <1>2, <1>6 DEF NotRun, InProgress
<1>7. CASE OpenRecord
  <2>1. cell \in Cell /\ record[cell] = "none" /\ calls' = calls /\ kills' = kills
        /\ record' = [record EXCEPT ![cell] = "torn"] /\ InProgress' = 0
    BY <1>7 DEF OpenRecord, InCommand, InProgress
  <2>2. /\ Unsettled' = Unsettled \ {<<cell, 1>>}
        /\ calls[cell] >= 1 => <<cell, 1>> \in Unsettled
    BY <2>1, UnsettledOpen
  <2>3. InProgress = 1 => calls[cell] >= 1
    BY <1>7 DEF InProgress, InCommand, OpenRecord
  <2>4. /\ IsFiniteSet(Unsettled \ {<<cell, 1>>})
        /\ Cardinality(Unsettled \ {<<cell, 1>>}) =
             IF <<cell,
                1>> \in Unsettled THEN Cardinality(Unsettled) - 1 ELSE Cardinality(Unsettled)
    BY FS_RemoveElement DEF SettledInv
  <2> QED
    BY <1>1, <2>1, <2>2, <2>3, <2>4 DEF SettledInv
<1>8. CASE WriteRecord
  <2>1. /\ record[cell] = "torn" /\ cell \in Cell /\ calls' = calls /\ kills' = kills
        /\ record' \in {[record EXCEPT ![cell] = "ran"], [record EXCEPT ![cell] = "not_run"]}
        /\ step = "write"
    BY <1>8 DEF WriteRecord, InCommand
  <2>2. \A c \in Cell : record'[c] = "none" <=> record[c] = "none"
    BY <2>1 DEF LedgerType
  <2>3. InProgress = 0
    BY <2>1 DEF InProgress
  <2>4. kills + InProgress <= kills' + InProgress'
    <3>1. kills' = kills /\ InProgress' \in {0, 1}
      BY <1>1, <2>1
    <3> HIDE DEF InProgress
    <3>2. kills \in Nat /\ InProgress' \in Nat
      BY <1>1
    <3> QED
      BY <2>3, <3>1, <3>2, MoreInProgress
  <2> QED
    BY <1>2, <2>1, <2>2, <2>4
<1>9. CASE RunEnds \/ ScoreEnds \/ SmokeEnds
  BY <1>1, <1>2, <1>9 DEF RunEnds, ScoreEnds, SmokeEnds, End, InProgress
<1>10. CASE Call /\ command = "run"
  <2>1. /\ cell \in Cell /\ record[cell] = "none" /\ record' = record /\ kills' = kills
        /\ calls' = [calls EXCEPT ![cell] = @ + 1] /\ InProgress = 0 /\ InProgress' = 1
    BY <1>10 DEF Call, InCommand, InProgress
  <2>2. Unsettled' = Unsettled \cup {<<cell, calls[cell] + 1>>}
    BY <2>1, UnsettledCall
  <2>3. /\ IsFiniteSet(Unsettled \cup {<<cell, calls[cell] + 1>>})
        /\ Cardinality(Unsettled \cup {<<cell, calls[cell] + 1>>}) <= Cardinality(Unsettled) + 1
    BY <1>1, FS_AddElement DEF SettledInv
  <2>4. Cardinality(Unsettled \cup {<<cell, calls[cell] + 1>>}) \in Nat
    BY <2>3, FS_CardinalityType
  <2> QED
    BY <1>1, <2>1, <2>2, <2>3, <2>4 DEF SettledInv
<1>11. CASE Call /\ command # "run"
  BY <1>1, <1>2, <1>11 DEF Call, InProgress
<1>12. CASE Charge
  BY <1>1, <1>2, <1>12 DEF Charge, InProgress
<1>13. CASE \E c \in Cell : ScoreCell(c)
  BY <1>1, <1>2, <1>13 DEF ScoreCell, End, InProgress
<1>14. CASE ScoreAdmit \/ ScoreRaises \/ OpenScore \/ WriteScore
  BY <1>1, <1>2, <1>14 DEF ScoreAdmit, ScoreRaises, OpenScore, WriteScore, End, InProgress
<1> QED
  BY <1>3, <1>4, <1>5, <1>6, <1>7, <1>8, <1>9, <1>10, <1>11, <1>12, <1>13, <1>14
     DEF LedgerNext, Proceed

\* Every step keeps the torn records within what kills explain.
LEMMA TornStep ==
  ASSUME LedgerType, InCommand, TornInv, LedgerNext
  PROVE  TornInv'
<1>1. /\ kills \in Nat /\ Writing \in {0, 1} /\ Writing' \in {0, 1}
      /\ record \in [Cell -> {"none", "torn", "ran", "not_run"}]
      /\ scored \in [Cell -> {"none", "torn", "whole"}]
  <2>1. /\ record \in [Cell -> {"none", "torn", "ran", "not_run"}]
        /\ scored \in [Cell -> {"none", "torn", "whole"}]
    BY DEF LedgerType
  <2>2. kills \in Nat
    BY DEF LedgerType
  <2> QED
    BY <2>1, <2>2 DEF Writing
<1>2. Cardinality(Torn(record)) \in Nat /\ Cardinality(Torn(scored)) \in Nat
  <2>1. IsFiniteSet(Cell)
    BY BudgetAssumption, FS_Interval DEF Cell
  <2>2. IsFiniteSet(Torn(record)) /\ IsFiniteSet(Torn(scored))
    BY <2>1, FS_Subset DEF Torn
  <2> QED
    BY <2>2, FS_CardinalityType
<1>3. ASSUME record' = record, scored' = scored, kills + Writing <= kills' + Writing'
      PROVE  TornInv'
  <2>1. Torn(record)' = Torn(record) /\ Torn(scored)' = Torn(scored)
    BY <1>3 DEF Torn, Cell
  <2>2. kills' \in Nat
    BY LedgerTypeStep DEF LedgerType
  <2>3. Cardinality(Torn(record)) + Cardinality(Torn(scored)) <= kills + Writing
    BY DEF TornInv
  <2>4. Cardinality(Torn(record)) + Cardinality(Torn(scored)) <= kills' + Writing'
    <3> HIDE DEF Writing
    <3>1. Cardinality(Torn(record)) + Cardinality(Torn(scored)) \in Nat
      BY <1>2
    <3> QED
    BY <1>1, <1>3, <2>2, <2>3, <3>1, StillWithin
  <2> QED
    BY <2>1, <2>4 DEF TornInv
<1> USE DEF files, driver, history
<1>5. CASE StartRun \/ StartScore \/ StartSmoke
  BY <1>1, <1>3, <1>5 DEF StartRun, StartScore, StartSmoke, Writing, InCommand
<1>6. CASE KillCommand
  BY <1>1, <1>3, <1>6 DEF KillCommand, Writing
<1>7. CASE RunCell \/ RunAdmits \/ NotRun
  BY <1>1, <1>3, <1>7 DEF RunCell, RunAdmits, NotRun, Writing
<1>8. CASE RunEnds \/ ScoreEnds \/ ScoreRaises \/ SmokeEnds
  BY <1>1, <1>3, <1>8 DEF RunEnds, ScoreEnds, ScoreRaises, SmokeEnds, End, Writing
<1>9. CASE Call \/ Charge
  BY <1>1, <1>3, <1>9 DEF Call, Charge, Writing
<1>10. CASE (\E c \in Cell : ScoreCell(c)) \/ ScoreAdmit
  BY <1>1, <1>3, <1>10 DEF ScoreCell, ScoreAdmit, End, Writing
<1>11. CASE OpenRecord
  <2>1. /\ cell \in Cell /\ record' = [record EXCEPT ![cell] = "torn"] /\ scored' = scored
        /\ kills' = kills /\ Writing = 0 /\ Writing' = 1
    BY <1>11 DEF OpenRecord, InCommand, Writing
  <2>2. /\ Cardinality(Torn(record')) <= Cardinality(Torn(record)) + 1
        /\ Cardinality(Torn(record')) \in Nat
    BY <1>1, <2>1, TornFiles
  <2>3. Torn(record)' = Torn(record') /\ Torn(scored)' = Torn(scored)
    BY <2>1 DEF Torn, Cell
  <2> QED
    BY <1>1, <1>2, <2>1, <2>2, <2>3 DEF TornInv
<1>12. CASE WriteRecord
  <2>1. /\ cell \in Cell /\ record[cell] = "torn" /\ scored' = scored
        /\ record' = [record EXCEPT ![cell] = IF bill.called THEN "ran" ELSE "not_run"]
        /\ kills' = kills /\ Writing = 1 /\ Writing' = 0
    BY <1>12 DEF WriteRecord, InCommand, Writing
  <2>2. Cardinality(Torn(record')) = Cardinality(Torn(record)) - 1
    BY <1>1, <2>1, TornFiles
  <2>3. Torn(record)' = Torn(record') /\ Torn(scored)' = Torn(scored)
    BY <2>1 DEF Torn, Cell
  <2> QED
    BY <1>1, <1>2, <2>1, <2>2, <2>3 DEF TornInv
<1>13. CASE OpenScore
  <2>1. /\ cell \in Cell /\ scored' = [scored EXCEPT ![cell] = "torn"] /\ record' = record
        /\ kills' = kills /\ Writing = 0 /\ Writing' = 1
    BY <1>13 DEF OpenScore, InCommand, Writing
  <2>2. /\ Cardinality(Torn(scored')) <= Cardinality(Torn(scored)) + 1
        /\ Cardinality(Torn(scored')) \in Nat
    BY <1>1, <2>1, TornFiles
  <2>3. Torn(scored)' = Torn(scored') /\ Torn(record)' = Torn(record)
    BY <2>1 DEF Torn, Cell
  <2> QED
    BY <1>1, <1>2, <2>1, <2>2, <2>3 DEF TornInv
<1>14. CASE WriteScore
  <2>1. /\ cell \in Cell /\ scored[cell] = "torn" /\ record' = record
        /\ scored' = [scored EXCEPT ![cell] = "whole"]
        /\ kills' = kills /\ Writing = 1 /\ Writing' = 0
    BY <1>14 DEF WriteScore, InCommand, Writing
  <2>2. Cardinality(Torn(scored')) = Cardinality(Torn(scored)) - 1
    BY <1>1, <2>1, TornFiles
  <2>3. Torn(scored)' = Torn(scored') /\ Torn(record)' = Torn(record)
    BY <2>1 DEF Torn, Cell
  <2> QED
    BY <1>1, <1>2, <2>1, <2>2, <2>3 DEF TornInv
<1> QED
  BY <1>5, <1>6, <1>7, <1>8, <1>9, <1>10, <1>11, <1>12, <1>13, <1>14
     DEF LedgerNext, Proceed

\* Every step keeps what the ledger misses within what kills explain.
LEMMA LossStep ==
  ASSUME LedgerType, InCommand, LossBounded, LedgerNext
  PROVE  LossBounded'
<1>1. /\ ledger \in Nat /\ paid \in Nat /\ kills \in Nat /\ bill.cost \in Nat
      /\ Most \in Nat /\ Cap \in Nat /\ Cap <= Most /\ Charged \in Nat
  BY MostOfCaps DEF LedgerType, Bill, Charged
<1>2. (kills + 1) * Most = kills * Most + Most /\ kills * Most \in Nat
  BY <1>1
<1>3. paid <= ledger + (IF step = "charge" THEN bill.cost ELSE 0) + kills * Most
  BY DEF LossBounded, Most
<1>4. ASSUME paid' <= ledger' + (IF step' = "charge" THEN bill'.cost ELSE 0) + kills' * Most
      PROVE  LossBounded'
  BY <1>4 DEF LossBounded, Most
<1> USE DEF files, driver, history
<1>5. CASE KillCommand
  <2>1. step = "charge" => bill.cost <= Most
    BY <1>1 DEF InCommand
  <2>2. /\ paid' = paid /\ ledger' = ledger /\ step' = "next" /\ kills' = kills + 1
    BY <1>5 DEF KillCommand, End
  <2> QED
    BY <1>1, <1>2, <1>3, <1>4, <2>1, <2>2
<1>6. CASE Call
  <2>1. PICK cost \in 0 .. Cap : bill'.cost = cost /\ paid' = paid + cost
    BY <1>6 DEF Call
  <2>2. step = "call" /\ step' = "charge" /\ ledger' = ledger /\ kills' = kills
    BY <1>6 DEF Call
  <2> QED
    BY <1>1, <1>2, <1>3, <1>4, <2>1, <2>2
<1>7. CASE Charge
  <2>1. bill.cost <= Charged
    BY <1>1, <1>7 DEF Charge, Charged, InCommand
  <2>2. /\ step = "charge" /\ step' = "dump" /\ ledger' = ledger + Charged
        /\ kills' = kills /\ paid' = paid
    BY <1>7 DEF Charge
  <2> QED
    BY <1>1, <1>2, <1>3, <1>4, <2>1, <2>2
<1>8. ASSUME UNCHANGED <<ledger, paid, kills>>, step # "charge"
      PROVE  LossBounded'
  <2>1. bill'.cost \in Nat
    BY LedgerTypeStep DEF LedgerType, Bill
  <2> QED
    BY <1>1, <1>2, <1>3, <1>4, <1>8, <2>1
<1>9. CASE StartRun \/ StartScore \/ StartSmoke
  BY <1>8, <1>9 DEF StartRun, StartScore, StartSmoke, InCommand
<1>10. CASE RunCell \/ RunAdmits \/ NotRun \/ OpenRecord \/ WriteRecord \/ RunEnds
  BY <1>8, <1>10 DEF RunCell, RunAdmits, NotRun, OpenRecord, WriteRecord, RunEnds
<1>11. CASE \/ SmokeEnds \/ (\E c \in Cell : ScoreCell(c)) \/ ScoreAdmit \/ ScoreRaises
            \/ OpenScore \/ WriteScore \/ ScoreEnds
  BY <1>8, <1>11 DEF SmokeEnds, ScoreCell, ScoreAdmit, ScoreRaises, OpenScore, WriteScore, ScoreEnds
<1> QED
  BY <1>5, <1>6, <1>7, <1>9, <1>10, <1>11 DEF LedgerNext, Proceed

-----------------------------------------------------------------------------
(* The spend ledger: the theorems. *)

\* The invariant of the ledger holds at the start.
LEMMA LedgerInvInit == LedgerInit => LedgerInv
<1> SUFFICES ASSUME LedgerInit PROVE LedgerInv
  OBVIOUS
<1>1. LedgerType
  BY NothingBilled, BudgetAssumption DEF LedgerInit, LedgerType, LedgerSteps
<1>2. InCommand
  BY DEF LedgerInit, InCommand
<1>3. Room
  BY BudgetAssumption DEF LedgerInit, Room, Unadmitted
<1>4. Unsettled = {}
  <2>1. \A c \in Cell : calls[c] = 0 /\ record[c] = "none"
    BY DEF LedgerInit
  <2>2. \A c \in Cell : ((IF record[c] = "none" THEN 1 ELSE 2) .. calls[c]) = {}
    BY <2>1
  <2> QED
    BY <2>2, UnsettledPairs
<1>5. Torn(record) = {} /\ Torn(scored) = {}
  BY DEF LedgerInit, Torn
<1>6. SettledInv
  BY <1>4, FS_EmptySet DEF SettledInv, LedgerInit, InProgress
<1>7. TornInv
  BY <1>5, FS_EmptySet DEF TornInv, LedgerInit, Writing
<1>8. LossBounded
  <2>1. paid = 0 /\ ledger = 0 /\ kills = 0 /\ step = "next"
    BY DEF LedgerInit
  <2> QED
    BY <2>1, MostOfCaps DEF LossBounded, Most
<1> QED
  BY <1>1, <1>2, <1>3, <1>6, <1>7, <1>8 DEF LedgerInv

\* Every step keeps it.
LEMMA LedgerInvStep == LedgerInv /\ [LedgerNext]_ledgerVars => LedgerInv'
<1> SUFFICES ASSUME LedgerInv, [LedgerNext]_ledgerVars PROVE LedgerInv'
  OBVIOUS
<1>1. CASE LedgerNext
  BY <1>1, LedgerTypeStep, InCommandStep, RoomStep, SettledStep, TornStep, LossStep DEF LedgerInv
<1>2. CASE UNCHANGED ledgerVars
  <2>1. UNCHANGED <<ledger, dirs, record, parsed, scored, command, step, cell, bill, calls, paid,
     kills, smokes>>
    BY <1>2 DEF ledgerVars, files, driver, history
  <2>2. LedgerType' /\ InCommand' /\ Room' /\ LossBounded'
    BY <2>1 DEF LedgerInv, LedgerType, InCommand, Room, Unadmitted, LossBounded, Cap
  <2>3. SettledInv' /\ TornInv'
    BY <2>1 DEF LedgerInv, SettledInv, TornInv, Unsettled, Torn, InProgress, Writing
  <2> QED
    BY <2>2, <2>3 DEF LedgerInv
<1> QED
  BY <1>1, <1>2

\* Over any number of kills, whatever the frozen cells and the caps: where each
\* command can be, the room an admission made, and how many calls, files and
\* costs each kill has put out of the ledger's sight.
THEOREM LedgerInvariant == LedgerSpec => []LedgerInv
BY LedgerInvInit, LedgerInvStep, PTL DEF LedgerSpec

\* The ledger passes the ceiling by the smoke calls at most, which nobody
\* admits; and a cell recorded "not run" has no room under the ceiling again.
THEOREM CeilingIsKept == LedgerSpec => []CeilingHolds
<1>1. ASSUME LedgerInv PROVE CeilingHolds
  <2>1. /\ ledger \in Nat /\ smokes \in Nat /\ Ceiling \in Nat /\ SmokeCap \in Nat
        /\ command = "smoke" => smokes >= 1
    BY <1>1, BudgetAssumption DEF LedgerInv, LedgerType, InCommand
  <2>2. /\ ledger <= Ceiling + Unadmitted * SmokeCap
        /\ \A c \in Cell : record[c] = "not_run" => ledger + RunCap > Ceiling
    BY <1>1 DEF LedgerInv, Room, Unadmitted
  <2>3. (smokes - 1) * SmokeCap = smokes * SmokeCap - SmokeCap /\ smokes * SmokeCap \in Nat
    BY <2>1
  <2>4. ledger <= Ceiling + smokes * SmokeCap
    BY <2>1, <2>2, <2>3 DEF Unadmitted
  <2> QED
    BY <2>2, <2>4 DEF CeilingHolds
<1> QED
  BY <1>1, LedgerInvariant, PTL

\* The first call of the cell in progress is not a repeat.
LEMMA RepeatsUnsettled ==
  ASSUME LedgerInv
  PROVE  IsFiniteSet(Repeats) /\ Cardinality(Repeats) <= kills
<1> USE DEF LedgerInv
<1>1. /\ IsFiniteSet(Unsettled) /\ Cardinality(Unsettled) \in Nat /\ kills \in Nat
      /\ Cardinality(Unsettled) <= kills + InProgress /\ InProgress \in {0, 1}
  BY FS_CardinalityType DEF SettledInv, LedgerType, InProgress
<1>2. \A x : x \in Repeats <=> \E c \in Cell : \E k \in 2 .. calls[c] : x = <<c, k>>
  BY DEF Repeats
<1>3. Repeats \subseteq Unsettled \ {<<cell, 1>>}
  <2> SUFFICES ASSUME NEW c \in Cell, NEW k \in 2 .. calls[c]
               PROVE  <<c, k>> \in Unsettled /\ <<c, k>> # <<cell, 1>>
    BY <1>2
  <2>1. k \in ((IF record[c] = "none" THEN 1 ELSE 2) .. calls[c]) /\ k # 1
    BY DEF LedgerType
  <2> QED
    BY <2>1, UnsettledPairs
<1>4. InProgress = 1 => <<cell, 1>> \in Unsettled
  <2> SUFFICES ASSUME InProgress = 1 PROVE <<cell, 1>> \in Unsettled
    OBVIOUS
  <2>1. cell \in Cell /\ record[cell] = "none" /\ calls[cell] >= 1
    BY DEF InProgress, InCommand
  <2>2. calls[cell] \in Nat
    BY <2>1 DEF LedgerType
  <2>3. 1 \in ((IF record[cell] = "none" THEN 1 ELSE 2) .. calls[cell])
    BY <2>1, <2>2
  <2> QED
    BY <2>1, <2>3, UnsettledPairs
<1>5. /\ IsFiniteSet(Unsettled \ {<<cell, 1>>})
      /\ Cardinality(Unsettled \ {<<cell, 1>>}) =
           IF <<cell, 1>> \in Unsettled THEN Cardinality(Unsettled) - 1 ELSE Cardinality(Unsettled)
  BY <1>1, FS_RemoveElement
<1>6. IsFiniteSet(Repeats) /\ Cardinality(Repeats) <= Cardinality(Unsettled \ {<<cell, 1>>})
  BY <1>3, <1>5, FS_Subset
<1>7. Cardinality(Repeats) \in Nat /\ Cardinality(Unsettled \ {<<cell, 1>>}) \in Nat
  BY <1>5, <1>6, FS_CardinalityType
<1>8. Cardinality(Unsettled \ {<<cell, 1>>}) <= kills
  <2> HIDE DEF InProgress
  <2>1. CASE InProgress = 1
    BY <1>1, <1>4, <1>5, <2>1
  <2>2. CASE InProgress = 0
    BY <1>1, <1>5, <2>2
  <2> QED
    BY <1>1, <2>1, <2>2
<1> QED
  BY <1>1, <1>6, <1>7, <1>8

\* Over any number of kills no more than one call a kill is missing from the
\* ledger, one agent call of run is made again and one file is left torn.
THEOREM KillsAloneLose == LedgerSpec => []KillsBoundLoss
<1>1. ASSUME LedgerInv PROVE KillsBoundLoss
  <2>1. RepeatsAreKills
    BY <1>1, RepeatsUnsettled DEF RepeatsAreKills
  <2>2. LossBounded /\ TornInv
    BY <1>1 DEF LedgerInv
  <2> QED
    BY <2>1, <2>2 DEF KillsBoundLoss, TornInv, Torn, TornRecords, TornScores, Writing
<1> QED
  BY <1>1, LedgerInvariant, PTL

-----------------------------------------------------------------------------
(* The output file: the inductive invariant. *)

Before == {"decide", "open", "write", "close", "chmod", "rename"}
Unwinding == {"cleanup", "refuse"}

\* How far a file has come when its writer is at each step.
Filled(w) ==
  /\ stored[w] + buffered[w] <= Size
  /\ pc[w] = "close" => stored[w] + buffered[w] = Size
  /\ pc[w] \in {"chmod", "rename", "succeed"} => stored[w] = Size
  /\ pc[w] \in {"rename", "succeed"} => mode[w] = "0644"

\* Which commands the destination has named.
Accounted(w) ==
  /\ w \in named => stored[w] = Size /\ buffered[w] = 0 /\ mode[w] = "0644"
  /\ pc[w] \in Before => w \notin named
  /\ pc[w] = "succeed" => w \in named
  /\ pc[w] \in Unwinding /\ w \in named => fault[w] = "interrupt"
  /\ w \notin Accepting => pc[w] \in {"decide", "ended"}
  /\ pc[w] = "ended" <=> exit[w] # "running"

\* What a reader holds has been the destination.
Reading(r) ==
  /\ handle[r] \in named \cup {Unopened}
  /\ whole[r] => handle[r] \in named /\ taken[r] = Size

OutputInv ==
  /\ TypeOK /\ ExitTruthful
  /\ {dest, Old} \subseteq named
  /\ stored[Old] = Size /\ mode[Old] = "old"
  /\ \A w \in Writer : Filled(w) /\ Accounted(w)
  /\ \A r \in Reader : Reading(r)

\* The invariant of the directory holds at the start.
LEMMA OutputInit == Init => OutputInv
BY WriterAssumption DEF Init, OutputInv, TypeOK, ExitTruthful, Filled,
   Accounted, Reading, File,
       InWrite, Before, Unwinding

-----------------------------------------------------------------------------
(* The output file: the steps. *)

\* A step of a command keeps the types.
LEMMA OutputTypeStep ==
  ASSUME OutputInv, [Next]_vars
  PROVE  TypeOK'
<1> USE WriterAssumption
<1> USE DEF File, InWrite, Goto
<1>1. ASSUME NEW w \in Writer, Advance(w)
      PROVE  TypeOK'
  <2>1. TypeOK /\ Filled(w)
    BY DEF OutputInv
  <2>2. Size \in Nat /\ stored[w] \in Nat /\ buffered[w] \in Nat
    BY <2>1 DEF TypeOK
  <2>3. CASE Decide(w)
    BY <2>1, <2>3 DEF Decide, TypeOK, place, content, reader
  <2>4. CASE OpenTemp(w)
    BY <2>1, <2>4 DEF OpenTemp, TypeOK, place, content, reader
  <2>5. CASE WriteChunk(w)
    BY <2>1, <2>2, <2>5 DEF WriteChunk, TypeOK, place, commands, reader
  <2>6. CASE Flush(w)
    BY <2>1, <2>2, <2>6 DEF Flush, TypeOK, Filled, place, commands, reader
  <2>7. CASE Written(w)
    BY <2>1, <2>7 DEF Written, TypeOK, place, content, reader
  <2>8. CASE Close(w)
    BY <2>1, <2>2, <2>8 DEF Close, CloseHandle, TypeOK, Filled, place, reader
  <2>9. CASE SetMode(w)
    BY <2>1, <2>9 DEF SetMode, TypeOK, place, reader
  <2>10. CASE Rename(w)
    BY <2>1, <2>10 DEF Rename, RenameStep, TypeOK, content, reader
  <2>11. CASE Succeed(w)
    BY <2>1, <2>11 DEF Succeed, TypeOK, place, content, reader
  <2>12. CASE Cleanup(w)
    <3>1. stored' \in [File -> 0 .. Size] /\ buffered' \in [Writer -> 0 .. Size]
      BY <2>1, <2>2, <2>12 DEF Cleanup, TypeOK, Filled
    <3>2. linked' \in [Writer -> BOOLEAN]
      BY <2>1, <2>12 DEF Cleanup, TypeOK
    <3> QED
      BY <2>1, <2>12, <3>1, <3>2 DEF Cleanup, TypeOK, place, reader
  <2>13. CASE Refuse(w)
    BY <2>1, <2>13 DEF Refuse, TypeOK, place, content, reader
  <2> QED
    BY <1>1, <2>3, <2>4, <2>5, <2>6, <2>7, <2>8, <2>9, <2>10, <2>11, <2>12, <2>13 DEF Advance
<1>2. ASSUME NEW w \in Writer, Disturb(w)
      PROVE  TypeOK'
  BY <1>2 DEF Disturb, Fail, Interrupt, Kill, OutputInv, TypeOK, place,
     content, reader
<1>3. ASSUME NEW r \in Reader, Look(r)
      PROVE  TypeOK'
  <2>1. TypeOK
    BY DEF OutputInv
  <2>2. CASE OpenRead(r)
    BY <2>1, <2>2 DEF OpenRead, TypeOK, place, commands, content
  <2>3. CASE ReadChunk(r)
    BY <2>1, <2>3 DEF ReadChunk, TypeOK, place, commands, content
  <2>4. CASE ReadEnd(r)
    BY <2>1, <2>4 DEF ReadEnd, TypeOK, place, commands, content
  <2> QED
    BY <1>3, <2>2, <2>3, <2>4 DEF Look
<1>4. CASE UNCHANGED vars
  BY <1>4 DEF OutputInv, TypeOK, vars, place, commands, content, reader
<1> QED
  BY <1>1, <1>2, <1>3, <1>4 DEF Next

\* A step leaves the files of the other commands alone.
OthersAlone(w) == \A v \in Writer \ {w} :
  /\ pc'[v] = pc[v] /\ fault'[v] = fault[v] /\ exit'[v] = exit[v]
  /\ stored'[v] = stored[v] /\ buffered'[v] = buffered[v] /\ mode'[v] = mode[v]
  /\ v \in named' <=> v \in named

\* What a step of one command establishes.
Kept(w) ==
  /\ Filled(w)' /\ Accounted(w)'
  /\ exit'[w] = "0" => w \in named'
  /\ exit'[w] \in {"1", "2"} => w \notin named'
  /\ OthersAlone(w)
  /\ {dest', Old} \subseteq named' /\ named \subseteq named'
  /\ stored'[Old] = Size /\ mode'[Old] = "old"
  /\ UNCHANGED reader

\* A step of one writer keeps what is said of it and leaves the others alone.
LEMMA CommandStep ==
  ASSUME OutputInv, NEW w \in Writer, Advance(w) \/ Disturb(w)
  PROVE  Kept(w)
<1> USE WriterAssumption
<1> USE DEF File, InWrite, Goto, Before, Unwinding, Kept, OthersAlone, Filled, Accounted
<1>1. TypeOK /\ Filled(w) /\ Accounted(w) /\ {dest, Old} \subseteq named
      /\ stored[Old] = Size /\ mode[Old] = "old" /\ Old # w
      /\ (exit[w] = "0" => w \in named) /\ (exit[w] \in {"1", "2"} => w \notin named)
  BY DEF OutputInv, ExitTruthful
<1>2. Size \in Nat /\ stored[w] \in Nat /\ buffered[w] \in Nat
  BY <1>1 DEF TypeOK
<1>3. CASE Decide(w)
  BY <1>1, <1>3 DEF Decide, TypeOK, place, content
<1>4. CASE OpenTemp(w)
  BY <1>1, <1>4 DEF OpenTemp, TypeOK, place, content
<1>5. CASE WriteChunk(w)
  BY <1>1, <1>2, <1>5 DEF WriteChunk, TypeOK, place, commands
<1>6. CASE Flush(w)
  BY <1>1, <1>2, <1>6 DEF Flush, TypeOK, place, commands
<1>7. CASE Written(w)
  BY <1>1, <1>7 DEF Written, TypeOK, place, content
<1>8. CASE Close(w)
  BY <1>1, <1>2, <1>8 DEF Close, CloseHandle, TypeOK, place
<1>9. CASE SetMode(w)
  BY <1>1, <1>9 DEF SetMode, TypeOK, place
<1>10. CASE Rename(w)
  BY <1>1, <1>2, <1>10 DEF Rename, RenameStep, TypeOK, content
<1>11. CASE Succeed(w)
  BY <1>1, <1>11 DEF Succeed, TypeOK, place, content
<1>12. CASE Cleanup(w)
  BY <1>1, <1>2, <1>12 DEF Cleanup, TypeOK, place
<1>13. CASE Refuse(w)
  BY <1>1, <1>13 DEF Refuse, TypeOK, place, content
<1>14. CASE Fail(w)
  BY <1>1, <1>14 DEF Fail, TypeOK, place, content
<1>15. CASE Interrupt(w)
  BY <1>1, <1>15 DEF Interrupt, TypeOK, place, content
<1>16. CASE Kill(w)
  BY <1>1, <1>16 DEF Kill, TypeOK, place, content
<1> QED
  BY <1>3, <1>4, <1>5, <1>6, <1>7, <1>8, <1>9, <1>10, <1>11, <1>12, <1>13,
     <1>14, <1>15, <1>16 DEF Advance, Disturb

\* Every step keeps the invariant of the directory.
LEMMA OutputStep == OutputInv /\ [Next]_vars => OutputInv'
<1> SUFFICES ASSUME OutputInv, [Next]_vars
             PROVE  OutputInv'
  OBVIOUS
<1>1. TypeOK'
  BY OutputTypeStep
<1>2. ASSUME NEW w \in Writer, Advance(w) \/ Disturb(w)
      PROVE  OutputInv'
  <2>1. Kept(w)
    BY <1>2, CommandStep
  <2>2. \A v \in Writer : Filled(v)' /\ Accounted(v)'
    BY <2>1 DEF Kept, OthersAlone, OutputInv, Filled, Accounted
  <2>3. ExitTruthful'
    BY <2>1 DEF Kept, OthersAlone, OutputInv, ExitTruthful
  <2>4. \A r \in Reader : Reading(r)'
    BY <2>1 DEF Kept, OutputInv, Reading, reader
  <2> QED
    BY <1>1, <2>1, <2>2, <2>3, <2>4 DEF Kept, OutputInv
<1>3. ASSUME NEW r \in Reader, Look(r)
      PROVE  OutputInv'
  <2>1. UNCHANGED <<commands, content, place>>
    BY <1>3 DEF Look, OpenRead, ReadChunk, ReadEnd
  <2>2. \A v \in Writer : Filled(v)' /\ Accounted(v)'
    BY <2>1 DEF OutputInv, Filled, Accounted, commands, content, place
  <2>3. ExitTruthful' /\ {dest', Old} \subseteq named' /\ stored'[Old] = Size /\ mode'[Old] = "old"
    BY <2>1 DEF OutputInv, ExitTruthful, commands, content, place
  <2>4. \A f \in named : stored[f] = Size
    BY DEF OutputInv, TypeOK, Accounted, File
  <2>5. Reading(r)'
    <3>1. Reading(r) /\ TypeOK /\ dest \in named /\ Unopened \notin named
      BY WriterAssumption DEF OutputInv, TypeOK, File
    <3>2. CASE OpenRead(r)
      BY <3>1, <3>2 DEF OpenRead, Reading, TypeOK, place
    <3>3. CASE ReadChunk(r)
      BY <3>1, <3>3, <2>4 DEF ReadChunk, Reading, TypeOK, place
    <3>4. CASE ReadEnd(r)
      BY <3>1, <3>4, <2>4, WriterAssumption DEF ReadEnd, Reading, TypeOK, place,
         File
    <3> QED
      BY <1>3, <3>2, <3>3, <3>4 DEF Look
  <2>6. \A s \in Reader \ {r} : Reading(s)'
    BY <1>3, <2>1 DEF Look, OpenRead, ReadChunk, ReadEnd, OutputInv, TypeOK,
       Reading, place
  <2> QED
    BY <1>1, <2>2, <2>3, <2>5, <2>6 DEF OutputInv
<1>4. CASE UNCHANGED vars
  BY <1>4 DEF vars, commands, content, place, reader, OutputInv, TypeOK,
     ExitTruthful,
     Filled, Accounted, Reading
<1> QED
  BY <1>2, <1>3, <1>4 DEF Next

\* The invariant of the commands holds in every reachable state.
THEOREM OutputInvariant == Spec => []OutputInv
BY OutputInit, OutputStep, PTL DEF Spec

-----------------------------------------------------------------------------
(* The output file: the theorems. *)

\* The state keeps its types, and no file grows past a verdict.
THEOREM OutputTypeCorrect == Spec => []TypeOK
<1>1. OutputInv => TypeOK
  BY DEF OutputInv
<1> QED
  BY <1>1, OutputInvariant, PTL

\* A reader that reached the end of the destination read a whole verdict.
THEOREM ReadsAreWhole == Spec => []NoTornRead
<1>1. OutputInv => NoTornRead
  BY DEF OutputInv, NoTornRead, Reading, Accounted, TypeOK, File
<1> QED
  BY <1>1, OutputInvariant, PTL

\* The exit code is true of the destination's history.
THEOREM ExitsAreTruthful == Spec => []ExitTruthful
<1>1. OutputInv => ExitTruthful
  BY DEF OutputInv
<1> QED
  BY <1>1, OutputInvariant, PTL

-----------------------------------------------------------------------------
(* The output file: the refinement. *)

Outcome == [w \in Writer |->
  IF w \in named THEN "installed"
  ELSE IF exit[w] = "running" THEN "pending" ELSE "refused"]

\* An empty directory is a register nobody has set.
LEMMA InitRefines == Init => Abstract!Init
BY WriterAssumption DEF Init, Abstract!Init

\* A rename installs, refusals and reads are their own, the rest is a stutter.
LEMMA StepRefines == OutputInv /\ [Next]_vars => [Abstract!Next]_(Abstract!vars)
<1> SUFFICES ASSUME OutputInv, [Next]_vars
             PROVE  Abstract!Next \/ UNCHANGED <<dest, Outcome, handle>>
  BY DEF Abstract!vars, Outcome
<1> USE WriterAssumption
<1>1. ASSUME NEW w \in Writer, Rename(w)
      PROVE  Abstract!Install(w)
  <2>1. w \notin named /\ exit[w] = "running" /\ w \in Accepting
    BY <1>1 DEF OutputInv, TypeOK, Accounted, Rename, RenameStep, Before
  <2> QED
    BY <1>1, <2>1 DEF Rename, RenameStep, Abstract!Install, reader
<1>2. ASSUME NEW w \in Writer, UNCHANGED place, UNCHANGED reader, TypeOK,
   w \notin named,
             exit[w] = "running", exit' = [exit EXCEPT ![w] = exit'[w]],
             exit'[w] # "running"
      PROVE  Abstract!Refuse(w)
  <2>1. exit'[w] # "running" /\ (\A v \in Writer \ {w} : exit'[v] = exit[v])
    BY <1>2 DEF TypeOK
  <2>2. named' = named /\ dest' = dest /\ handle' = handle
    BY <1>2 DEF place, reader
  <2>3. Outcome[w] = "pending" /\ Outcome' = [Outcome EXCEPT ![w] = "refused"]
    BY <1>2, <2>1, <2>2 DEF Outcome
  <2> QED
    BY <2>2, <2>3 DEF Abstract!Refuse, Outcome
<1>3. ASSUME NEW w \in Writer, UNCHANGED place, UNCHANGED reader, TypeOK, w \in named,
             exit' = [exit EXCEPT ![w] = exit'[w]]
      PROVE  UNCHANGED <<dest, Outcome, handle>>
  BY <1>3 DEF Outcome, place, reader, TypeOK
<1>4. ASSUME NEW w \in Writer, Advance(w) \/ Disturb(w), ~ Rename(w)
      PROVE  Abstract!Refuse(w) \/ UNCHANGED <<dest, Outcome, handle>>
  <2>1. UNCHANGED place /\ UNCHANGED reader
    BY <1>4 DEF Advance, Disturb, Decide, OpenTemp, WriteChunk, Flush,
       Written, Close,
       SetMode, Succeed, Cleanup, Refuse, Fail, Interrupt, Kill
  <2>2. TypeOK /\ TypeOK'
    BY OutputTypeStep DEF OutputInv
  <2>3. exit' = exit \/ (exit' = [exit EXCEPT ![w] = exit'[w]]
                         /\ exit[w] = "running" /\ exit'[w] # "running")
    <3>1. exit \in [Writer -> {"running", "0", "1", "2", "interrupted", "killed"}]
          /\ (pc[w] # "ended" => exit[w] = "running")
      BY <2>2 DEF OutputInv, TypeOK, Accounted
    <3>2. CASE Advance(w)
      BY <1>4, <3>1, <3>2 DEF Advance, Decide, OpenTemp, WriteChunk, Flush,
         Written, Close,
         SetMode, Succeed, Cleanup, Refuse, commands
    <3>3. CASE Disturb(w)
      BY <3>1, <3>3 DEF Disturb, Fail, Interrupt, Kill, commands
    <3> QED
      BY <1>4, <3>2, <3>3
  <2>4. CASE exit' = exit
    BY <2>1, <2>4 DEF Outcome, place, reader
  <2> QED
    BY <1>2, <1>3, <2>1, <2>2, <2>3, <2>4
<1>5. ASSUME NEW r \in Reader, Look(r)
      PROVE  Abstract!Next \/ UNCHANGED <<dest, Outcome, handle>>
  <2>1. CASE OpenRead(r)
    <3>1. Abstract!Read(r)
      BY <2>1 DEF OpenRead, Abstract!Read, commands, place
    <3> QED
      BY <3>1 DEF Abstract!Next
  <2>2. CASE ~ OpenRead(r)
    BY <1>5, <2>2 DEF Look, ReadChunk, ReadEnd, Outcome, commands, place
  <2> QED
    BY <2>1, <2>2
<1>6. CASE UNCHANGED vars
  BY <1>6 DEF vars, commands, place, reader, Outcome
<1> QED
  BY <1>1, <1>4, <1>5, <1>6 DEF Next, Abstract!Next

\* The destination is a register: each command sets it at most once, when it
\* accepts, and a reader gets what it held at one moment.
THEOREM Refinement == Spec => Implements
<1>1. Init => Abstract!Init
  BY InitRefines
<1>2. OutputInv /\ [Next]_vars => [Abstract!Next]_(Abstract!vars)
  BY StepRefines
<1> QED
  BY <1>1, <1>2, OutputInvariant, PTL DEF Spec, Implements, Abstract!Spec

-----------------------------------------------------------------------------
(* The inquiry measurement: what its values are. *)

Streams == {"driver", "consumer"}
Invocation == [planned : Nat, driver : {"right", "wrong", "failed"},
               consumer : {"none", "accepted", "refused", "failed"}]
Report == [invocations : Seq(Invocation), unattached : SUBSET (Nat \X Streams),
           complete : BOOLEAN, missing : Int, elapsed : Nat]
Bytes == [Reports -> Report \cup {None}]
Run == [invocations : Seq(Invocation), captures : SUBSET (Nat \X Streams),
        unattached : SUBSET (Nat \X Streams), hashes : Bytes, checkpoints : Seq(BOOLEAN),
        discrepancy : Nat, complete : BOOLEAN, missing : Int, sealed : BOOLEAN, elapsed : Nat]
Disk == [raw : SUBSET (Nat \X Streams), files : Bytes, archive : Bytes, status : Run \cup {None}]

Answers == {"right", "wrong", "failed"}
Replies == {"accepted", "refused", "failed"}

\* Every variable has its type, and an invocation in flight its result.
MeasureType ==
  /\ at \in Steps /\ next \in 1 .. Planned + 1 /\ late \in BOOLEAN
  /\ run \in Run /\ disk \in Disk
  /\ report \in [value : Report \cup {None}, file : Reports]
  /\ at \in Body \ {"begin", "loop"} => next <= Planned
  /\ at = "attach" => pending \in [result : Answers]
  /\ at = "attachConsumer" => pending \in [result : Replies]

\* What most steps leave alone.
Agree(r, s) ==
  /\ r.invocations = s.invocations /\ r.captures = s.captures
  /\ r.checkpoints = s.checkpoints /\ r.discrepancy = s.discrepancy

\* The report of a run is a report.
LEMMA ReportTyped ==
  ASSUME NEW r \in Run
  PROVE  ReportOf(r) \in Report
BY DEF ReportOf, Report, Run

\* What the clock changes of a run, and what it leaves.
LEMMA LaterView ==
  ASSUME NEW r \in Run
  PROVE  /\ [r EXCEPT !.elapsed = @ + 1] \in Run
         /\ Agree([r EXCEPT !.elapsed = @ + 1], r)
         /\ [r EXCEPT !.elapsed = @ + 1].missing = r.missing
         /\ [r EXCEPT !.elapsed = @ + 1].complete = r.complete
         /\ [r EXCEPT !.elapsed = @ + 1].sealed = r.sealed
         /\ [r EXCEPT !.elapsed = @ + 1].hashes = r.hashes
<1>1. r.elapsed + 1 \in Nat
  BY DEF Run
<1>2. \A n \in Nat : [r EXCEPT !.elapsed = n] \in Run
  BY DEF Run
<1>3. \A n : /\ [r EXCEPT !.elapsed = n].invocations = r.invocations
             /\ [r EXCEPT !.elapsed = n].captures = r.captures
             /\ [r EXCEPT !.elapsed = n].checkpoints = r.checkpoints
             /\ [r EXCEPT !.elapsed = n].discrepancy = r.discrepancy
             /\ [r EXCEPT !.elapsed = n].missing = r.missing
             /\ [r EXCEPT !.elapsed = n].complete = r.complete
             /\ [r EXCEPT !.elapsed = n].sealed = r.sealed
             /\ [r EXCEPT !.elapsed = n].hashes = r.hashes
  BY DEF Run
<1> QED
  BY <1>1, <1>2, <1>3 DEF Agree

\* What recording progress changes of a run, and what it leaves.
LEMMA ProgressedView ==
  ASSUME NEW r \in Run
  PROVE  /\ Progressed(r) \in Run /\ Agree(Progressed(r), r)
         /\ Progressed(r).missing = Missing(r) /\ Missing(r) \in Int
         /\ Progressed(r).complete = r.complete /\ Progressed(r).sealed = r.sealed
         /\ Progressed(r).hashes = r.hashes
<1>1. Missing(r) \in Int
  BY MeasureAssumption DEF Missing, Run, Planned
<1>2. \A m \in Int : /\ [r EXCEPT !.missing = m] \in Run
                    /\ Agree([r EXCEPT !.missing = m], r) /\ [r EXCEPT !.missing = m].missing = m
                    /\ [r EXCEPT !.missing = m].elapsed = r.elapsed
                    /\ [r EXCEPT !.missing = m].complete = r.complete
                    /\ [r EXCEPT !.missing = m].sealed = r.sealed
                    /\ [r EXCEPT !.missing = m].hashes = r.hashes
  BY DEF Run, Agree
<1> DEFINE s == [r EXCEPT !.missing = Missing(r)]
<1>4. /\ s \in Run /\ Agree(s, r) /\ s.missing = Missing(r) /\ s.elapsed = r.elapsed
      /\ s.complete = r.complete /\ s.sealed = r.sealed /\ s.hashes = r.hashes
  BY <1>1, <1>2
<1>5. Progressed(r) = [s EXCEPT !.elapsed = s.elapsed + 1]
  BY <1>4 DEF Progressed
<1> HIDE DEF s
<1> QED
  BY <1>1, <1>4, <1>5, LaterView DEF Agree

\* What starting the recovery changes of a run, and what it leaves.
LEMMA RecoveringView ==
  ASSUME NEW r \in Run
  PROVE  /\ Recovering(r) \in Run /\ Agree(Recovering(r), r)
         /\ Recovering(r).missing = r.missing /\ Missing(Recovering(r)) = Missing(r)
         /\ ~ Recovering(r).complete /\ ~ Recovering(r).sealed
         /\ Recovering(r).hashes = r.hashes
BY DEF Recovering, Run, Agree, Missing

\* What the end of the loop changes of a run, and what it leaves.
LEMMA FinishedView ==
  ASSUME NEW r \in Run, late \in BOOLEAN
  PROVE  /\ Finished(r) \in Run /\ Agree(Finished(r), r)
         /\ Finished(r).missing = r.missing /\ Finished(r).sealed = r.sealed
         /\ Finished(r).complete = (r.complete /\ ~ late)
         /\ Finished(r).hashes = r.hashes
<1> DEFINE s == [r EXCEPT !.elapsed = @ + 1]
<1>1. /\ s \in Run /\ Agree(s, r) /\ s.missing = r.missing /\ s.complete = r.complete
      /\ s.sealed = r.sealed /\ s.hashes = r.hashes
  BY LaterView
<1> DEFINE done == r.complete /\ ~ late
<1>2. Finished(r) = [s EXCEPT !.complete = done]
  BY <1>1 DEF Finished
<1>5. done \in BOOLEAN /\ done = (r.complete /\ ~ late)
  OBVIOUS
<1> HIDE DEF s, done
<1>3. \A b \in BOOLEAN : [s EXCEPT !.complete = b] \in Run
  BY <1>1 DEF Run
<1>4. \A b : /\ [s EXCEPT !.complete = b].invocations = s.invocations
             /\ [s EXCEPT !.complete = b].captures = s.captures
             /\ [s EXCEPT !.complete = b].checkpoints = s.checkpoints
             /\ [s EXCEPT !.complete = b].discrepancy = s.discrepancy
             /\ [s EXCEPT !.complete = b].missing = s.missing
             /\ [s EXCEPT !.complete = b].complete = b
             /\ [s EXCEPT !.complete = b].sealed = s.sealed
             /\ [s EXCEPT !.complete = b].hashes = s.hashes
  BY <1>1 DEF Run
<1>6. /\ Finished(r) \in Run /\ Agree(Finished(r), s) /\ Finished(r).missing = s.missing
      /\ Finished(r).complete = done /\ Finished(r).sealed = s.sealed /\ Finished(r).hashes = s.hashes
  <2> DEFINE u == [s EXCEPT !.complete = done]
  <2>1. u \in Run
    BY <1>3, <1>5
  <2>2. /\ u.invocations = s.invocations /\ u.captures = s.captures
        /\ u.checkpoints = s.checkpoints /\ u.discrepancy = s.discrepancy
        /\ u.missing = s.missing /\ u.complete = done /\ u.sealed = s.sealed /\ u.hashes = s.hashes
    BY <1>4, Zenon
  <2>3. Finished(r) = u
    BY <1>2, Zenon
  <2> HIDE DEF u
  <2> QED
    BY <2>1, <2>2, <2>3, Zenon DEF Agree
<1> QED
  BY <1>1, <1>5, <1>6 DEF Agree

\* What completing changes of a run, and what it leaves.
LEMMA CompletedView ==
  ASSUME NEW r \in Run
  PROVE  /\ [r EXCEPT !.complete = TRUE] \in Run
         /\ Agree([r EXCEPT !.complete = TRUE], r)
         /\ [r EXCEPT !.complete = TRUE].complete
         /\ [r EXCEPT !.complete = TRUE].sealed = r.sealed
BY DEF Run, Agree

\* What counting the missing captures changes of a run, and what it leaves.
LEMMA CountedView ==
  ASSUME NEW r \in Run
  PROVE  /\ [r EXCEPT !.missing = Missing(r)] \in Run
         /\ Agree([r EXCEPT !.missing = Missing(r)], r)
         /\ [r EXCEPT !.missing = Missing(r)].missing = Missing(r)
         /\ [r EXCEPT !.missing = Missing(r)].complete = r.complete
         /\ [r EXCEPT !.missing = Missing(r)].sealed = r.sealed
<1>1. Missing(r) \in Int
  BY MeasureAssumption DEF Missing, Run, Planned
<1> QED
  BY <1>1 DEF Run, Agree

\* What sealing changes of a run, and what it leaves.
LEMMA SealedView ==
  ASSUME NEW r \in Run
  PROVE  /\ [r EXCEPT !.sealed = TRUE] \in Run
         /\ Agree([r EXCEPT !.sealed = TRUE], r)
         /\ [r EXCEPT !.sealed = TRUE].missing = r.missing
         /\ [r EXCEPT !.sealed = TRUE].complete = r.complete
         /\ [r EXCEPT !.sealed = TRUE].sealed
         /\ [r EXCEPT !.sealed = TRUE].hashes = r.hashes
         /\ ReportOf([r EXCEPT !.sealed = TRUE]) = ReportOf(r)
<1>1. [r EXCEPT !.sealed = TRUE] \in Run
  BY DEF Run
<1>2. /\ [r EXCEPT !.sealed = TRUE].unattached = r.unattached
      /\ [r EXCEPT !.sealed = TRUE].elapsed = r.elapsed
      /\ [r EXCEPT !.sealed = TRUE].invocations = r.invocations
      /\ [r EXCEPT !.sealed = TRUE].missing = r.missing
      /\ [r EXCEPT !.sealed = TRUE].complete = r.complete
  BY DEF Run
<1>3. /\ Agree([r EXCEPT !.sealed = TRUE], r)
      /\ [r EXCEPT !.sealed = TRUE].sealed
      /\ [r EXCEPT !.sealed = TRUE].hashes = r.hashes
  BY DEF Run, Agree
<1> QED
  BY <1>1, <1>2, <1>3 DEF ReportOf

\* What hashing a report changes of a run, and what it leaves.
LEMMA HashedView ==
  ASSUME NEW r \in Run, NEW i \in Reports, NEW v \in Report \cup {None}
  PROVE  /\ [r EXCEPT !.hashes[i] = v] \in Run
         /\ Agree([r EXCEPT !.hashes[i] = v], r)
         /\ [r EXCEPT !.hashes[i] = v].missing = r.missing
         /\ [r EXCEPT !.hashes[i] = v].complete = r.complete
         /\ [r EXCEPT !.hashes[i] = v].sealed = r.sealed
         /\ [r EXCEPT !.hashes[i] = v].hashes = [r.hashes EXCEPT ![i] = v]
         /\ ReportOf([r EXCEPT !.hashes[i] = v]) = ReportOf(r)
<1>1. [r.hashes EXCEPT ![i] = v] \in Bytes
  BY DEF Run, Bytes
<1>2. \A h \in Bytes : [r EXCEPT !.hashes = h] \in Run
  BY DEF Run
<1>3. \A h : /\ [r EXCEPT !.hashes = h].unattached = r.unattached
             /\ [r EXCEPT !.hashes = h].elapsed = r.elapsed
             /\ [r EXCEPT !.hashes = h].invocations = r.invocations
             /\ [r EXCEPT !.hashes = h].missing = r.missing
             /\ [r EXCEPT !.hashes = h].complete = r.complete
  BY DEF Run
<1>4. \A h : /\ [r EXCEPT !.hashes = h].captures = r.captures
             /\ [r EXCEPT !.hashes = h].checkpoints = r.checkpoints
             /\ [r EXCEPT !.hashes = h].discrepancy = r.discrepancy
             /\ [r EXCEPT !.hashes = h].sealed = r.sealed
             /\ [r EXCEPT !.hashes = h].hashes = h
  BY DEF Run
<1> DEFINE s == [r EXCEPT !.hashes[i] = v]
<1>5. s = [r EXCEPT !.hashes = [r.hashes EXCEPT ![i] = v]]
  OBVIOUS
<1> HIDE DEF s
<1>6. /\ s \in Run /\ s.unattached = r.unattached /\ s.elapsed = r.elapsed
      /\ s.invocations = r.invocations /\ s.missing = r.missing /\ s.complete = r.complete
      /\ s.captures = r.captures /\ s.checkpoints = r.checkpoints /\ s.discrepancy = r.discrepancy
      /\ s.sealed = r.sealed /\ s.hashes = [r.hashes EXCEPT ![i] = v]
  BY <1>1, <1>2, <1>3, <1>4, <1>5
<1>7. Agree(s, r) /\ ReportOf(s) = ReportOf(r)
  BY <1>6 DEF Agree, ReportOf
<1> QED
  BY <1>6, <1>7 DEF s

\* What writing the status changes on the disk, and what it leaves.
LEMMA DiskView ==
  ASSUME NEW d \in Disk
  PROVE  /\ \A r \in Run : /\ [d EXCEPT !.status = r] \in Disk
                            /\ [d EXCEPT !.status = r].status = r
         /\ \A r : /\ [d EXCEPT !.status = r].raw = d.raw
                   /\ [d EXCEPT !.status = r].files = d.files
                   /\ [d EXCEPT !.status = r].archive = d.archive
BY DEF Disk

\* What a capture changes on the disk, and what it leaves.
LEMMA CaptureView ==
  ASSUME NEW d \in Disk, NEW x \in Nat \X Streams
  PROVE  /\ [d EXCEPT !.raw = @ \cup {x}] \in Disk
         /\ [d EXCEPT !.raw = @ \cup {x}].raw = d.raw \cup {x}
         /\ [d EXCEPT !.raw = @ \cup {x}].files = d.files
         /\ [d EXCEPT !.raw = @ \cup {x}].archive = d.archive
         /\ [d EXCEPT !.raw = @ \cup {x}].status = d.status
BY DEF Disk

\* What writing a report changes on the disk, and what it leaves.
LEMMA FileView ==
  ASSUME NEW d \in Disk, NEW i \in Reports, NEW v \in Report \cup {None}
  PROVE  /\ [d EXCEPT !.files[i] = v] \in Disk
         /\ [d EXCEPT !.files[i] = v].raw = d.raw
         /\ [d EXCEPT !.files[i] = v].files = [d.files EXCEPT ![i] = v]
         /\ [d EXCEPT !.files[i] = v].archive = d.archive
         /\ [d EXCEPT !.files[i] = v].status = d.status
BY DEF Disk, Bytes

\* What archiving a report changes on the disk, and what it leaves.
LEMMA ArchiveView ==
  ASSUME NEW d \in Disk, NEW i \in Reports, NEW v \in Report \cup {None}
  PROVE  /\ [d EXCEPT !.archive[i] = v] \in Disk
         /\ [d EXCEPT !.archive[i] = v].raw = d.raw
         /\ [d EXCEPT !.archive[i] = v].files = d.files
         /\ [d EXCEPT !.archive[i] = v].archive = [d.archive EXCEPT ![i] = v]
         /\ [d EXCEPT !.archive[i] = v].status = d.status
BY DEF Disk, Bytes

\* There are so many invocations to make.
LEMMA PlannedNat == Planned \in Nat
BY MeasureAssumption DEF Planned

\* The steps that leave the evidence and the scores alone.
Quiet == MeasureType' /\ Agree(run', run) /\ disk'.raw = disk.raw

\* The kinds of step: those that touch the evidence, and the quiet ones.
LEMMA QuietStep ==
  ASSUME MeasureType, MeasureNext
  PROVE  Quiet \/ Driver \/ Consumer \/ Attach \/ AttachConsumer \/ AppendCheckpoint
         \/ MarkDiscrepancy \/ Scan
<1> USE PlannedNat DEF MeasureType
<1>0. Agree(run, run)
  BY DEF Agree
<1>1. ASSUME NEW from, NEW to \in Steps, Publish(from, to),
             to \in {"loop"} \/ (to # "attach" /\ to # "attachConsumer" /\ next <= Planned)
      PROVE  Quiet
  BY <1>1, ProgressedView, DiskView DEF Publish, Quiet
<1>2. CASE Begin \/ Announce \/ AnnounceConsumer
  <2>1. CASE Publish("begin", "loop")
    BY <1>1, <2>1 DEF Steps, Body
  <2>2. CASE Publish("announce", "driver") \/ Publish("announceConsumer", "consumer")
    <3>1. next <= Planned
      BY <2>2 DEF Publish, Body
    <3> QED
      BY <1>1, <2>2, <3>1 DEF Steps, Body
  <2> QED
    BY <1>2, <2>1, <2>2 DEF Begin, Announce, AnnounceConsumer
<1>3. CASE Loop
  <2>1. run' \in Run /\ Agree(run', run)
    BY <1>0, <1>3, CompletedView DEF Loop
  <2>2. at' \in {"after", "announce"} /\ (at' = "announce" => next' <= Planned)
        /\ UNCHANGED <<next, pending, report, disk, late>>
    BY <1>3 DEF Loop
  <2> QED
    BY <2>1, <2>2 DEF Quiet, Steps, Body
<1>4. CASE Progress \/ Checkpoint
  <2>1. run' = Progressed(run) /\ disk' = [disk EXCEPT !.status = run'] /\ next <= Planned
    BY <1>4 DEF Progress, Checkpoint, Body
  <2>2. at' \in {"after", "append", "loop"} /\ next' = (IF at' = "loop" THEN next + 1 ELSE next)
        /\ UNCHANGED <<pending, report, late>>
    BY <1>4 DEF Progress, Checkpoint, AfterConsumer, AfterCheckpoint
  <2>3. run' \in Run /\ Agree(run', run) /\ disk' \in Disk /\ disk'.raw = disk.raw
    BY <2>1, ProgressedView, DiskView
  <2>4. next' \in 1 .. Planned + 1 /\ (at' # "loop" => next' <= Planned)
    BY <2>1, <2>2
  <2> QED
    BY <2>2, <2>3, <2>4 DEF Quiet, Steps, Body
<1>5. CASE After
  <2>1. run' \in Run /\ Agree(run', run)
    BY <1>5, CountedView DEF After
  <2> QED
    BY <1>5, <2>1 DEF After, Quiet, Steps, Body
<1>6. CASE Raise \/ Reset
  <2>1. run' \in Run /\ Agree(run', run) /\ disk' \in Disk /\ disk'.raw = disk.raw
    <3>1. run' = Progressed(run) /\ disk' = [disk EXCEPT !.status = run']
      BY <1>6 DEF Raise, Reset
    <3> QED
      BY <3>1, ProgressedView, DiskView
  <2>2. report' \in [value : Report \cup {None}, file : Reports]
    BY <1>6 DEF Raise, Reset, Reports
  <2> QED
    BY <1>6, <2>1, <2>2 DEF Raise, Reset, Quiet, Steps, Body, Recovery
<1>7. CASE Score
  <2>1. run' \in Run /\ Agree(run', run)
    BY <1>7, FinishedView DEF Score
  <2>2. ReportOf(run') \in Report
    BY <2>1, ReportTyped
  <2>3. report' \in [value : Report \cup {None}, file : Reports]
    BY <1>7, <2>2 DEF Score, Reports
  <2> QED
    BY <1>7, <2>1, <2>3 DEF Score, Quiet, Steps, Body, Sealing
<1>8. CASE Link
  <2>1. disk' \in Disk /\ disk'.raw = disk.raw
    BY <1>8, FileView DEF Link
  <2> QED
    BY <1>0, <1>8, <2>1 DEF Link, Quiet, Steps, Body, Sealing
<1>9. ASSUME report.file + 1 \in Reports
      PROVE  [report EXCEPT !.file = @ + 1] \in [value : Report \cup {None}, file : Reports]
  BY <1>9 DEF Reports
<1>10. CASE Hash
  <2>1. run' \in Run /\ Agree(run', run)
    BY <1>10, HashedView DEF Hash
  <2>2. report' \in [value : Report \cup {None}, file : Reports]
    BY <1>9, <1>10 DEF Hash
  <2> QED
    BY <1>10, <2>1, <2>2 DEF Hash, Quiet, Steps, Body, Sealing
<1>11. CASE Seal
  <2>1. /\ [run EXCEPT !.sealed = TRUE] \in Run
        /\ Agree([run EXCEPT !.sealed = TRUE], run)
    BY SealedView
  <2>2. /\ Recovering([run EXCEPT !.sealed = TRUE]) \in Run
        /\ Agree(Recovering([run EXCEPT !.sealed = TRUE]), [run EXCEPT !.sealed = TRUE])
    BY <2>1, RecoveringView
  <2>3. run' \in Run /\ Agree(run', run)
    BY <1>11, <2>1, <2>2 DEF Seal, Agree
  <2> QED
    BY <1>11, <2>3 DEF Seal, Quiet, Steps, Body, Sealing, Recovery
<1>12. CASE Replace
  <2>1. disk' \in Disk /\ disk'.raw = disk.raw
    BY <1>12, DiskView DEF Replace
  <2> QED
    BY <1>0, <1>12, <2>1 DEF Replace, Quiet, Steps, Body, Sealing
<1>13. CASE Published
  BY <1>0, <1>13 DEF Published, Leave, Quiet, Steps, Body, Sealing
<1>14. CASE Archive
  <2>1. run' \in Run /\ Agree(run', run)
    BY <1>14, HashedView DEF Archive
  <2>2. disk.files[report.file] \in Report \cup {None}
    BY DEF Disk, Bytes
  <2>3. disk' \in Disk /\ disk'.raw = disk.raw
    BY <1>14, <2>2, ArchiveView DEF Archive, Archived
  <2>4. report' \in [value : Report \cup {None}, file : Reports]
    BY <1>9, <1>14 DEF Archive
  <2> QED
    BY <1>14, <2>1, <2>3, <2>4 DEF Archive, Quiet, Steps, Body, Recovery
<1>15. CASE Rescore
  <2>1. run' \in Run /\ Agree(run', run)
    BY <1>15, LaterView DEF Rescore
  <2>2. ReportOf(run') \in Report
    BY <2>1, ReportTyped
  <2>3. report' \in [value : Report \cup {None}, file : Reports]
    BY <1>15, <2>2 DEF Rescore, Reports
  <2> QED
    BY <1>15, <2>1, <2>3 DEF Rescore, Quiet, Steps, Body, Recovery
<1>16. CASE Rewrite
  <2>1. run' \in Run /\ Agree(run', run)
    BY <1>16, HashedView DEF Rewrite
  <2>2. disk' \in Disk /\ disk'.raw = disk.raw
    BY <1>16, FileView DEF Rewrite
  <2>3. report' \in [value : Report \cup {None}, file : Reports]
    BY <1>9, <1>16 DEF Rewrite
  <2> QED
    BY <1>16, <2>1, <2>2, <2>3 DEF Rewrite, Quiet, Steps, Body, Recovery
<1>17. CASE Reseal
  <2>1. run' \in Run /\ Agree(run', run)
    BY <1>17, SealedView DEF Reseal
  <2>2. disk' \in Disk /\ disk'.raw = disk.raw
    BY <1>17, <2>1, DiskView DEF Reseal
  <2> QED
    BY <1>17, <2>1, <2>2 DEF Reseal, Quiet, Steps, Body
<1>18. CASE Fault
  <2>1. run' \in Run /\ Agree(run', run)
    BY <1>0, <1>18, RecoveringView DEF Fault, Handled
  <2>2. at' \in {"after", "raise", "reset", "end"} /\ UNCHANGED <<next, report, disk, late>>
    BY <1>18 DEF Fault, Handled
  <2> QED
    BY <2>1, <2>2 DEF Quiet, Steps, Body, Recovery
<1>19. CASE Expire
  BY <1>0, <1>19 DEF Expire, Quiet
<1> QED
  BY <1>2, <1>3, <1>4, <1>5, <1>6, <1>7, <1>8, <1>10, <1>11, <1>12, <1>13, <1>14, <1>15, <1>16,
     <1>17, <1>18, <1>19 DEF MeasureNext, Step

-----------------------------------------------------------------------------
(* The other steps. *)

\* A child that returns leaves one capture, which no invocation names yet.
LEMMA InvokeView ==
  ASSUME MeasureType, Driver \/ Consumer
  PROVE  \E stream \in Streams :
           /\ MeasureType' /\ run' = run /\ next' = next /\ next <= Planned
           /\ disk'.raw = disk.raw \cup {<<next, stream>>}
           /\ disk'.files = disk.files /\ disk'.archive = disk.archive /\ disk'.status = disk.status
           /\ \/ stream = "driver" /\ at = "driver" /\ at' = "attach"
              \/ stream = "consumer" /\ at = "consumer" /\ at' = "attachConsumer"
<1> USE PlannedNat
<1>1. next \in Nat /\ disk \in Disk /\ run \in Run
  BY DEF MeasureType
<1>2. CASE Driver
  <2>1. /\ at = "driver" /\ at' = "attach" /\ disk' = [disk EXCEPT !.raw = @ \cup {<<next, "driver">>}]
        /\ UNCHANGED <<next, report, run, late, faults, ended>>
    BY <1>2 DEF Driver, Invoke
  <2>2. pending' \in [result : Answers]
    BY <1>2 DEF Driver, Invoke, Answers
  <2>3. next <= Planned
    BY <2>1 DEF MeasureType, Body
  <2>4. <<next, "driver">> \in Nat \X Streams
    BY <1>1 DEF Streams
  <2>5. /\ disk' \in Disk /\ disk'.raw = disk.raw \cup {<<next, "driver">>}
        /\ disk'.files = disk.files /\ disk'.archive = disk.archive /\ disk'.status = disk.status
    BY <1>1, <2>1, <2>4, CaptureView
  <2>6. MeasureType'
    BY <2>1, <2>2, <2>3, <2>5 DEF MeasureType, Steps, Body
  <2> QED
    BY <2>1, <2>3, <2>5, <2>6 DEF Streams
<1>3. CASE Consumer
  <2>1. /\ at = "consumer" /\ at' = "attachConsumer"
        /\ disk' = [disk EXCEPT !.raw = @ \cup {<<next, "consumer">>}]
        /\ UNCHANGED <<next, report, run, late, faults, ended>>
    BY <1>3 DEF Consumer, Invoke
  <2>2. pending' \in [result : Replies]
    BY <1>3 DEF Consumer, Invoke, Replies
  <2>3. next <= Planned
    BY <2>1 DEF MeasureType, Body
  <2>4. <<next, "consumer">> \in Nat \X Streams
    BY <1>1 DEF Streams
  <2>5. /\ disk' \in Disk /\ disk'.raw = disk.raw \cup {<<next, "consumer">>}
        /\ disk'.files = disk.files /\ disk'.archive = disk.archive /\ disk'.status = disk.status
    BY <1>1, <2>1, <2>4, CaptureView
  <2>6. MeasureType'
    BY <2>1, <2>2, <2>3, <2>5 DEF MeasureType, Steps, Body
  <2> QED
    BY <2>1, <2>3, <2>5, <2>6 DEF Streams
<1> QED
  BY <1>2, <1>3

\* The driver's answer opens an invocation that names its capture.
LEMMA AttachView ==
  ASSUME MeasureType, Attach
  PROVE  /\ MeasureType' /\ disk' = disk /\ next' = next /\ next <= Planned /\ at = "attach"
         /\ \E answer \in Answers :
              run'.invocations = Append(run.invocations, [planned |-> next, driver |-> answer, consumer |-> "none"])
         /\ run'.captures = run.captures \cup {<<next, "driver">>}
         /\ run'.checkpoints = run.checkpoints /\ run'.discrepancy = run.discrepancy
         /\ run'.complete = run.complete /\ run'.sealed = run.sealed
         /\ at' \in {"after", "announceConsumer"}
<1> USE PlannedNat
<1> DEFINE x == [planned |-> next, driver |-> pending.result, consumer |-> "none"]
           i == Append(run.invocations, x)
           c == run.captures \cup {<<next, "driver">>}
<1>1. /\ at = "attach" /\ run' = [run EXCEPT !.invocations = i, !.captures = c]
      /\ at' \in {"after", "announceConsumer"} /\ UNCHANGED <<next, report, disk, late, faults, ended>>
  BY DEF Attach
<1>2. next \in Nat /\ next <= Planned /\ pending.result \in Answers /\ run \in Run /\ disk \in Disk
  BY <1>1 DEF MeasureType, Body
<1>3. x \in Invocation
  BY <1>2 DEF Invocation, Answers
<1>4. run.invocations \in Seq(Invocation) /\ run.captures \subseteq Nat \X Streams
  BY <1>2 DEF Run
<1>5. i \in Seq(Invocation)
  <2> HIDE DEF x
  <2> QED BY <1>3, <1>4
<1>6. c \in SUBSET (Nat \X Streams)
  BY <1>2, <1>4 DEF Streams
<1> HIDE DEF x, i, c
<1>7. run' \in Run
  BY <1>1, <1>2, <1>5, <1>6 DEF Run
<1>8. /\ run'.invocations = i /\ run'.captures = c
      /\ run'.checkpoints = run.checkpoints /\ run'.discrepancy = run.discrepancy
      /\ run'.complete = run.complete /\ run'.sealed = run.sealed
  BY <1>1, <1>2 DEF Run
<1>9. MeasureType'
  BY <1>1, <1>2, <1>7 DEF MeasureType, Steps, Body
<1> QED
  BY <1>1, <1>2, <1>8, <1>9 DEF x, i, c

\* The consumer's reply is added to the invocation it belongs to.
LEMMA AttachConsumerView ==
  ASSUME MeasureType, AttachConsumer, next \in 1 .. Len(run.invocations)
  PROVE  /\ MeasureType' /\ disk' = disk /\ next' = next /\ next <= Planned
         /\ \E reply \in Replies :
              run'.invocations = [run.invocations EXCEPT ![next] = [@ EXCEPT !.consumer = reply]]
         /\ run'.captures = run.captures \cup {<<next, "consumer">>}
         /\ run'.checkpoints = run.checkpoints /\ run'.discrepancy = run.discrepancy
         /\ run'.complete = run.complete /\ run'.sealed = run.sealed
         /\ at = "attachConsumer" /\ at' = "progress"
<1> USE PlannedNat
<1> DEFINE i == [run.invocations EXCEPT ![next] = [@ EXCEPT !.consumer = pending.result]]
           c == run.captures \cup {<<next, "consumer">>}
<1>1. /\ at = "attachConsumer" /\ run' = [run EXCEPT !.invocations = i, !.captures = c]
      /\ at' = "progress" /\ UNCHANGED <<next, report, disk, late, faults, ended>>
  BY DEF AttachConsumer
<1>2. next \in Nat /\ next <= Planned /\ pending.result \in Replies /\ run \in Run /\ disk \in Disk
  BY <1>1 DEF MeasureType, Body
<1>3. run.invocations \in Seq(Invocation) /\ run.captures \subseteq Nat \X Streams
  BY <1>2 DEF Run
<1>4. [run.invocations[next] EXCEPT !.consumer = pending.result] \in Invocation
  <2>1. \A v \in Invocation, x \in Replies : [v EXCEPT !.consumer = x] \in Invocation
    BY DEF Invocation, Replies
  <2>2. run.invocations[next] \in Invocation
    BY <1>3
  <2> QED
    BY <1>2, <2>1, <2>2
<1>5. i \in Seq(Invocation)
  BY <1>3, <1>4
<1>6. c \in SUBSET (Nat \X Streams)
  BY <1>2, <1>3 DEF Streams
<1> HIDE DEF i, c
<1>7. run' \in Run
  BY <1>1, <1>2, <1>5, <1>6 DEF Run
<1>8. /\ run'.invocations = i /\ run'.captures = c
      /\ run'.checkpoints = run.checkpoints /\ run'.discrepancy = run.discrepancy
      /\ run'.complete = run.complete /\ run'.sealed = run.sealed
  BY <1>1, <1>2 DEF Run
<1>9. MeasureType'
  BY <1>1, <1>2, <1>7 DEF MeasureType, Steps, Body
<1> QED
  BY <1>1, <1>2, <1>8, <1>9 DEF i, c

\* A checkpoint is appended with the score of the pair just made.
LEMMA AppendView ==
  ASSUME MeasureType, AppendCheckpoint
  PROVE  /\ MeasureType' /\ disk' = disk /\ next' = next
         /\ run'.invocations = run.invocations /\ run'.captures = run.captures
         /\ run'.checkpoints = Append(run.checkpoints, PairPasses(run.invocations, next \div 2))
         /\ run'.discrepancy = run.discrepancy /\ run'.complete = run.complete /\ run'.sealed = run.sealed
         /\ at = "append" /\ at' = "mark"
<1> USE PlannedNat
<1> DEFINE k == Append(run.checkpoints, PairPasses(run.invocations, next \div 2))
<1>1. /\ at = "append" /\ at' = "mark" /\ run' = [run EXCEPT !.checkpoints = k]
      /\ UNCHANGED <<next, pending, report, disk, late, faults, ended>>
  BY DEF AppendCheckpoint
<1>2. run \in Run /\ run.checkpoints \in Seq(BOOLEAN)
  BY DEF MeasureType, Run
<1>3. PairPasses(run.invocations, next \div 2) \in BOOLEAN
  BY DEF PairPasses
<1>4. k \in Seq(BOOLEAN)
  BY <1>2, <1>3
<1> HIDE DEF k
<1>5. run' \in Run
  BY <1>1, <1>2, <1>4 DEF Run
<1>6. /\ run'.invocations = run.invocations /\ run'.captures = run.captures
      /\ run'.checkpoints = k /\ run'.discrepancy = run.discrepancy
      /\ run'.complete = run.complete /\ run'.sealed = run.sealed
  BY <1>1, <1>2 DEF Run
<1>7. MeasureType'
  BY <1>1, <1>5 DEF MeasureType, Steps, Body
<1> QED
  BY <1>1, <1>6, <1>7 DEF k

\* The discrepancy is brought up to the last checkpoint.
LEMMA MarkView ==
  ASSUME MeasureType, MarkDiscrepancy
  PROVE  /\ MeasureType' /\ disk' = disk /\ next' = next
         /\ run'.invocations = run.invocations /\ run'.captures = run.captures
         /\ run'.checkpoints = run.checkpoints
         /\ run'.discrepancy = DiscrepancyAfter(run.checkpoints)
         /\ run'.complete = run.complete /\ run'.sealed = run.sealed
         /\ at = "mark" /\ at' = "checkpoint"
<1> USE PlannedNat
<1>1. /\ at = "mark" /\ at' = "checkpoint"
      /\ run' = [run EXCEPT !.discrepancy = DiscrepancyAfter(run.checkpoints)]
      /\ UNCHANGED <<next, pending, report, disk, late, faults, ended>>
  BY DEF MarkDiscrepancy
<1>2. run \in Run /\ run.checkpoints \in Seq(BOOLEAN)
  BY DEF MeasureType, Run
<1>3. DiscrepancyAfter(run.checkpoints) \in Nat
  BY <1>2 DEF DiscrepancyAfter
<1>5. run' \in Run
  BY <1>1, <1>2, <1>3 DEF Run
<1>6. /\ run'.invocations = run.invocations /\ run'.captures = run.captures
      /\ run'.checkpoints = run.checkpoints /\ run'.discrepancy = DiscrepancyAfter(run.checkpoints)
      /\ run'.complete = run.complete /\ run'.sealed = run.sealed
  BY <1>1, <1>2 DEF Run
<1>7. MeasureType'
  BY <1>1, <1>5 DEF MeasureType, Steps, Body
<1> QED
  BY <1>1, <1>6, <1>7

\* A scan of the directory names every capture that is there.
LEMMA ScanView ==
  ASSUME MeasureType, Scan
  PROVE  /\ MeasureType' /\ disk' = disk /\ next' = next
         /\ run'.invocations = run.invocations /\ run'.captures = run.captures \cup disk.raw
         /\ run'.checkpoints = run.checkpoints /\ run'.discrepancy = run.discrepancy
         /\ run'.complete = run.complete /\ run'.sealed = run.sealed /\ run'.missing = run.missing
         /\ at = "scan" /\ at' = "score"
<1> USE PlannedNat
<1> DEFINE c == run.captures \cup disk.raw
           u == disk.raw \ run.captures
<1>1. /\ at = "scan" /\ at' = "score" /\ run' = [run EXCEPT !.captures = c, !.unattached = u]
      /\ UNCHANGED <<next, pending, report, disk, late, faults, ended>>
  BY DEF Scan, Scanned
<1>2. run \in Run /\ disk \in Disk
  BY DEF MeasureType
<1>3. c \in SUBSET (Nat \X Streams) /\ u \in SUBSET (Nat \X Streams)
  BY <1>2 DEF Run, Disk
<1> HIDE DEF c, u
<1>5. run' \in Run
  BY <1>1, <1>2, <1>3 DEF Run
<1>6. /\ run'.invocations = run.invocations /\ run'.captures = c
      /\ run'.checkpoints = run.checkpoints /\ run'.discrepancy = run.discrepancy
      /\ run'.complete = run.complete /\ run'.sealed = run.sealed /\ run'.missing = run.missing
  BY <1>1, <1>2 DEF Run
<1>7. MeasureType'
  BY <1>1, <1>5 DEF MeasureType, Steps, Body, Sealing
<1> QED
  BY <1>1, <1>6, <1>7 DEF c

-----------------------------------------------------------------------------
(* The evidence: invocations and their captures. *)

Gathering == {"begin", "loop", "announce", "driver", "attach"}
Asking == {"announceConsumer", "consumer", "attachConsumer"}
Scoring == {"progress", "append", "mark", "checkpoint"}

Recorded(r, k) ==
  /\ r.invocations[k].planned = k
  /\ <<k, "driver">> \in r.captures
  /\ r.invocations[k].consumer # "none" => <<k, "consumer">> \in r.captures
  /\ k < Len(r.invocations) => r.invocations[k].consumer # "none"

Evidence ==
  /\ Len(run.invocations) <= Planned
  /\ \A k \in 1 .. Len(run.invocations) : Recorded(run, k)
  /\ run.captures \subseteq disk.raw /\ disk.raw \subseteq (1 .. Planned) \X Streams
  /\ at \in Gathering =>
       /\ Len(run.invocations) = next - 1
       /\ \A k \in 1 .. Len(run.invocations) : run.invocations[k].consumer # "none"
  /\ at \in Asking => Len(run.invocations) = next
  /\ at \in Scoring => Len(run.invocations) = next /\ run.invocations[next].consumer # "none"
  /\ at = "attach" => <<next, "driver">> \in disk.raw
  /\ at = "attachConsumer" => <<next, "consumer">> \in disk.raw

\* Where a quiet step goes within the body of the runner.
QuietMove ==
  \/ at' \notin Body
  \/ at' = at /\ next' = next
  \/ at' \in {"loop", "announce", "driver"} /\ at \in {"begin", "loop", "announce"} /\ next' = next
  \/ at' = "consumer" /\ at = "announceConsumer" /\ next' = next
  \/ at' = "append" /\ at = "progress" /\ next' = next /\ next % 2 = 0
  \/ at' = "loop" /\ at = "progress" /\ next' = next + 1 /\ next % 2 # 0
  \/ at' = "loop" /\ at = "checkpoint" /\ next' = next + 1
     /\ run.checkpoints[Len(run.checkpoints)]

Noisy == Driver \/ Consumer \/ Attach \/ AttachConsumer \/ AppendCheckpoint \/ MarkDiscrepancy \/ Scan

\* A quiet step leaves the evidence and only moves on.
LEMMA QuietMoves ==
  ASSUME MeasureType, MeasureNext, ~ Noisy
  PROVE  QuietMove
<1>1. CASE Begin \/ Announce \/ AnnounceConsumer \/ Expire
  BY <1>1 DEF Begin, Announce, AnnounceConsumer, Publish, Expire, QuietMove
<1>2. CASE Loop
  BY <1>2 DEF Loop, QuietMove, Body
<1>3. CASE Progress
  <2>1. at = "progress" /\ at' = AfterConsumer /\ next' = (IF at' = "loop" THEN next + 1 ELSE next)
    BY <1>3 DEF Progress
  <2>2. AfterConsumer \in {"after", "append", "loop"} /\ (AfterConsumer = "append" => next % 2 = 0)
        /\ (AfterConsumer = "loop" => next % 2 # 0)
    BY DEF AfterConsumer
  <2> QED
    BY <2>1, <2>2 DEF QuietMove, Body
<1>4. CASE Checkpoint
  BY <1>4 DEF Checkpoint, AfterCheckpoint, QuietMove, Body
<1>5. CASE Fault
  BY <1>5 DEF Fault, Handled, QuietMove, Body
<1>6. CASE After \/ Raise \/ Score \/ Link \/ Hash \/ Seal \/ Replace \/ Published
  BY <1>6 DEF After, Raise, Score, Link, Hash, Seal, Replace, Published, Leave, QuietMove, Body
<1>7. CASE Reset \/ Archive \/ Rescore \/ Rewrite \/ Reseal
  BY <1>7 DEF Reset, Archive, Rescore, Rewrite, Reseal, QuietMove, Body
<1> QED
  BY <1>1, <1>2, <1>3, <1>4, <1>5, <1>6, <1>7 DEF MeasureNext, Step, Noisy

\* Every step keeps what is said of the captures.
LEMMA EvidenceStep ==
  ASSUME MeasureType, Evidence, MeasureNext
  PROVE  Evidence'
<1> USE PlannedNat
<1>0. /\ next \in Nat /\ run \in Run /\ disk \in Disk /\ Len(run.invocations) \in Nat
      /\ run.invocations \in Seq(Invocation)
  BY DEF MeasureType, Run
<1>1. CASE ~ Noisy
  <2>1. Quiet /\ QuietMove
    BY <1>1, QuietStep, QuietMoves DEF Noisy
  <2>2. run'.invocations = run.invocations /\ run'.captures = run.captures /\ disk'.raw = disk.raw
    BY <2>1 DEF Quiet, Agree
  <2>3. \A k \in 1 .. Len(run.invocations) : Recorded(run, k) => Recorded(run, k)'
    BY <2>2 DEF Recorded
  <2>4. \A k \in 1 .. Len(run'.invocations) : Recorded(run, k)'
    BY <2>2, <2>3 DEF Evidence
  <2>5. ASSUME at \in Scoring, NEW k \in 1 .. Len(run.invocations)
        PROVE  run.invocations[k].consumer # "none"
    <3>1. Len(run.invocations) = next /\ run.invocations[next].consumer # "none" /\ Recorded(run, k)
      BY <2>5 DEF Evidence
    <3>2. k = next \/ k < Len(run.invocations)
      BY <1>0, <3>1
    <3> QED
      BY <3>1, <3>2 DEF Recorded
  <2>6. CASE at' \notin Body
    BY <2>2, <2>4, <2>6 DEF Evidence, Body, Gathering, Asking, Scoring
  <2>7. CASE at' = at /\ next' = next
    BY <2>2, <2>4, <2>7 DEF Evidence
  <2>8. CASE at' = "loop" /\ at \in Scoring /\ next' = next + 1
    BY <1>0, <2>2, <2>4, <2>5, <2>8 DEF Evidence, Gathering, Asking, Scoring
  <2>9. CASE at' \in {"loop", "announce", "driver"} /\ at \in {"begin", "loop", "announce"} /\ next' = next
    BY <1>0, <2>2, <2>4, <2>9 DEF Evidence, Gathering, Asking, Scoring
  <2>10. CASE at' = "consumer" /\ at = "announceConsumer" /\ next' = next
    BY <1>0, <2>2, <2>4, <2>10 DEF Evidence, Gathering, Asking, Scoring
  <2>11. CASE at' = "append" /\ at = "progress" /\ next' = next
    BY <1>0, <2>2, <2>4, <2>11 DEF Evidence, Gathering, Asking, Scoring
  <2> QED
    BY <2>1, <2>6, <2>7, <2>8, <2>9, <2>10, <2>11 DEF QuietMove, Scoring
<1>2. CASE Driver \/ Consumer
  <2>1. PICK stream \in Streams :
          /\ run' = run /\ next' = next /\ next <= Planned
          /\ disk'.raw = disk.raw \cup {<<next, stream>>}
          /\ \/ stream = "driver" /\ at = "driver" /\ at' = "attach"
             \/ stream = "consumer" /\ at = "consumer" /\ at' = "attachConsumer"
    BY <1>2, InvokeView
  <2>2. \A k \in 1 .. Len(run.invocations) : Recorded(run, k)'
    BY <2>1 DEF Evidence, Recorded
  <2>3. <<next, stream>> \in (1 .. Planned) \X Streams
    <3>1. next \in 1 .. Planned
      BY <2>1 DEF MeasureType
    <3> QED
      BY <3>1
  <2>4. run'.captures \subseteq disk'.raw /\ disk'.raw \subseteq (1 .. Planned) \X Streams
    BY <2>1, <2>3 DEF Evidence
  <2> QED
    BY <2>1, <2>2, <2>4 DEF Evidence, Gathering, Asking, Scoring
<1>3. CASE Attach
  <2>1. PICK answer \in Answers :
          /\ disk' = disk /\ next' = next /\ next <= Planned /\ at = "attach"
          /\ run'.invocations = Append(run.invocations, [planned |-> next, driver |-> answer, consumer |-> "none"])
          /\ run'.captures = run.captures \cup {<<next, "driver">>}
          /\ at' \in {"after", "announceConsumer"}
    BY <1>3, AttachView
  <2>2. /\ Len(run'.invocations) = next /\ Len(run.invocations) = next - 1
        /\ \A k \in 1 .. Len(run.invocations) : run'.invocations[k] = run.invocations[k]
        /\ run'.invocations[next] = [planned |-> next, driver |-> answer, consumer |-> "none"]
    <3> DEFINE x == [planned |-> next, driver |-> answer, consumer |-> "none"]
    <3>1. Len(run.invocations) = next - 1
      BY <2>1 DEF Evidence, Gathering
    <3>2. run'.invocations = Append(run.invocations, x)
      BY <2>1
    <3> HIDE DEF x
    <3>3. /\ Len(run'.invocations) = next /\ run'.invocations[next] = x
          /\ \A k \in 1 .. Len(run.invocations) : run'.invocations[k] = run.invocations[k]
      BY <1>0, <3>1, <3>2
    <3> QED
      BY <3>1, <3>3 DEF x
  <2>3. ASSUME NEW k \in 1 .. Len(run'.invocations) PROVE Recorded(run, k)'
    <3>1. CASE k = next
      BY <2>1, <2>2, <3>1 DEF Recorded
    <3>2. CASE k # next
      <4>1. k \in 1 .. Len(run.invocations)
        BY <1>0, <2>2, <3>2
      <4>2. run.invocations[k].consumer # "none" /\ Recorded(run, k)
        BY <2>1, <4>1 DEF Evidence, Gathering
      <4> QED
        BY <2>1, <2>2, <4>1, <4>2 DEF Recorded
    <3> QED
      BY <3>1, <3>2
  <2> QED
    BY <2>1, <2>2, <2>3 DEF Evidence, Gathering, Asking, Scoring
<1>4. CASE AttachConsumer
  <2>0. at = "attachConsumer"
    BY <1>4 DEF AttachConsumer
  <2>1. next = Len(run.invocations) /\ next \in 1 .. Len(run.invocations)
    BY <1>0, <2>0 DEF Evidence, Asking, MeasureType
  <2>2. PICK reply \in Replies :
          /\ disk' = disk /\ next' = next
          /\ run'.invocations = [run.invocations EXCEPT ![next] = [@ EXCEPT !.consumer = reply]]
          /\ run'.captures = run.captures \cup {<<next, "consumer">>}
          /\ at' = "progress"
    BY <1>4, <2>1, AttachConsumerView
  <2>3. /\ Len(run'.invocations) = Len(run.invocations)
        /\ \A k \in 1 .. Len(run.invocations) : k # next => run'.invocations[k] = run.invocations[k]
        /\ run'.invocations[next] = [run.invocations[next] EXCEPT !.consumer = reply]
    <3> DEFINE x == [run.invocations[next] EXCEPT !.consumer = reply]
    <3>1. run'.invocations = [run.invocations EXCEPT ![next] = x]
      BY <2>2
    <3> HIDE DEF x
    <3>2. /\ Len(run'.invocations) = Len(run.invocations) /\ run'.invocations[next] = x
          /\ \A k \in 1 .. Len(run.invocations) : k # next => run'.invocations[k] = run.invocations[k]
      BY <1>0, <2>1, <3>1
    <3> QED
      BY <3>2 DEF x
  <2>4. run.invocations[next] \in Invocation
    BY <1>0, <2>1
  <2>5. run'.invocations[next].planned = run.invocations[next].planned /\ run'.invocations[next].consumer = reply
        /\ reply # "none"
    BY <2>3, <2>4 DEF Invocation, Replies
  <2>6. ASSUME NEW k \in 1 .. Len(run'.invocations) PROVE Recorded(run, k)'
    <3>1. Recorded(run, k) /\ k \in 1 .. Len(run.invocations)
      BY <2>3 DEF Evidence
    <3> QED
      BY <2>2, <2>3, <2>5, <3>1 DEF Recorded
  <2> QED
    BY <2>0, <2>1, <2>2, <2>3, <2>5, <2>6 DEF Evidence, Gathering, Asking, Scoring
<1>5. CASE AppendCheckpoint \/ MarkDiscrepancy
  <2>1. /\ disk' = disk /\ next' = next /\ run'.invocations = run.invocations /\ run'.captures = run.captures
        /\ at \in Scoring /\ at' \in Scoring
    BY <1>5, AppendView, MarkView DEF Scoring
  <2>2. \A k \in 1 .. Len(run.invocations) : Recorded(run, k)'
    BY <2>1 DEF Evidence, Recorded
  <2> QED
    BY <2>1, <2>2 DEF Evidence, Gathering, Asking, Scoring
<1>6. CASE Scan
  <2>1. /\ disk' = disk /\ next' = next /\ run'.invocations = run.invocations
        /\ run'.captures = run.captures \cup disk.raw /\ at' = "score"
    BY <1>6, ScanView
  <2>2. \A k \in 1 .. Len(run.invocations) : Recorded(run, k)'
    BY <2>1 DEF Evidence, Recorded
  <2> QED
    BY <2>1, <2>2 DEF Evidence, Gathering, Asking, Scoring
<1> QED
  BY <1>1, <1>2, <1>3, <1>4, <1>5, <1>6 DEF Noisy

-----------------------------------------------------------------------------
(* The scores: one checkpoint for each pair, and nothing after a failed one. *)

LastFailed(r) == r.checkpoints # << >> /\ ~ r.checkpoints[Len(r.checkpoints)]

Scored(r, c) ==
  /\ r.checkpoints[c] = PairPasses(r.invocations, c)
  /\ c < Len(r.checkpoints) => r.checkpoints[c]

\* What checkpoints say whatever the runner does next.
Tally(r) ==
  /\ 2 * Len(r.checkpoints) <= Len(r.invocations)
  /\ \A c \in 1 .. Len(r.checkpoints) : Scored(r, c)
  /\ \A k \in 1 .. 2 * Len(r.checkpoints) : r.invocations[k].consumer # "none"
  /\ LastFailed(r) => Len(r.invocations) = 2 * Len(r.checkpoints)

Scores ==
  /\ Tally(run)
  /\ LastFailed(run) => at \notin Gathering \cup Asking \cup {"progress", "append"}
  /\ at \in Gathering \cup Asking \cup {"progress"} =>
       2 * Len(run.checkpoints) = next - 1 \/ 2 * Len(run.checkpoints) = next - 2
  /\ at = "append" => 2 * Len(run.checkpoints) = next - 2
  /\ at \in {"mark", "checkpoint"} => 2 * Len(run.checkpoints) = next

Expected(r) == IF LastFailed(r) THEN Len(r.checkpoints) ELSE 0

\* A failed checkpoint is marked in the next step, unless a signal comes between.
Discrepancies ==
  /\ run.complete => Len(run.checkpoints) = Cases /\ ~ LastFailed(run) /\ at \notin Body
  /\ at \in Gathering \cup Asking \cup {"progress", "append", "mark"} => run.discrepancy = 0
  /\ at = "checkpoint" \/ run.complete => run.discrepancy = Expected(run)
  /\ "mark" \notin Interruptible /\ at # "mark" => run.discrepancy = Expected(run)

\* The score of a pair depends on its two invocations alone.
LEMMA PairStays ==
  ASSUME NEW i, NEW j, NEW c \in Nat \ {0}, 2 * c <= Len(i), 2 * c <= Len(j),
         i[2 * c] = j[2 * c], i[2 * c - 1] = j[2 * c - 1]
  PROVE  PairPasses(i, c) = PairPasses(j, c)
<1>1. PairPasses(i, c) <=> PairPasses(j, c)
  BY DEF PairPasses
<1>2. PairPasses(i, c) \in BOOLEAN /\ PairPasses(j, c) \in BOOLEAN
  BY Zenon DEF PairPasses
<1> QED
  BY <1>1, <1>2

\* Further invocations change no score already given.
LEMMA TallyStays ==
  ASSUME NEW r \in Run, NEW s \in Run, Tally(r), s.checkpoints = r.checkpoints,
         2 * Len(r.checkpoints) <= Len(s.invocations),
         \A k \in 1 .. 2 * Len(r.checkpoints) : s.invocations[k] = r.invocations[k],
         LastFailed(r) => Len(s.invocations) = Len(r.invocations)
  PROVE  Tally(s) /\ LastFailed(s) = LastFailed(r)
<1>1. Len(r.checkpoints) \in Nat /\ Len(r.invocations) \in Nat /\ Len(s.invocations) \in Nat
  BY DEF Run
<1>2. LastFailed(s) = LastFailed(r)
  BY DEF LastFailed
<1>3. ASSUME NEW c \in 1 .. Len(r.checkpoints)
      PROVE  Scored(s, c)
  <2>1. c \in Nat \ {0} /\ 2 * c \in 1 .. 2 * Len(r.checkpoints) /\ 2 * c - 1 \in 1 .. 2 * Len(r.checkpoints)
        /\ 2 * c <= Len(r.invocations) /\ 2 * c <= Len(s.invocations)
    BY <1>1 DEF Tally
  <2>2. PairPasses(r.invocations, c) = PairPasses(s.invocations, c)
    BY <2>1, PairStays
  <2>3. Scored(r, c)
    BY DEF Tally
  <2> QED
    BY <2>2, <2>3 DEF Scored
<1> QED
  BY <1>2, <1>3 DEF Tally

\* Scores and discrepancy are read off invocations and checkpoints.
LEMMA SameTally ==
  ASSUME NEW r, NEW s, s.checkpoints = r.checkpoints, s.invocations = r.invocations
  PROVE  /\ LastFailed(s) = LastFailed(r) /\ Expected(s) = Expected(r)
         /\ Tally(r) => Tally(s)
BY DEF LastFailed, Expected, Tally, Scored

\* Steps that end the body end it for good; only the loop completes a run.
LEMMA BodyMoves ==
  ASSUME MeasureType, MeasureNext
  PROVE  /\ at \notin Body => at' \notin Body
         /\ at = "mark" /\ "mark" \notin Interruptible => at' \in {"mark", "checkpoint"}
         /\ at' = "mark" => at \in {"append", "mark"}
<1>1. CASE Begin \/ Announce \/ AnnounceConsumer \/ Expire \/ Loop \/ Driver \/ Consumer \/ Attach
  BY <1>1 DEF Begin, Announce, AnnounceConsumer, Publish, Expire, Loop, Driver, Consumer, Invoke, Attach, Body
<1>2. CASE AttachConsumer \/ AppendCheckpoint \/ MarkDiscrepancy \/ Progress \/ Checkpoint
  BY <1>2 DEF AttachConsumer, AppendCheckpoint, MarkDiscrepancy, Progress, AfterConsumer,
              Checkpoint, AfterCheckpoint, Body
<1>3. CASE Fault
  BY <1>3 DEF Fault, Failing, Handled, Body, Recovery, Sealing
<1>4. CASE After \/ Scan \/ Raise \/ Score \/ Link \/ Hash \/ Seal \/ Replace \/ Published
  BY <1>4 DEF After, Scan, Raise, Score, Link, Hash, Seal, Replace, Published, Leave, Body
<1>5. CASE Reset \/ Archive \/ Rescore \/ Rewrite \/ Reseal
  BY <1>5 DEF Reset, Archive, Rescore, Rewrite, Reseal, Body
<1> QED
  BY <1>1, <1>2, <1>3, <1>4, <1>5 DEF MeasureNext, Step

\* A run becomes complete only where the loop has made every pair.
LEMMA CompleteMoves ==
  ASSUME MeasureType, MeasureNext, ~ Noisy, run'.complete
  PROVE  run.complete \/ (at = "loop" /\ next > Planned /\ at' = "after")
<1>0. run \in Run /\ late \in BOOLEAN
  BY DEF MeasureType
<1>1. CASE Begin \/ Announce \/ AnnounceConsumer \/ Progress \/ Checkpoint \/ Raise \/ Reset
  <2>1. run' = Progressed(run)
    BY <1>1 DEF Begin, Announce, AnnounceConsumer, Publish, Progress, Checkpoint, Raise, Reset
  <2> QED
    BY <1>0, <2>1, ProgressedView
<1>2. CASE Loop
  BY <1>2 DEF Loop
<1>3. CASE After
  BY <1>0, <1>3, CountedView DEF After
<1>4. CASE Score
  BY <1>0, <1>4, FinishedView DEF Score
<1>5. CASE Hash \/ Archive \/ Rewrite
  <2>1. report.file \in Reports /\ report.value \in Report \cup {None} /\ None \in Report \cup {None}
    BY DEF MeasureType
  <2>2. \E v \in Report \cup {None} : run' = [run EXCEPT !.hashes[report.file] = v]
    BY <1>5, <2>1 DEF Hash, Archive, Rewrite
  <2> QED
    BY <1>0, <2>1, <2>2, HashedView
<1>6. CASE Seal
  BY <1>0, <1>6, SealedView, RecoveringView DEF Seal
<1>7. CASE Rescore
  BY <1>0, <1>7, LaterView DEF Rescore
<1>8. CASE Reseal
  BY <1>0, <1>8, SealedView DEF Reseal
<1>9. CASE Fault
  BY <1>0, <1>9, RecoveringView DEF Fault, Handled
<1>10. CASE Link \/ Replace \/ Published \/ Expire
  BY <1>10 DEF Link, Replace, Published, Leave, Expire
<1> QED
  BY <1>1, <1>2, <1>3, <1>4, <1>5, <1>6, <1>7, <1>8, <1>9, <1>10 DEF MeasureNext, Step, Noisy

\* Every step keeps what is said of the scores and the discrepancy.
LEMMA ScoresStep ==
  ASSUME MeasureType, Evidence, Scores, Discrepancies, MeasureNext
  PROVE  Scores' /\ Discrepancies'
<1> USE PlannedNat
<1>0. /\ next \in Nat /\ run \in Run /\ Len(run.invocations) \in Nat /\ Len(run.checkpoints) \in Nat
      /\ run.invocations \in Seq(Invocation) /\ run.checkpoints \in Seq(BOOLEAN)
      /\ Cases \in Nat /\ Planned = 2 * Cases /\ next <= Planned + 1
  BY MeasureAssumption DEF MeasureType, Run, Planned
<1>00. ASSUME run.complete PROVE at \notin Body
  BY <1>00 DEF Discrepancies
<1>1. CASE ~ Noisy
  <2>1. Quiet /\ QuietMove
    BY <1>1, QuietStep, QuietMoves DEF Noisy
  <2>2. /\ run'.invocations = run.invocations /\ run'.checkpoints = run.checkpoints
        /\ run'.discrepancy = run.discrepancy
    BY <2>1 DEF Quiet, Agree
  <2>3. LastFailed(run') = LastFailed(run) /\ Expected(run') = Expected(run) /\ Tally(run')
    BY <2>2, SameTally DEF Scores
  <2>4. ASSUME run'.complete
        PROVE  /\ Len(run.checkpoints) = Cases /\ ~ LastFailed(run) /\ at' \notin Body
               /\ run.discrepancy = Expected(run)
    <3>1. CASE run.complete
      BY <3>1, BodyMoves DEF Discrepancies
    <3>2. CASE ~ run.complete
      <4>1. at = "loop" /\ next > Planned /\ at' = "after"
        BY <1>1, <2>4, <3>2, CompleteMoves
      <4>2. 2 * Len(run.checkpoints) = next - 1 \/ 2 * Len(run.checkpoints) = next - 2
        BY <4>1 DEF Scores, Gathering
      <4>3. Len(run.checkpoints) = Cases
        BY <1>0, <4>1, <4>2
      <4>4. ~ LastFailed(run) /\ run.discrepancy = 0
        BY <4>1 DEF Scores, Discrepancies, Gathering
      <4> QED
        BY <4>1, <4>3, <4>4 DEF Expected, Body
    <3> QED
      BY <3>1, <3>2
  <2>5. ASSUME "mark" \notin Interruptible, at' # "mark"
        PROVE  run.discrepancy = Expected(run) \/ (at = "mark" /\ at' = "checkpoint")
    BY <2>5, BodyMoves DEF Discrepancies
  <2>6. CASE at' \notin Body
    <3>1. ASSUME "mark" \notin Interruptible PROVE run.discrepancy = Expected(run)
      BY <2>5, <2>6, <3>1 DEF Body
    <3> QED
      BY <2>2, <2>3, <2>4, <2>6, <3>1 DEF Scores, Discrepancies, Body, Gathering, Asking
  <2>7. CASE at' = at /\ next' = next
    BY <2>2, <2>3, <2>4, <2>7 DEF Scores, Discrepancies
  <2>8. ASSUME at \in Gathering \cup Asking \cup {"progress"}
        PROVE  ~ LastFailed(run) /\ run.discrepancy = 0 /\ Expected(run) = 0
    BY <2>8 DEF Scores, Discrepancies, Expected
  <2>9. CASE \/ at' \in {"loop", "announce", "driver"} /\ at \in {"begin", "loop", "announce"} /\ next' = next
             \/ at' = "consumer" /\ at = "announceConsumer" /\ next' = next
    <3>1. at \in Gathering \cup Asking /\ at' \in Gathering \cup Asking
          /\ at' \notin {"append", "mark", "checkpoint"} /\ next' = next
      BY <2>9 DEF Gathering, Asking
    <3> QED
      BY <2>2, <2>3, <2>4, <2>8, <3>1 DEF Scores, Discrepancies
  <2>10. CASE at' = "append" /\ at = "progress" /\ next' = next /\ next % 2 = 0
    <3>1. 2 * Len(run.checkpoints) = next - 2
      <4>1. 2 * Len(run.checkpoints) = next - 1 \/ 2 * Len(run.checkpoints) = next - 2
        BY <2>10 DEF Scores
      <4> QED
        BY <1>0, <2>10, <4>1
    <3> QED
      BY <2>2, <2>3, <2>4, <2>8, <2>10, <3>1 DEF Scores, Discrepancies, Gathering, Asking
  <2>11. CASE at' = "loop" /\ at = "progress" /\ next' = next + 1 /\ next % 2 # 0
    <3>1. 2 * Len(run.checkpoints) = next' - 2
      <4>1. 2 * Len(run.checkpoints) = next - 1 \/ 2 * Len(run.checkpoints) = next - 2
        BY <2>11 DEF Scores
      <4> QED
        BY <1>0, <2>11, <4>1
    <3> QED
      BY <2>2, <2>3, <2>4, <2>8, <2>11, <3>1 DEF Scores, Discrepancies, Gathering, Asking
  <2>12. CASE at' = "loop" /\ at = "checkpoint" /\ next' = next + 1 /\ run.checkpoints[Len(run.checkpoints)]
    <3>1. 2 * Len(run.checkpoints) = next' - 1
      BY <1>0, <2>12 DEF Scores
    <3>2. ~ LastFailed(run) /\ Expected(run) = 0 /\ run.discrepancy = 0
      BY <2>12 DEF LastFailed, Expected, Discrepancies
    <3> QED
      BY <2>2, <2>3, <2>4, <2>12, <3>1, <3>2 DEF Scores, Discrepancies, Gathering, Asking
  <2> QED
    BY <2>1, <2>6, <2>7, <2>9, <2>10, <2>11, <2>12 DEF QuietMove
<1>2. CASE Driver \/ Consumer
  <2>1. PICK stream \in Streams :
          /\ run' = run /\ next' = next
          /\ \/ stream = "driver" /\ at = "driver" /\ at' = "attach"
             \/ stream = "consumer" /\ at = "consumer" /\ at' = "attachConsumer"
    BY <1>2, InvokeView
  <2> QED
    BY <1>00, <2>1 DEF Scores, Discrepancies, Gathering, Asking, Body
<1>3. CASE Attach
  <2>1. PICK answer \in Answers :
          /\ next' = next /\ at = "attach" /\ MeasureType'
          /\ run'.invocations = Append(run.invocations, [planned |-> next, driver |-> answer, consumer |-> "none"])
          /\ run'.checkpoints = run.checkpoints /\ run'.discrepancy = run.discrepancy
          /\ run'.complete = run.complete
          /\ at' \in {"after", "announceConsumer"}
    BY <1>3, AttachView
  <2>2. ~ LastFailed(run) /\ ~ run.complete /\ run.discrepancy = 0
    BY <1>00, <2>1 DEF Scores, Discrepancies, Gathering, Body
  <2>3. 2 * Len(run.checkpoints) <= Len(run'.invocations)
        /\ \A k \in 1 .. 2 * Len(run.checkpoints) : run'.invocations[k] = run.invocations[k]
    <3> DEFINE x == [planned |-> next, driver |-> answer, consumer |-> "none"]
    <3>1. run'.invocations = Append(run.invocations, x)
      BY <2>1
    <3> HIDE DEF x
    <3>2. 2 * Len(run.checkpoints) <= Len(run.invocations)
      BY DEF Scores, Tally
    <3> QED
      BY <1>0, <3>1, <3>2
  <2>4. run' \in Run
    BY <2>1 DEF MeasureType
  <2>5. Tally(run') /\ ~ LastFailed(run')
    BY <1>0, <2>1, <2>2, <2>3, <2>4, TallyStays DEF Scores
  <2>6. Expected(run') = 0
    BY <2>5 DEF Expected
  <2> QED
    BY <2>1, <2>2, <2>5, <2>6 DEF Scores, Discrepancies, Gathering, Asking
<1>4. CASE AttachConsumer
  <2>0. at = "attachConsumer"
    BY <1>4 DEF AttachConsumer
  <2>1. next = Len(run.invocations) /\ next \in 1 .. Len(run.invocations)
    BY <1>0, <2>0 DEF Evidence, Asking, MeasureType
  <2>2. PICK reply \in Replies :
          /\ MeasureType' /\ next' = next
          /\ run'.invocations = [run.invocations EXCEPT ![next] = [@ EXCEPT !.consumer = reply]]
          /\ run'.checkpoints = run.checkpoints /\ run'.discrepancy = run.discrepancy
          /\ run'.complete = run.complete
          /\ at' = "progress"
    BY <1>4, <2>1, AttachConsumerView
  <2>3. 2 * Len(run.checkpoints) < next
    BY <1>0, <2>0 DEF Scores, Asking
  <2>4. 2 * Len(run.checkpoints) <= Len(run'.invocations)
        /\ \A k \in 1 .. 2 * Len(run.checkpoints) : run'.invocations[k] = run.invocations[k]
    <3> DEFINE x == [run.invocations[next] EXCEPT !.consumer = reply]
    <3>1. run'.invocations = [run.invocations EXCEPT ![next] = x]
      BY <2>2
    <3> HIDE DEF x
    <3> QED
      BY <1>0, <2>1, <2>3, <3>1
  <2>5. ~ LastFailed(run) /\ ~ run.complete /\ run.discrepancy = 0
    BY <1>00, <2>0 DEF Scores, Discrepancies, Asking, Body
  <2>6. run' \in Run
    BY <2>2 DEF MeasureType
  <2>7. Tally(run') /\ ~ LastFailed(run')
    BY <1>0, <2>2, <2>4, <2>5, <2>6, TallyStays DEF Scores
  <2>8. Expected(run') = 0
    BY <2>7 DEF Expected
  <2> QED
    BY <2>0, <2>2, <2>5, <2>7, <2>8 DEF Scores, Discrepancies, Gathering, Asking
<1>5. CASE AppendCheckpoint
  <2>1. /\ MeasureType' /\ next' = next /\ run'.invocations = run.invocations
        /\ run'.checkpoints = Append(run.checkpoints, PairPasses(run.invocations, next \div 2))
        /\ run'.discrepancy = run.discrepancy /\ run'.complete = run.complete
        /\ at = "append" /\ at' = "mark"
    BY <1>5, AppendView
  <2>2. ~ LastFailed(run) /\ ~ run.complete /\ run.discrepancy = 0
    BY <1>00, <2>1 DEF Scores, Discrepancies, Body
  <2> DEFINE n == Len(run.checkpoints)
  <2>3. 2 * n = next - 2 /\ next = 2 * (n + 1) /\ next \div 2 = n + 1 /\ next = Len(run.invocations)
    BY <1>0, <2>1 DEF Scores, Evidence, Scoring
  <2>4. Len(run'.checkpoints) = n + 1 /\ run'.checkpoints[n + 1] = PairPasses(run.invocations, n + 1)
        /\ \A c \in 1 .. n : run'.checkpoints[c] = run.checkpoints[c]
    <3> DEFINE b == PairPasses(run.invocations, n + 1)
    <3>1. run'.checkpoints = Append(run.checkpoints, b)
      BY <2>1, <2>3
    <3> HIDE DEF b
    <3>2. Len(run'.checkpoints) = n + 1 /\ run'.checkpoints[n + 1] = b
          /\ \A c \in 1 .. n : run'.checkpoints[c] = run.checkpoints[c]
      BY <1>0, <3>1
    <3> QED
      BY <3>2 DEF b
  <2>5. ASSUME NEW c \in 1 .. Len(run'.checkpoints) PROVE Scored(run', c)
    <3>1. CASE c = n + 1
      BY <1>0, <2>1, <2>4, <3>1 DEF Scored
    <3>2. CASE c # n + 1
      <4>1. c \in 1 .. n
        BY <1>0, <2>4, <3>2
      <4>2. Scored(run, c)
        BY <4>1 DEF Scores, Tally
      <4>3. run.checkpoints[c]
        BY <1>0, <2>2, <4>1, <4>2 DEF Scored, LastFailed
      <4> QED
        BY <2>1, <2>4, <4>1, <4>2, <4>3 DEF Scored
    <3> QED
      BY <3>1, <3>2
  <2>6. ASSUME NEW k \in 1 .. 2 * Len(run'.checkpoints) PROVE run'.invocations[k].consumer # "none"
    <3>1. k \in 1 .. Len(run.invocations)
      BY <1>0, <2>3, <2>4
    <3>2. Recorded(run, k) /\ run.invocations[next].consumer # "none"
      BY <2>1, <3>1 DEF Evidence, Scoring
    <3>3. k = next \/ k < Len(run.invocations)
      BY <1>0, <2>3, <3>1
    <3> QED
      BY <2>1, <3>2, <3>3 DEF Recorded
  <2>7. Len(run'.invocations) = 2 * Len(run'.checkpoints) /\ 2 * Len(run'.checkpoints) = next
    BY <1>0, <2>1, <2>3, <2>4
  <2>8. Tally(run')
    BY <1>0, <2>1, <2>5, <2>6, <2>7 DEF Tally
  <2> QED
    BY <2>1, <2>2, <2>7, <2>8 DEF Scores, Discrepancies, Gathering, Asking
<1>6. CASE MarkDiscrepancy
  <2>1. /\ MeasureType' /\ next' = next
        /\ run'.invocations = run.invocations
        /\ run'.checkpoints = run.checkpoints
        /\ run'.discrepancy = DiscrepancyAfter(run.checkpoints)
        /\ run'.complete = run.complete
        /\ at = "mark" /\ at' = "checkpoint"
    BY <1>6, MarkView
  <2>2. ~ run.complete /\ 2 * Len(run.checkpoints) = next
    BY <1>00, <2>1 DEF Scores, Body
  <2>3. LastFailed(run') = LastFailed(run) /\ Expected(run') = Expected(run) /\ Tally(run')
    BY <2>1, SameTally DEF Scores
  <2>4. run.checkpoints # << >>
    <3>1. next # 0
      BY DEF MeasureType
    <3> QED
      BY <1>0, <2>2, <3>1
  <2>5. DiscrepancyAfter(run.checkpoints) = Expected(run)
    BY <2>4 DEF DiscrepancyAfter, Expected, LastFailed
  <2> QED
    BY <2>1, <2>2, <2>3, <2>5 DEF Scores, Discrepancies, Gathering, Asking
<1>7. CASE Scan
  <2>1. /\ MeasureType' /\ next' = next
        /\ run'.invocations = run.invocations
        /\ run'.checkpoints = run.checkpoints /\ run'.discrepancy = run.discrepancy
        /\ run'.complete = run.complete
        /\ at = "scan" /\ at' = "score"
    BY <1>7, ScanView
  <2>3. LastFailed(run') = LastFailed(run) /\ Expected(run') = Expected(run) /\ Tally(run')
    BY <2>1, SameTally DEF Scores
  <2> QED
    BY <2>1, <2>3 DEF Scores, Discrepancies, Gathering, Asking, Body
<1> QED
  BY <1>1, <1>2, <1>3, <1>4, <1>5, <1>6, <1>7 DEF Noisy

-----------------------------------------------------------------------------
(* The end of a run: its inventory, and what the three files and hashes hold. *)

Matches(i) == disk.files[i] = report.value /\ run.hashes[i] = report.value
Preserved(i) == disk.archive[i] = disk.files[i]

Inventories ==
  /\ at \notin Body \cup {"after", "end"} => run.missing = Missing(run)
  /\ at \in Sealing \cup Recovery => run.captures = disk.raw
  /\ run.sealed => at \in {"replace", "published", "end"}
  /\ at \in Recovery => ~ run.complete

Reporting ==
  /\ at \in {"link", "hash", "seal", "replace", "published", "rewrite", "reseal"} =>
       report.value = ReportOf(run)
  /\ at \in {"link", "hash", "rewrite"} => \A i \in Reports : i < report.file => Matches(i)
  /\ at = "hash" => disk.files[report.file] = report.value
  /\ at \in {"seal", "replace", "published", "reseal"} => \A i \in Reports : Matches(i)
  /\ at = "archive" => \A i \in Reports : i < report.file => Preserved(i)
  /\ at = "rescore" => \A i \in Reports : Preserved(i)
  /\ at = "rewrite" => \A i \in Reports : i >= report.file => Preserved(i)

\* Runs that agree have the same captures and miss the same ones.
LEMMA AgreeView ==
  ASSUME NEW r, NEW s, Agree(r, s)
  PROVE  r.captures = s.captures /\ Missing(r) = Missing(s)
BY DEF Agree, Missing

\* Outside the sealing and the recovery only the inventory is at stake.
LEMMA InventoryOutside ==
  ASSUME MeasureType, Inventories, ~ run.sealed, run'.sealed = run.sealed,
         at' \in Body \cup {"after", "end"}
  PROVE  Inventories' /\ Reporting'
BY DEF Inventories, Reporting, Body, Sealing, Recovery

\* The last report is the third: what holds below the next file holds of all.
LEMMA LastFile ==
  ASSUME NEW f \in Reports, f + 1 \notin Reports, NEW i \in Reports
  PROVE  i < f \/ i = f
BY DEF Reports

\* Every step keeps what is said of the inventories, reports and hashes.
LEMMA SealingStep ==
  ASSUME MeasureType, Evidence, Inventories, Reporting, MeasureNext
  PROVE  Inventories' /\ Reporting'
<1>0. /\ run \in Run /\ disk \in Disk /\ late \in BOOLEAN
      /\ report \in [value : Report \cup {None}, file : Reports]
  BY DEF MeasureType
<1>00. ASSUME at \notin {"replace", "published", "end"} PROVE ~ run.sealed
  BY <1>00 DEF Inventories
<1>1. CASE Begin \/ Announce \/ AnnounceConsumer \/ Progress \/ Checkpoint \/ Raise
  <2>1. run' = Progressed(run) /\ at \notin {"replace", "published", "end"}
    BY <1>1 DEF Begin, Announce, AnnounceConsumer, Publish, Progress, Checkpoint, Raise
  <2>2. at' \in Body \cup {"after", "end"}
    BY <1>1 DEF Begin, Announce, AnnounceConsumer, Publish, Progress, AfterConsumer,
                Checkpoint, AfterCheckpoint, Raise, Body
  <2> QED
    BY <1>0, <1>00, <2>1, <2>2, ProgressedView, InventoryOutside
<1>2. CASE Loop
  <2>1. run'.sealed = run.sealed /\ at' \in Body \cup {"after"} /\ at = "loop"
    BY <1>0, <1>2, CompletedView DEF Loop, Body
  <2> QED
    BY <1>00, <2>1, InventoryOutside
<1>3. CASE Driver \/ Consumer \/ Attach \/ AppendCheckpoint \/ MarkDiscrepancy
  <2>1. run'.sealed = run.sealed /\ at' \in Body \cup {"after"} /\ at \in Body
    BY <1>3, InvokeView, AttachView, AppendView, MarkView DEF Body
  <2> QED
    BY <1>00, <2>1, InventoryOutside DEF Body
<1>4. CASE AttachConsumer
  <2>0. at = "attachConsumer"
    BY <1>4 DEF AttachConsumer
  <2>1. next \in 1 .. Len(run.invocations)
    BY <2>0 DEF Evidence, Asking, MeasureType
  <2>2. run'.sealed = run.sealed /\ at' \in Body
    BY <1>4, <2>1, AttachConsumerView DEF Body
  <2> QED
    BY <1>00, <2>0, <2>2, InventoryOutside DEF Body
<1>5. CASE After
  <2>1. Agree(run', run) /\ run'.missing = Missing(run) /\ ~ run'.sealed /\ at' = "scan"
    BY <1>0, <1>00, <1>5, CountedView DEF After
  <2> QED
    BY <2>1, AgreeView DEF Inventories, Reporting, Sealing, Recovery
<1>6. CASE Scan
  <2>1. /\ at = "scan" /\ at' = "score" /\ disk' = disk
        /\ run'.invocations = run.invocations /\ run'.captures = run.captures \cup disk.raw
        /\ run'.sealed = run.sealed /\ run'.missing = run.missing
    BY <1>6, ScanView
  <2>2. run'.captures = disk'.raw
    BY <2>1 DEF Evidence
  <2>3. run'.missing = Missing(run')
    BY <2>1 DEF Inventories, Missing, Body
  <2> QED
    BY <1>00, <2>1, <2>2, <2>3 DEF Inventories, Reporting, Recovery
<1>7. CASE Score
  <2>1. /\ at = "score" /\ at' = "link" /\ disk' = disk /\ run' = Finished(run)
        /\ report'.value = ReportOf(run') /\ report'.file = 1
    BY <1>7 DEF Score
  <2>2. Agree(run', run) /\ run'.missing = run.missing /\ run'.sealed = run.sealed
    BY <1>0, <2>1, FinishedView
  <2>3. \A i \in Reports : ~ i < report'.file
    BY <2>1 DEF Reports
  <2> QED
    BY <1>00, <2>1, <2>2, <2>3, AgreeView DEF Inventories, Reporting, Body, Sealing, Recovery
<1>8. CASE Link
  <2>1. /\ at = "link" /\ at' = "hash" /\ run' = run /\ report' = report
        /\ disk' = [disk EXCEPT !.files[report.file] = report.value]
    BY <1>8 DEF Link
  <2>2. disk'.raw = disk.raw /\ disk'.files = [disk.files EXCEPT ![report.file] = report.value]
    BY <1>0, <2>1, FileView
  <2>3. DOMAIN disk.files = Reports
    BY <1>0 DEF Disk, Bytes
  <2>4. disk'.files[report.file] = report.value
    BY <1>0, <2>2, <2>3
  <2>5. \A i \in Reports : i < report.file => disk'.files[i] = report.value /\ run.hashes[i] = report.value
    BY <1>0, <2>1, <2>2, <2>3 DEF Reporting, Matches, Reports
  <2> QED
    BY <2>1, <2>2, <2>4, <2>5 DEF Inventories, Reporting, Matches, Body, Sealing, Recovery
<1>9. CASE Hash
  <2>1. /\ at = "hash" /\ run' = [run EXCEPT !.hashes[report.file] = report.value] /\ disk' = disk
        /\ report'.value = report.value
        /\ \/ at' = "link" /\ report'.file = report.file + 1
           \/ at' = "seal" /\ report.file + 1 \notin Reports
    BY <1>0, <1>9 DEF Hash
  <2>2. /\ Agree(run', run) /\ run'.missing = run.missing /\ run'.sealed = run.sealed
        /\ run'.hashes = [run.hashes EXCEPT ![report.file] = report.value]
        /\ ReportOf(run') = ReportOf(run)
    BY <1>0, <2>1, HashedView
  <2>3. DOMAIN run.hashes = Reports
    BY <1>0 DEF Run, Bytes
  <2>4. \A i \in Reports : i < report.file \/ i = report.file =>
          disk'.files[i] = report.value /\ run'.hashes[i] = report.value
    BY <1>0, <2>1, <2>2, <2>3 DEF Reporting, Matches
  <2>5. at' = "link" => \A i \in Reports : i < report'.file => i < report.file \/ i = report.file
    BY <1>0, <2>1 DEF Reports
  <2>6. at' = "seal" => \A i \in Reports : i < report.file \/ i = report.file
    BY <1>0, <2>1, LastFile
  <2>7. Inventories'
    BY <1>00, <2>1, <2>2, AgreeView DEF Inventories, Body, Sealing, Recovery
  <2>8. \A i \in Reports : i < report.file \/ i = report.file => Matches(i)'
    BY <2>1, <2>4 DEF Matches
  <2>9. report'.value = ReportOf(run')
    BY <2>1, <2>2 DEF Reporting
  <2> QED
    BY <2>1, <2>5, <2>6, <2>7, <2>8, <2>9 DEF Reporting
<1>10. CASE Seal
  <2> DEFINE s == [run EXCEPT !.sealed = TRUE]
  <2>1. /\ s \in Run /\ Agree(s, run) /\ s.missing = run.missing /\ s.complete = run.complete
        /\ s.hashes = run.hashes /\ ReportOf(s) = ReportOf(run)
    BY <1>0, SealedView
  <2>2. /\ at = "seal" /\ disk' = disk /\ report' = report
        /\ \/ at' = "replace" /\ run' = s
           \/ at' = "reset" /\ run' = Recovering(s)
    BY <1>10 DEF Seal
  <2> HIDE DEF s
  <2>3. CASE at' = "replace" /\ run' = s
    <3>1. \A i \in Reports : Matches(i)'
      BY <2>1, <2>2, <2>3 DEF Reporting, Matches
    <3> QED
      BY <2>1, <2>2, <2>3, <3>1, AgreeView DEF Inventories, Reporting, Body, Sealing, Recovery
  <2>4. CASE at' = "reset" /\ run' = Recovering(s)
    <3>1. Agree(run', s) /\ run'.missing = s.missing /\ ~ run'.complete /\ ~ run'.sealed
      BY <2>1, <2>4, RecoveringView
    <3>2. run'.captures = run.captures /\ Missing(run') = Missing(run)
      BY <2>1, <3>1, AgreeView
    <3> QED
      BY <2>1, <2>2, <2>4, <3>1, <3>2 DEF Inventories, Reporting, Body, Sealing, Recovery
  <2> QED
    BY <2>2, <2>3, <2>4
<1>11. CASE Replace
  <2>1. /\ at = "replace" /\ at' = "published" /\ run' = run /\ report' = report
        /\ disk'.raw = disk.raw /\ disk'.files = disk.files
    BY <1>0, <1>11, DiskView DEF Replace
  <2> QED
    BY <2>1 DEF Inventories, Reporting, Matches, Body, Sealing, Recovery
<1>12. CASE Published
  <2>1. at = "published" /\ at' = "end" /\ run' = run /\ report' = report /\ disk' = disk
    BY <1>12 DEF Published, Leave
  <2> QED
    BY <2>1 DEF Inventories, Reporting, Body, Sealing, Recovery
<1>13. CASE Reset
  <2>1. /\ at = "reset" /\ at' = "archive" /\ run' = Progressed(run)
        /\ disk' = [disk EXCEPT !.status = run'] /\ report'.file = 1
    BY <1>0, <1>13 DEF Reset
  <2>2. /\ Agree(run', run) /\ run'.missing = Missing(run) /\ run'.complete = run.complete
        /\ run'.sealed = run.sealed /\ disk'.raw = disk.raw
    BY <1>0, <2>1, ProgressedView, DiskView
  <2>3. \A i \in Reports : ~ i < report'.file
    BY <2>1 DEF Reports
  <2> QED
    BY <1>00, <2>1, <2>2, <2>3, AgreeView DEF Inventories, Reporting, Sealing, Recovery
<1>14. CASE Archive
  <2>1. /\ at = "archive" /\ run' = [run EXCEPT !.hashes[report.file] = None]
        /\ disk' = [disk EXCEPT !.archive[report.file] = disk.files[report.file]]
        /\ \/ at' = "archive" /\ report'.file = report.file + 1
           \/ at' = "rescore" /\ report.file + 1 \notin Reports
    BY <1>0, <1>14 DEF Archive, Archived
  <2>2. None \in Report \cup {None} /\ disk.files[report.file] \in Report \cup {None}
    BY <1>0 DEF Disk, Bytes
  <2>3. /\ Agree(run', run) /\ run'.missing = run.missing /\ run'.sealed = run.sealed
        /\ run'.complete = run.complete
    BY <1>0, <2>1, <2>2, HashedView
  <2>4. /\ disk'.raw = disk.raw /\ disk'.files = disk.files
        /\ disk'.archive = [disk.archive EXCEPT ![report.file] = disk.files[report.file]]
    BY <1>0, <2>1, <2>2, ArchiveView
  <2>5. DOMAIN disk.archive = Reports
    BY <1>0 DEF Disk, Bytes
  <2>6. \A i \in Reports : i < report.file \/ i = report.file => Preserved(i)'
    BY <1>0, <2>1, <2>4, <2>5 DEF Reporting, Preserved
  <2>7. at' = "archive" => \A i \in Reports : i < report'.file => i < report.file \/ i = report.file
    BY <1>0, <2>1 DEF Reports
  <2>8. at' = "rescore" => \A i \in Reports : i < report.file \/ i = report.file
    BY <1>0, <2>1, LastFile
  <2>9. Inventories'
    BY <1>00, <2>1, <2>3, <2>4, AgreeView DEF Inventories, Body, Sealing, Recovery
  <2> QED
    BY <2>1, <2>6, <2>7, <2>8, <2>9 DEF Reporting
<1>15. CASE Rescore
  <2>1. /\ at = "rescore" /\ at' = "rewrite" /\ run' = [run EXCEPT !.elapsed = @ + 1] /\ disk' = disk
        /\ report'.value = ReportOf(run') /\ report'.file = 1
    BY <1>15 DEF Rescore
  <2>2. /\ Agree(run', run) /\ run'.missing = run.missing /\ run'.sealed = run.sealed
        /\ run'.complete = run.complete
    BY <1>0, <2>1, LaterView
  <2>3. \A i \in Reports : ~ i < report'.file
    BY <2>1 DEF Reports
  <2>4. \A i \in Reports : Preserved(i)'
    BY <2>1 DEF Reporting, Preserved
  <2> QED
    BY <1>00, <2>1, <2>2, <2>3, <2>4, AgreeView DEF Inventories, Reporting, Body, Sealing, Recovery
<1>16. CASE Rewrite
  <2>1. /\ at = "rewrite" /\ run' = [run EXCEPT !.hashes[report.file] = report.value]
        /\ disk' = [disk EXCEPT !.files[report.file] = report.value]
        /\ report'.value = report.value
        /\ \/ at' = "rewrite" /\ report'.file = report.file + 1
           \/ at' = "reseal" /\ report.file + 1 \notin Reports
    BY <1>0, <1>16 DEF Rewrite
  <2>2. /\ Agree(run', run) /\ run'.missing = run.missing /\ run'.sealed = run.sealed
        /\ run'.complete = run.complete
        /\ run'.hashes = [run.hashes EXCEPT ![report.file] = report.value]
        /\ ReportOf(run') = ReportOf(run)
    BY <1>0, <2>1, HashedView
  <2>3. /\ disk'.raw = disk.raw /\ disk'.archive = disk.archive
        /\ disk'.files = [disk.files EXCEPT ![report.file] = report.value]
    BY <1>0, <2>1, FileView
  <2>4. DOMAIN run.hashes = Reports /\ DOMAIN disk.files = Reports
    BY <1>0 DEF Run, Disk, Bytes
  <2>5. \A i \in Reports : i < report.file \/ i = report.file => Matches(i)'
    BY <1>0, <2>1, <2>2, <2>3, <2>4 DEF Reporting, Matches
  <2>6. \A i \in Reports : i >= report.file + 1 => Preserved(i)'
    BY <1>0, <2>1, <2>3, <2>4 DEF Reporting, Preserved, Reports
  <2>7. at' = "rewrite" => \A i \in Reports : i < report'.file => i < report.file \/ i = report.file
    BY <1>0, <2>1 DEF Reports
  <2>8. at' = "reseal" => \A i \in Reports : i < report.file \/ i = report.file
    BY <1>0, <2>1, LastFile
  <2>9. Inventories'
    BY <1>00, <2>1, <2>2, <2>3, AgreeView DEF Inventories, Body, Sealing, Recovery
  <2>10. report'.value = ReportOf(run')
    BY <2>1, <2>2 DEF Reporting
  <2> QED
    BY <2>1, <2>5, <2>6, <2>7, <2>8, <2>9, <2>10 DEF Reporting
<1>17. CASE Reseal
  BY <1>17 DEF Reseal, Inventories, Reporting, Body, Sealing, Recovery
<1>18. CASE Fault
  <2>1. /\ disk' = disk
        /\ \/ at \in Body /\ at' = "after" /\ run' = run
           \/ at = "scan" /\ at' = "raise" /\ run' = Recovering(run)
           \/ at \in Sealing /\ at' = "reset" /\ run' = Recovering(run)
           \/ at \in Recovery \cup {"after", "raise"} /\ at' = "end" /\ run' = run
    BY <1>18 DEF Fault, Handled
  <2>2. /\ Agree(Recovering(run), run) /\ Recovering(run).missing = run.missing
        /\ ~ Recovering(run).sealed /\ ~ Recovering(run).complete
    BY <1>0, RecoveringView
  <2>3. CASE run' = run /\ at' \in {"after", "end"} /\ at \in Body \cup Recovery \cup {"after", "raise"}
    BY <1>00, <2>3, InventoryOutside DEF Body, Recovery
  <2>4. CASE run' = Recovering(run) /\ at' = "raise" /\ at = "scan"
    BY <2>1, <2>2, <2>4, AgreeView DEF Inventories, Reporting, Body, Sealing, Recovery
  <2>5. CASE run' = Recovering(run) /\ at' = "reset" /\ at \in Sealing
    BY <2>1, <2>2, <2>5, AgreeView DEF Inventories, Reporting, Body, Sealing, Recovery
  <2> QED
    BY <2>1, <2>3, <2>4, <2>5
<1>19. CASE Expire
  BY <1>19 DEF Expire, Inventories, Reporting, Matches, Preserved
<1> QED
  BY <1>1, <1>2, <1>3, <1>4, <1>5, <1>6, <1>7, <1>8, <1>9, <1>10, <1>11, <1>12, <1>13, <1>14, <1>15,
     <1>16, <1>17, <1>18, <1>19 DEF MeasureNext, Step

-----------------------------------------------------------------------------
(* The sealed status: what replay finds, and what exit 0 rests on. *)

SealedStatus == disk.status # None /\ disk.status.sealed

SealedRun ==
  /\ SealedStatus =>
       /\ at \in {"published", "reset", "end"}
       /\ disk.status.invocations = run.invocations /\ disk.status.checkpoints = run.checkpoints
       /\ disk.raw = disk.status.captures
       /\ "mark" \notin Interruptible \/ disk.status.complete => Replays(disk)
  /\ at \in {"replace", "published"} => run.sealed
  /\ at = "published" => disk.status = run
  /\ ended = "pass" => at = "end" /\ ReplaysAsPass(disk)

\* A run is not the absence of one.
LEMMA RunIsSome ==
  ASSUME NEW r \in Run
  PROVE  r # None
<1>1. "invocations" \in DOMAIN r
  BY DEF Run
<1>2. "invocations" \notin DOMAIN None
  BY DEF None
<1> QED
  BY <1>1, <1>2

\* A sealed run whose directory holds what it says replays.
LEMMA ReplayHolds ==
  ASSUME NEW r \in Run, NEW d \in Disk, Tally(r), Len(r.invocations) <= Planned,
         \A k \in 1 .. Len(r.invocations) : Recorded(r, k),
         r.captures = d.raw, r.missing = Missing(r), r.sealed,
         r.complete => Len(r.checkpoints) = Cases /\ ~ LastFailed(r),
         Len(r.checkpoints) <= Cases, r.discrepancy = Expected(r), d.status = r,
         \A i \in Reports : d.files[i] = ReportOf(r) /\ r.hashes[i] = ReportOf(r)
  PROVE  Replays(d)
<1> DEFINE n == Len(r.checkpoints)
           failed == {c \in DOMAIN r.checkpoints : ~ r.checkpoints[c]}
<1>0. /\ n \in Nat /\ Len(r.invocations) \in Nat /\ r.missing = Planned - Len(r.invocations)
      /\ r.checkpoints \in Seq(BOOLEAN) /\ r.invocations \in Seq(Invocation)
      /\ DOMAIN r.checkpoints = 1 .. n /\ DOMAIN r.invocations = 1 .. Len(r.invocations)
  BY DEF Run, Missing
<1>1. d.status # None
  BY RunIsSome
<1>2. ASSUME NEW k \in DOMAIN r.invocations
      PROVE  /\ r.invocations[k].planned = k
             /\ <<k, "driver">> \in r.captures
             /\ r.invocations[k].consumer # "none" => <<k, "consumer">> \in r.captures
  BY <1>0, <1>2 DEF Recorded
<1>3. r.complete => r.missing = 0
  <2>1. r.complete => 2 * Cases <= Len(r.invocations)
    BY DEF Tally
  <2> QED
    BY <1>0, <2>1, MeasureAssumption DEF Planned
<1>4. ASSUME NEW c \in DOMAIN r.checkpoints
      PROVE  /\ 2 * c <= Len(r.invocations)
             /\ \A k \in {2 * c - 1, 2 * c} : r.invocations[k].consumer # "none"
             /\ r.checkpoints[c] = PairPasses(r.invocations, c)
  <2>1. c \in 1 .. n /\ 2 * c <= 2 * n /\ 2 * c \in 1 .. 2 * n /\ 2 * c - 1 \in 1 .. 2 * n
    BY <1>0
  <2>2. 2 * n <= Len(r.invocations)
    BY DEF Tally
  <2>3. 2 * c <= Len(r.invocations)
    BY <1>0, <2>1, <2>2
  <2> HIDE DEF n
  <2> QED
    BY <2>1, <2>3 DEF Tally, Scored, n
<1>5. \A c \in DOMAIN r.checkpoints : c < n => r.checkpoints[c]
  BY <1>0 DEF Tally, Scored
<1>6. failed = IF LastFailed(r) THEN {n} ELSE {}
  <2>1. r.checkpoints # << >> <=> n > 0
    BY <1>0
  <2>2. CASE LastFailed(r)
    <3>1. n > 0 /\ ~ r.checkpoints[n] /\ n \in DOMAIN r.checkpoints
      BY <1>0, <2>1, <2>2 DEF LastFailed
    <3>2. \A c \in DOMAIN r.checkpoints : c # n => c < n
      BY <1>0
    <3> HIDE DEF n
    <3> QED
      BY <1>5, <2>2, <3>1, <3>2
  <2>3. CASE ~ LastFailed(r)
    <3>1. \A c \in DOMAIN r.checkpoints : c = n => r.checkpoints[c]
      BY <1>0, <2>1, <2>3 DEF LastFailed
    <3>2. \A c \in DOMAIN r.checkpoints : c # n => c < n
      BY <1>0
    <3> HIDE DEF n
    <3> QED
      BY <1>5, <2>3, <3>1, <3>2
  <2> QED
    BY <2>2, <2>3
<1>7. CheckpointsReplay(r)
  <2>1. failed # {} => failed = {n} /\ Len(r.invocations) = 2 * n
    BY <1>6 DEF Tally
  <2>2. r.discrepancy = IF failed = {} THEN 0 ELSE n
    BY <1>6 DEF Expected
  <2>3. r.complete => n = Cases /\ failed = {}
    BY <1>6
  <2> HIDE DEF failed
  <2> QED
    BY <1>4, <2>1, <2>2, <2>3 DEF CheckpointsReplay, failed
<1> HIDE DEF n, failed
<1> QED
  BY <1>1, <1>2, <1>3, <1>7 DEF Replays

\* The steps that may change the status on the disk.
LEMMA StatusMoves ==
  ASSUME MeasureType, Evidence, Inventories, MeasureNext
  PROVE  \/ disk' = disk
         \/ disk'.status = disk.status /\ at \in {"driver", "consumer", "link", "archive", "rewrite"}
         \/ disk'.status = run' /\ ~ run'.sealed
         \/ Replace \/ Reseal
<1>0. run \in Run /\ disk \in Disk /\ report \in [value : Report \cup {None}, file : Reports]
  BY DEF MeasureType
<1>1. CASE Begin \/ Announce \/ AnnounceConsumer \/ Progress \/ Checkpoint \/ Raise \/ Reset
  <2>1. run' = Progressed(run) /\ disk' = [disk EXCEPT !.status = run'] /\ ~ run.sealed
    BY <1>1 DEF Begin, Announce, AnnounceConsumer, Publish, Progress, Checkpoint, Raise, Reset, Inventories
  <2> QED
    BY <1>0, <2>1, ProgressedView, DiskView
<1>2. CASE Driver \/ Consumer
  BY <1>2, InvokeView
<1>3. CASE Link \/ Rewrite
  <2>1. disk' = [disk EXCEPT !.files[report.file] = report.value] /\ at \in {"link", "rewrite"}
    BY <1>3 DEF Link, Rewrite
  <2> QED
    BY <1>0, <2>1, FileView
<1>4. CASE Archive
  <2>1. disk' = [disk EXCEPT !.archive[report.file] = disk.files[report.file]] /\ at = "archive"
    BY <1>4 DEF Archive, Archived
  <2>2. disk.files[report.file] \in Report \cup {None}
    BY <1>0 DEF Disk, Bytes
  <2> QED
    BY <1>0, <2>1, <2>2, ArchiveView
<1>5. CASE Loop \/ Attach \/ AttachConsumer \/ AppendCheckpoint \/ MarkDiscrepancy \/ After \/ Scan
           \/ Score \/ Hash \/ Seal \/ Published \/ Rescore \/ Fault \/ Expire
  BY <1>5 DEF Loop, Attach, AttachConsumer, AppendCheckpoint, MarkDiscrepancy, After, Scan, Score, Hash,
              Seal, Published, Leave, Rescore, Fault, Expire
<1> QED
  BY <1>1, <1>2, <1>3, <1>4, <1>5 DEF MeasureNext, Step

\* Only these steps are taken once a sealed status is in the directory.
LEMMA EndMoves ==
  ASSUME MeasureNext, at \in {"published", "reset", "end"}
  PROVE  /\ Published \/ Reset \/ Fault \/ Expire
         /\ at # "end" /\ at' \in {"published", "reset", "archive", "end"}
         /\ at' = "published" => at = "published" /\ run' = run
         /\ run' \in {run, Recovering(run), Progressed(run)}
<1>1. Published \/ Reset \/ Fault \/ Expire
  BY DEF MeasureNext, Step, Begin, Announce, AnnounceConsumer, Publish, Progress, Checkpoint, Raise, Loop, Attach,
         AttachConsumer, AppendCheckpoint, MarkDiscrepancy, After, Scan, Score, Link, Hash, Seal, Replace,
         Archive, Rescore, Rewrite, Reseal, Driver, Consumer, Invoke
<1>2. CASE Published
  BY <1>2 DEF Published, Leave
<1>3. CASE Reset
  BY <1>3 DEF Reset
<1>4. CASE Fault
  BY <1>4 DEF Fault, Handled, Body, Sealing, Recovery
<1>5. CASE Expire
  BY <1>5 DEF Expire
<1> QED
  BY <1>1, <1>2, <1>3, <1>4, <1>5

\* The steps after which a command has ended with a pass.
LEMMA EndedMoves ==
  ASSUME MeasureType, MeasureNext, ended' = "pass"
  PROVE  Published \/ Reseal \/ (ended = "pass" /\ at # "end")
BY DEF MeasureNext, Step, Begin, Announce, AnnounceConsumer, Publish, Progress, Checkpoint, Raise, Loop, Attach,
       AttachConsumer, AppendCheckpoint, MarkDiscrepancy, After, Scan, Score, Link, Hash, Seal, Replace,
       Published, Leave, Archive, Rescore, Rewrite, Reset, Driver, Consumer, Invoke, Fault, Handled, Expire

\* The steps before and after the replacement of run.json.
LEMMA ReplaceMoves ==
  ASSUME MeasureNext
  PROVE  /\ at' = "replace" => Seal \/ Expire
         /\ at' = "published" => Replace \/ Expire
<1>1. at' = "replace" => Seal \/ Expire
  BY DEF MeasureNext, Step, Begin, Announce, AnnounceConsumer, Publish, Progress, AfterConsumer,
     Checkpoint, AfterCheckpoint, Raise, Loop, Attach, AttachConsumer, AppendCheckpoint, MarkDiscrepancy,
     After, Scan, Score, Link, Hash, Replace, Published, Leave, Reset, Archive, Rescore, Rewrite, Reseal,
     Driver, Consumer, Invoke, Fault, Handled
<1>2. at' = "published" => Replace \/ Expire
  BY DEF MeasureNext, Step, Begin, Announce, AnnounceConsumer, Publish, Progress, AfterConsumer,
     Checkpoint, AfterCheckpoint, Raise, Loop, Attach, AttachConsumer, AppendCheckpoint, MarkDiscrepancy,
     After, Scan, Score, Link, Hash, Seal, Published, Leave, Reset, Archive, Rescore, Rewrite, Reseal,
     Driver, Consumer, Invoke, Fault, Handled
<1> QED
  BY <1>1, <1>2

Sound == MeasureType /\ Evidence /\ Scores /\ Discrepancies /\ Inventories /\ Reporting

\* Publishing a sealed run over the three files leaves a directory that replays.
LEMMA SealReplays ==
  ASSUME Sound, at \in {"replace", "reseal"}, NEW r \in Run, NEW d \in Disk,
         Agree(r, run), r.missing = run.missing, r.complete = run.complete, r.sealed,
         r.hashes = run.hashes, ReportOf(r) = ReportOf(run),
         d.raw = disk.raw, d.files = disk.files, d.status = r,
         "mark" \notin Interruptible \/ run.complete
  PROVE  Replays(d) /\ d.raw = r.captures
<1>0. run \in Run /\ Len(run.checkpoints) \in Nat /\ Len(run.invocations) \in Nat
  BY DEF Sound, MeasureType, Run
<1>1. /\ r.invocations = run.invocations /\ r.captures = run.captures
      /\ r.checkpoints = run.checkpoints /\ r.discrepancy = run.discrepancy
  BY DEF Agree
<1>2. /\ Tally(r) /\ LastFailed(r) = LastFailed(run) /\ Expected(r) = Expected(run)
  BY <1>1, SameTally DEF Sound, Scores
<1>3. Len(r.invocations) <= Planned /\ \A k \in 1 .. Len(r.invocations) : Recorded(r, k)
  BY <1>1 DEF Sound, Evidence, Recorded
<1>4. r.captures = d.raw /\ r.missing = Missing(r)
  BY <1>1 DEF Sound, Inventories, Missing, Sealing, Recovery, Body
<1>5. r.complete => Len(r.checkpoints) = Cases /\ ~ LastFailed(r)
  BY <1>1, <1>2 DEF Sound, Discrepancies
<1>6. Len(r.checkpoints) <= Cases
  <2>1. 2 * Len(r.checkpoints) <= Len(r.invocations) /\ Len(r.invocations) <= Planned
    BY <1>2, <1>3 DEF Tally
  <2> QED
    BY <1>0, <1>1, <2>1, MeasureAssumption DEF Planned
<1>7. r.discrepancy = Expected(r)
  BY <1>1, <1>2 DEF Sound, Discrepancies
<1>8. \A i \in Reports : d.files[i] = ReportOf(r) /\ r.hashes[i] = ReportOf(r)
  BY DEF Sound, Reporting, Matches
<1> QED
  BY <1>2, <1>3, <1>4, <1>5, <1>6, <1>7, <1>8, ReplayHolds

\* A report that passes shows that its run did.
LEMMA ReportShows ==
  ASSUME NEW r, NEW v, v = ReportOf(r), Passed(v)
  PROVE  r.complete /\ r.missing = 0 /\ \A c \in 1 .. Cases : PairPasses(r.invocations, c)
BY DEF Passed, ReportOf

\* A status is sealed only of the run that is ending.
LEMMA SealedRunStep ==
  ASSUME Sound, MeasureType', SealedRun, MeasureNext
  PROVE  SealedRun'
<1>0. /\ run \in Run /\ disk \in Disk /\ report \in [value : Report \cup {None}, file : Reports]
      /\ run' \in Run /\ disk' \in Disk
  BY DEF Sound, MeasureType
<1> USE DEF Sound
<1>1. CASE Replace
  <2>1. /\ at = "replace" /\ at' = "published" /\ run' = run /\ ended' = ended
        /\ disk' = [disk EXCEPT !.status = run]
    BY <1>1 DEF Replace
  <2>2. disk'.raw = disk.raw /\ disk'.files = disk.files /\ disk'.status = run
    BY <1>0, <2>1, DiskView
  <2>3. run.sealed /\ ended # "pass"
    BY <2>1 DEF SealedRun
  <2>4. Agree(run, run)
    BY DEF Agree
  <2>5. "mark" \notin Interruptible \/ run.complete => Replays(disk')
    BY <1>0, <2>1, <2>2, <2>3, <2>4, SealReplays
  <2>6. run.captures = disk.raw
    BY <2>1 DEF Inventories, Sealing
  <2> QED
    BY <2>1, <2>2, <2>3, <2>5, <2>6 DEF SealedRun, SealedStatus
<1>2. CASE Reseal
  <2> DEFINE s == [run EXCEPT !.sealed = TRUE]
  <2>1. /\ at = "reseal" /\ at' = "end" /\ run' = s /\ disk' = [disk EXCEPT !.status = s]
        /\ ended' = (IF Passed(report.value) THEN "pass" ELSE "fail")
    BY <1>2 DEF Reseal
  <2>2. /\ s \in Run /\ Agree(s, run) /\ s.missing = run.missing /\ s.complete = run.complete
        /\ s.sealed /\ s.hashes = run.hashes /\ ReportOf(s) = ReportOf(run)
    BY <1>0, SealedView
  <2> HIDE DEF s
  <2>3. disk'.raw = disk.raw /\ disk'.files = disk.files /\ disk'.status = s
    BY <1>0, <2>1, <2>2, DiskView
  <2>4. ~ run.complete /\ run.captures = disk.raw
    BY <2>1 DEF Inventories, Recovery
  <2>5. "mark" \notin Interruptible \/ s.complete => Replays(disk')
    BY <1>0, <2>1, <2>2, <2>3, SealReplays
  <2>6. ended' # "pass"
    <3>1. report.value = ReportOf(run)
      BY <2>1 DEF Reporting
    <3> QED
      BY <2>1, <2>4, <3>1, ReportShows
  <2>7. s.captures = disk'.raw
    BY <2>2, <2>3, <2>4 DEF Agree
  <2> QED
    BY <2>1, <2>3, <2>5, <2>6, <2>7 DEF SealedRun, SealedStatus
<1>3. CASE ~ Replace /\ ~ Reseal
  <2>1. \/ disk' = disk
        \/ disk'.status = disk.status /\ at \in {"driver", "consumer", "link", "archive", "rewrite"}
        \/ disk'.status = run' /\ ~ run'.sealed
    BY <1>3, StatusMoves
  <2>2. ASSUME SealedStatus'
        PROVE  disk' = disk /\ SealedStatus /\ at \in {"published", "reset", "end"}
    <3>1. disk'.status # run' \/ run'.sealed
      BY <2>2 DEF SealedStatus
    <3>2. disk' = disk \/ (disk'.status = disk.status /\ at \in {"driver", "consumer", "link", "archive", "rewrite"})
      BY <2>1, <2>2 DEF SealedStatus
    <3>3. SealedStatus
      BY <2>2, <3>2 DEF SealedStatus
    <3> QED
      BY <3>2, <3>3 DEF SealedRun
  <2>3. ASSUME SealedStatus'
        PROVE  /\ at' \in {"published", "reset", "end"}
               /\ disk'.status.invocations = run'.invocations /\ disk'.status.checkpoints = run'.checkpoints
               /\ disk'.raw = disk'.status.captures
               /\ "mark" \notin Interruptible \/ disk'.status.complete => Replays(disk')
    <3>1. disk' = disk /\ SealedStatus /\ at \in {"published", "reset", "end"}
      BY <2>2, <2>3
    <3>2. /\ at' \in {"published", "reset", "archive", "end"}
          /\ run' \in {run, Recovering(run), Progressed(run)}
      BY <3>1, EndMoves
    <3>3. at' # "archive"
      <4>1. CASE Reset
        <5>1. run' = Progressed(run) /\ disk' = [disk EXCEPT !.status = run'] /\ at = "reset"
          BY <4>1 DEF Reset
        <5>2. disk'.status = run' /\ run'.sealed = run.sealed /\ ~ run.sealed
          BY <1>0, <5>1, DiskView, ProgressedView DEF Inventories
        <5> QED
          BY <2>3, <5>2 DEF SealedStatus
      <4>2. CASE Published \/ Fault \/ Expire
        BY <3>1, <4>2 DEF Published, Leave, Fault, Handled, Expire, Body, Sealing, Recovery
      <4> QED
        BY <3>1, <4>1, <4>2, EndMoves
    <3>4. run'.invocations = run.invocations /\ run'.checkpoints = run.checkpoints
      BY <1>0, <3>2, RecoveringView, ProgressedView DEF Agree
    <3> QED
      BY <3>1, <3>2, <3>3, <3>4 DEF SealedRun
  <2>4. at' \in {"replace", "published"} => run'.sealed
    <3>1. CASE Seal
      BY <1>0, <3>1, SealedView DEF Seal
    <3>2. CASE Expire
      BY <3>2 DEF Expire, SealedRun
    <3> QED
      BY <1>3, <3>1, <3>2, ReplaceMoves
  <2>5. at' = "published" => disk'.status = run'
    BY <1>3, ReplaceMoves DEF Expire, SealedRun
  <2>6. ended' = "pass" => at' = "end" /\ ReplaysAsPass(disk')
    <3>1. ASSUME ended' = "pass" PROVE Published
      BY <1>3, <3>1, EndedMoves DEF SealedRun
    <3>2. ASSUME ended' = "pass" PROVE at' = "end" /\ ReplaysAsPass(disk')
      <4>1. at = "published" /\ at' = "end" /\ disk' = disk /\ Passed(report.value)
        BY <3>1, <3>2 DEF Published, Leave
      <4>2. run.sealed /\ disk.status = run /\ report.value = ReportOf(run) /\ \A i \in Reports : Matches(i)
        BY <4>1 DEF SealedRun, Reporting
      <4>3. run.complete /\ disk.files[2] = report.value
        BY <4>1, <4>2, ReportShows DEF Matches, Reports
      <4>4. SealedStatus
        BY <1>0, <4>2, RunIsSome DEF SealedStatus
      <4>5. Replays(disk)
        BY <4>2, <4>3, <4>4 DEF SealedRun
      <4> QED
        BY <4>1, <4>3, <4>5 DEF ReplaysAsPass
    <3> QED
      BY <3>2
  <2> QED
    BY <2>3, <2>4, <2>5, <2>6 DEF SealedRun
<1> QED
  BY <1>1, <1>2, <1>3

\* The inductive invariant of the measurement.
MeasureInvariant == Sound /\ SealedRun

\* Every step keeps the types.
LEMMA MeasureTypeStep ==
  ASSUME MeasureType, Evidence, MeasureNext
  PROVE  MeasureType'
<1>1. CASE ~ Noisy
  BY <1>1, QuietStep DEF Noisy, Quiet
<1>2. CASE Driver \/ Consumer \/ Attach \/ AppendCheckpoint \/ MarkDiscrepancy \/ Scan
  BY <1>2, InvokeView, AttachView, AppendView, MarkView, ScanView
<1>3. CASE AttachConsumer
  <2>1. next = Len(run.invocations)
    BY <1>3 DEF AttachConsumer, Evidence, Asking
  <2>2. next \in 1 .. Len(run.invocations)
    BY <2>1, PlannedNat DEF MeasureType
  <2> QED
    BY <1>3, <2>2, AttachConsumerView
<1> QED
  BY <1>1, <1>2, <1>3 DEF Noisy

\* The invariant of the measurement holds at the start.
LEMMA MeasureStarts ==
  ASSUME MeasureInit
  PROVE  MeasureInvariant
<1> DEFINE r == [invocations |-> << >>, captures |-> {}, unattached |-> {}, hashes |-> [i \in Reports |-> None],
                 checkpoints |-> << >>, discrepancy |-> 0, complete |-> FALSE, missing |-> 0,
                 sealed |-> FALSE, elapsed |-> 0]
           d == [raw |-> {}, files |-> [i \in Reports |-> None], archive |-> [i \in Reports |-> None],
                 status |-> None]
<1>1. /\ at = "begin" /\ next = 1 /\ run = r /\ disk = d /\ report = [value |-> None, file |-> 1]
      /\ late = FALSE /\ ended = "none"
  BY DEF MeasureInit
<1>2. r \in Run
  <2>1. [i \in Reports |-> None] \in Bytes
    BY DEF Bytes
  <2>2. << >> \in Seq(Invocation) /\ << >> \in Seq(BOOLEAN)
    OBVIOUS
  <2> QED
    BY <2>1, <2>2 DEF Run
<1>3. d \in Disk
  <2>1. [i \in Reports |-> None] \in Bytes
    BY DEF Bytes
  <2> QED
    BY <2>1 DEF Disk
<1>4. /\ r.invocations = << >> /\ r.captures = {} /\ r.checkpoints = << >> /\ r.discrepancy = 0
      /\ ~ r.complete /\ ~ r.sealed
      /\ d.raw = {} /\ d.status = None
  OBVIOUS
<1> HIDE DEF r, d
<1>5. MeasureType
  <2>1. report \in [value : Report \cup {None}, file : Reports] /\ next \in 1 .. Planned + 1
    BY <1>1, PlannedNat DEF Reports
  <2> QED
    BY <1>1, <1>2, <1>3, <2>1 DEF MeasureType, Steps, Body
<1>6. Evidence
  BY <1>1, <1>4, PlannedNat DEF Evidence, Gathering, Asking, Scoring
<1>7. ~ LastFailed(run) /\ Expected(run) = 0
  BY <1>1, <1>4 DEF LastFailed, Expected
<1>8. Scores /\ Discrepancies
  BY <1>1, <1>4, <1>7 DEF Scores, Discrepancies, Tally, Gathering, Asking
<1>9. Inventories /\ Reporting
  BY <1>1, <1>4 DEF Inventories, Reporting, Body, Sealing, Recovery
<1>10. SealedRun
  BY <1>1, <1>4 DEF SealedRun, SealedStatus
<1> QED
  BY <1>5, <1>6, <1>8, <1>9, <1>10 DEF MeasureInvariant, Sound

\* A stuttering step keeps it.
LEMMA MeasureStutters ==
  ASSUME MeasureInvariant, UNCHANGED measureVars
  PROVE  MeasureInvariant'
<1>1. /\ at' = at /\ next' = next /\ pending' = pending /\ report' = report /\ run' = run
      /\ disk' = disk /\ late' = late /\ ended' = ended
  BY DEF measureVars
<1>2. MeasureType' /\ Evidence'
  BY <1>1 DEF MeasureInvariant, Sound, MeasureType, Evidence
<1>3. Scores' /\ Discrepancies'
  BY <1>1 DEF MeasureInvariant, Sound, Scores, Discrepancies
<1>4. Inventories' /\ Reporting'
  BY <1>1 DEF MeasureInvariant, Sound, Inventories, Reporting, Matches, Preserved
<1>5. SealedRun'
  BY <1>1 DEF MeasureInvariant, SealedRun, SealedStatus
<1> QED
  BY <1>2, <1>3, <1>4, <1>5 DEF MeasureInvariant, Sound

\* Every reachable state of the runner satisfies the inductive invariant,
\* whichever steps fail or are interrupted and however many pairs are planned.
THEOREM MeasureIsSound == MeasureSpec => []MeasureInvariant
<1>1. MeasureInvariant /\ [MeasureNext]_measureVars => MeasureInvariant'
  <2> SUFFICES ASSUME MeasureInvariant, [MeasureNext]_measureVars PROVE MeasureInvariant'
    OBVIOUS
  <2>1. CASE MeasureNext
    BY <2>1, MeasureTypeStep, EvidenceStep, ScoresStep, SealingStep, SealedRunStep DEF MeasureInvariant, Sound
  <2>2. CASE UNCHANGED measureVars
    BY <2>2, MeasureStutters
  <2> QED
    BY <2>1, <2>2
<1> QED
  BY MeasureStarts, <1>1, PTL DEF MeasureSpec

\* Whenever a sealed run.json is in the directory, replay accepts the directory
\* (SealedReplays), when no signal arrives between a failed checkpoint and its mark.
THEOREM DirectoriesReplay ==
  ASSUME "mark" \notin Interruptible
  PROVE  MeasureSpec => []SealedReplays
<1>1. MeasureInvariant => SealedReplays
  BY DEF MeasureInvariant, SealedRun, SealedStatus, SealedReplays
<1> QED
  BY <1>1, MeasureIsSound, PTL

\* It implies that a pass is earned.
LEMMA PassEarned ==
  ASSUME MeasureInvariant
  PROVE  PassIsEarned
<1> USE DEF MeasureInvariant, Sound
<1>0. run \in Run /\ disk \in Disk /\ Len(run.invocations) \in Nat /\ Cases \in Nat
  BY MeasureAssumption DEF MeasureType, Run
<1>1. ASSUME ReplaysAsPass(disk)
      PROVE  /\ disk.raw = (1 .. Planned) \X Streams
             /\ \A k \in 1 .. Planned : run.invocations[k].driver = "right" /\ run.invocations[k].consumer = "accepted"
             /\ run.checkpoints = [c \in 1 .. Cases |-> TRUE]
  <2> DEFINE s == disk.status
  <2>1. s # None /\ s.sealed /\ Replays(disk)
    BY <1>1 DEF ReplaysAsPass, Replays
  <2>2. s.invocations = run.invocations /\ s.checkpoints = run.checkpoints /\ disk.raw = s.captures
    BY <2>1 DEF SealedRun, SealedStatus
  <2>3. Passed(disk.files[2]) /\ disk.files[2] = ReportOf(s)
    BY <1>1, <2>1 DEF ReplaysAsPass, Replays, Reports
  <2>4. s.complete /\ \A c \in 1 .. Cases : PairPasses(s.invocations, c)
    <3> HIDE DEF s
    <3> QED
      BY <2>3, ReportShows
  <2>5. ASSUME NEW k \in 1 .. Planned
        PROVE  /\ run.invocations[k].driver = "right" /\ run.invocations[k].consumer = "accepted"
               /\ k \in 1 .. Len(run.invocations)
    <3>1. PICK c \in 1 .. Cases : k = 2 * c \/ k = 2 * c - 1
      <4>1. k \in Nat /\ k >= 1 /\ k <= 2 * Cases
        BY <1>0 DEF Planned
      <4>2. ((k + 1) \div 2) \in 1 .. Cases /\ (k = 2 * ((k + 1) \div 2) \/ k = 2 * ((k + 1) \div 2) - 1)
        BY <1>0, <4>1
      <4> QED
        BY <4>2
    <3>2. PairPasses(run.invocations, c)
      BY <2>2, <2>4
    <3> QED
      BY <1>0, <3>1, <3>2 DEF PairPasses
  <2>6. ASSUME NEW k \in 1 .. Planned
        PROVE  <<k, "driver">> \in disk.raw /\ <<k, "consumer">> \in disk.raw
    <3>1. Recorded(run, k) /\ run.invocations[k].consumer # "none"
      BY <2>5 DEF Evidence
    <3> QED
      BY <3>1 DEF Recorded, Evidence
  <2>7. disk.raw = (1 .. Planned) \X Streams
    <3>1. ASSUME NEW x \in (1 .. Planned) \X Streams PROVE x \in disk.raw
      <4>1. PICK k \in 1 .. Planned, stream \in Streams : x = <<k, stream>>
        OBVIOUS
      <4> QED
        BY <2>6, <4>1 DEF Streams
    <3> QED
      BY <3>1 DEF Evidence
  <2>8. Len(run.checkpoints) = Cases /\ ~ (\E c \in DOMAIN run.checkpoints : ~ run.checkpoints[c])
    BY <2>1, <2>2, <2>4 DEF Replays, CheckpointsReplay
  <2>9. run.checkpoints = [c \in 1 .. Cases |-> TRUE]
    <3>1. run.checkpoints \in Seq(BOOLEAN)
      BY <1>0 DEF Run
    <3>2. DOMAIN run.checkpoints = 1 .. Cases /\ \A c \in 1 .. Cases : run.checkpoints[c] = TRUE
      BY <2>8, <3>1
    <3>3. run.checkpoints = [c \in 1 .. Cases |-> run.checkpoints[c]]
      <4>1. run.checkpoints \in [1 .. Len(run.checkpoints) -> BOOLEAN]
        BY <3>1
      <4> QED
        BY <2>8, <4>1
    <3> QED
      BY <3>2, <3>3
  <2> QED
    BY <2>5, <2>7, <2>9
<1>2. ended = "pass" => ReplaysAsPass(disk)
  BY DEF SealedRun
<1> QED
  BY <1>1, <1>2 DEF PassIsEarned, Streams

\* After the deadline no step makes a pass that was not already to come.
LEMMA LateStep ==
  ASSUME MeasureInvariant, MeasureInvariant', [MeasureNext]_measureVars, late, PassComing'
  PROVE  PassComing
<1> USE DEF MeasureInvariant, Sound
<1>0. /\ run \in Run /\ disk \in Disk /\ report \in [value : Report \cup {None}, file : Reports]
      /\ run' \in Run /\ disk' \in Disk
  BY DEF MeasureType
<1>1. CASE UNCHANGED measureVars
  BY <1>1 DEF measureVars, PassComing
<1>2. CASE MeasureNext /\ at' = "replace"
  <2>1. Seal \/ Expire
    BY <1>2, ReplaceMoves
  <2>2. CASE Seal
    BY <1>2, <2>2 DEF Seal, MissesDeadline
  <2>3. CASE Expire
    BY <2>3 DEF Expire
  <2> QED
    BY <2>1, <2>2, <2>3
<1>3. CASE MeasureNext /\ at' # "replace"
  <2>1. ReplaysAsPass(disk')
    BY <1>3 DEF PassComing
  <2>2. SealedStatus'
    BY <2>1 DEF ReplaysAsPass, Replays, SealedStatus
  <2>3. CASE disk' = disk
    BY <2>1, <2>3 DEF PassComing
  <2>4. CASE disk'.status = disk.status /\ at \in {"driver", "consumer", "link", "archive", "rewrite"}
    BY <2>2, <2>4 DEF SealedStatus, SealedRun
  <2>5. CASE disk'.status = run' /\ ~ run'.sealed
    BY <2>2, <2>5 DEF SealedStatus
  <2>6. CASE Replace
    <3>1. at = "replace" /\ disk' = [disk EXCEPT !.status = run]
      BY <2>6 DEF Replace
    <3>2. disk'.files = disk.files
      BY <1>0, <3>1, DiskView
    <3>3. disk.files[2] = report.value
      BY <3>1 DEF Reporting, Matches, Reports
    <3> QED
      BY <2>1, <3>1, <3>2, <3>3 DEF ReplaysAsPass, PassComing
  <2>7. CASE Reseal
    <3>1. at = "reseal" /\ run' = [run EXCEPT !.sealed = TRUE] /\ disk' = [disk EXCEPT !.status = run']
      BY <2>7 DEF Reseal
    <3>2. disk'.files = disk.files /\ disk.files[2] = report.value /\ report.value = ReportOf(run)
      BY <1>0, <3>1, DiskView DEF Reporting, Matches, Reports
    <3>3. run.complete
      BY <2>1, <3>2, ReportShows DEF ReplaysAsPass
    <3> QED
      BY <3>1, <3>3 DEF Inventories, Recovery
  <2> QED
    BY <1>3, <2>3, <2>4, <2>5, <2>6, <2>7, StatusMoves
<1> QED
  BY <1>1, <1>2, <1>3

\* A replayable PASS has every pair captured, right, accepted and scored, exit 0
\* is given for nothing less, and a run that is late does not get to one
\* (PassesAreEarned).
THEOREM PassesEarned == MeasureSpec => PassesAreEarned
<1>1. MeasureInvariant => PassIsEarned
  BY PassEarned
<1>2. MeasureInvariant /\ MeasureInvariant' /\ [MeasureNext]_measureVars
        => [late => (PassComing' => PassComing)]_measureVars
  BY LateStep
<1> QED
  BY <1>1, <1>2, MeasureIsSound, PTL DEF MeasureSpec, PassesAreEarned, LateNeverPasses

\* No capture is removed, and no report is overwritten that is not archived
\* (EvidenceKept).
THEOREM EvidenceIsKept == MeasureSpec => EvidenceKept
<1> DEFINE KeptStep == /\ disk.raw \subseteq disk'.raw
                    /\ \A i \in Reports :
                         disk.files[i] # None /\ disk'.files[i] # disk.files[i] => disk.archive[i] = disk.files[i]
<1>1. ASSUME MeasureInvariant, MeasureNext PROVE KeptStep
  <2> USE <1>1 DEF MeasureInvariant, Sound
  <2>0. /\ run \in Run /\ disk \in Disk /\ report \in [value : Report \cup {None}, file : Reports]
    BY DEF MeasureType
  <2>1. disk.raw \subseteq disk'.raw
    <3>1. CASE ~ Noisy
      BY <3>1, QuietStep DEF Noisy, Quiet
    <3>2. CASE Noisy
      BY <3>2, InvokeView, AppendView, MarkView, ScanView DEF Attach, AttachConsumer, Noisy
    <3> QED
      BY <3>1, <3>2
  <2>2. CASE Link \/ Rewrite
    <3>1. disk' = [disk EXCEPT !.files[report.file] = report.value]
          /\ (disk.files[report.file] = None \/ at = "rewrite")
      BY <2>2 DEF Link, Rewrite
    <3>2. disk'.files = [disk.files EXCEPT ![report.file] = report.value]
      BY <2>0, <3>1, FileView
    <3>3. \A i \in Reports : i # report.file => disk'.files[i] = disk.files[i]
      BY <3>2
    <3>4. at = "rewrite" => disk.archive[report.file] = disk.files[report.file]
      BY <2>0 DEF Reporting, Preserved, Reports
    <3> QED
      BY <2>1, <3>1, <3>3, <3>4
  <2>3. CASE ~ Link /\ ~ Rewrite
    <3>1. disk'.files = disk.files
      <4>1. CASE \E r \in Run : disk' = [disk EXCEPT !.status = r]
        BY <2>0, <4>1, DiskView
      <4>2. CASE Driver \/ Consumer
        BY <4>2, InvokeView
      <4>3. CASE Archive
        <5>1. disk' = [disk EXCEPT !.archive[report.file] = disk.files[report.file]]
          BY <4>3 DEF Archive, Archived
        <5>2. disk.files[report.file] \in Report \cup {None}
          BY <2>0 DEF Disk, Bytes
        <5> QED
          BY <2>0, <5>1, <5>2, ArchiveView
      <4>4. CASE Replace
        BY <2>0, <4>1, <4>4 DEF Replace
      <4>5. run' \in Run
        BY MeasureTypeStep DEF MeasureType
      <4>6. CASE Begin \/ Announce \/ AnnounceConsumer \/ Progress \/ Checkpoint \/ Raise \/ Reset \/ Reseal
        <5>1. disk' = [disk EXCEPT !.status = run']
          BY <4>6 DEF Begin, Announce, AnnounceConsumer, Publish, Progress, Checkpoint, Raise, Reset, Reseal
        <5> QED
          BY <4>1, <4>5, <5>1
      <4>7. CASE Loop \/ Attach \/ AttachConsumer \/ AppendCheckpoint \/ MarkDiscrepancy \/ After \/ Scan
                 \/ Score \/ Hash \/ Seal \/ Published \/ Rescore \/ Fault \/ Expire
        BY <4>7 DEF Loop, Attach, AttachConsumer, AppendCheckpoint, MarkDiscrepancy, After, Scan, Score, Hash,
                    Seal, Published, Leave, Rescore, Fault, Expire
      <4> QED
        BY <2>3, <4>2, <4>3, <4>4, <4>6, <4>7 DEF MeasureNext, Step
    <3> QED
      BY <2>1, <3>1
  <2> QED
    BY <2>2, <2>3
<1>2. MeasureInvariant /\ [MeasureNext]_measureVars => [KeptStep]_measureVars
  BY <1>1
<1> QED
  BY <1>2, MeasureIsSound, PTL DEF MeasureSpec, EvidenceKept
=============================================================================
