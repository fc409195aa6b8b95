CONSTANTS
  Cells = 3
  Ceiling = 3
  RunCap = 2
  ScoreCap = 1
  SmokeCap = 1
  Commands = {"run", "score", "smoke"}
  MaxKills = 2
  MaxSmokes = 1
SPECIFICATION LedgerSpec
INVARIANTS CeilingHolds KillsBoundLoss
PROPERTIES EveryCellRecorded
CHECK_DEADLOCK FALSE
