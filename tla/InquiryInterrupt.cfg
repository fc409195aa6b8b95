CONSTANTS
  Cases = 2
  MaxFaults = 1
  Interruptible = {"append", "mark", "checkpoint"}
SPECIFICATION MeasureSpec
INVARIANTS DiscrepancyRetained
CHECK_DEADLOCK FALSE
