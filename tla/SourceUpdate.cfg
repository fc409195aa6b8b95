CONSTANTS
  Sources <- MCSources
  Edits <- MCEdits
  Questions <- MCQuestions
  Parts <- MCParts
  Positions <- MCPositions
  MaxEdits = 3
  MaxBatches = 2
SPECIFICATION UpdateSpec
INVARIANTS IdentitiesHold
PROPERTIES EditsAreLocal BatchesCompose
CHECK_DEADLOCK FALSE
