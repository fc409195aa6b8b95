SPECIFICATION Spec
CONSTANTS
  Term <- MCTerm
  Sub <- MCSub
  Mode <- MCMode
  Concl <- MCConcl
  NoTerm = NoTerm
  ArgLists <- MCArgLists
  AttackLists <- MCAttackLists
  Contraries <- MCContraries
  Exceptions <- MCExceptions
  Flaws <- MCFlaws
INVARIANTS
  VerdictIsFirstDefect
  DirectConsistency
  NodesStandOnParts
  AblationScope
CHECK_DEADLOCK FALSE
