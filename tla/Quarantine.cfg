SPECIFICATION Spec
CONSTANTS
  Term <- MCTerm
  Sub <- MCSub
  Mode <- MCMode
  Concl <- MCConcl
  NoTerm = NoTerm
  Arg <- MCArg
  LeafId <- MCLeafId
  LeafOf <- MCLeafOf
  Prop = {"p", "n"}
  NoProp = "none"
  Decls <- MCDecls
  Attacks <- MCAttacks
  Groups <- MCGroups
  Gammas <- MCGammas
  Query = {"p", "n", "q"}
INVARIANTS
  ConditionalIsSound
  QuarantineTotal
  FastPathExact
PROPERTIES
  Terminates
CHECK_DEADLOCK FALSE
