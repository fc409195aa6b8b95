CONSTANTS
  Writer = {w1, w2, w3}
  Accepting = {w1, w2}
  Reader = {r1}
  Old = Old
  Unopened = Unopened
  Size = 2
SPECIFICATION Spec
INVARIANTS NoTornRead ExitTruthful
PROPERTIES Implements
CHECK_DEADLOCK FALSE
