CONSTANTS
  Cmd = {c1, c2}
  Overriding = {c2}
  Publishing = {c1, c2}
  Size = 5
  Paper = 1
  Source = 2
  Policy = 3
  Version = {1, 2}
  Broken = Broken
  None = None
  Pointer <- MCPointer
  Manifest <- MCManifest
  Needs <- MCNeeds
  TooHeavy = {2}
  Front <- MCFront
  Accepts <- MCAccepts
  MaxEdits = 2
SPECIFICATION Spec
INVARIANTS OnePackage PublicationIsWhole
PROPERTIES RejectionClass
CHECK_DEADLOCK FALSE
