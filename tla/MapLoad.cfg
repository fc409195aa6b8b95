SPECIFICATION Spec
CONSTANTS
  MaxMembers = 3
  NoTerm = NoTerm
  Shape <- MCShape
  ShapeSub <- MCSub
  ShapeMode <- MCMode
  ShapeConcl <- MCConcl
  Infers <- MCInfers
  Source <- MCSource
  PolicyText <- MCPolicyText
  Path <- MCPath
  Key <- MCKey
  PolicyPath <- MCPolicyPath
  ManifestPath = "map"
  Manifest <- MCManifest
  Disks <- MCDisks
  Edited <- MCEdited
  MaxEdits = 1
INVARIANTS
  LinkAccepts
  OwnGraphKept
  UndisturbedStatus
  BlameIsSound
CHECK_DEADLOCK FALSE
