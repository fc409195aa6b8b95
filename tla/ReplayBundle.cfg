SPECIFICATION Spec
CONSTANTS
  Traces <- MCTraces
  Edits <- MCEdits
  Policies <- MCPolicies
  First = {"E1"}
  TraceOf <- MCTraceOf
  PolicyOf <- MCPolicyOf
  Elabs = {e1, e2}
  Freezes = {f1}
  MaxEdits = 1
  MaxFaults = 2
  NoFile = NoFile
INVARIANTS
  JustifiedIsEvidenced
PROPERTIES
  ElaborateIsTransactional
  FreezeIsTransactional
  FrozenBundleReplays
SYMMETRY Alike
CHECK_DEADLOCK FALSE
