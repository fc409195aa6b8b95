CONSTANTS
  Id = {1, 2, 3, 4, 5, 6, 8, 9, 10}
  Actor = {"a", "b"}
  Plan = {"p"}
  Run = {"r", "q"}
  Data = {"x", "y"}
  Family = {"f"}
  Source = {"s"}
  Pool <- MCPool
  Problems <- MCProblems
  Slots <- MCSlots
  Limits <- MCLimits
  HardLimits <- MCHardLimits
  Queries <- MCQueries
SPECIFICATION InquirySpec
INVARIANTS StepIsFounded CertainIsTrue SearchIsExact PreflightIsExact
PROPERTIES PrecommitmentIsSound
CHECK_DEADLOCK FALSE
