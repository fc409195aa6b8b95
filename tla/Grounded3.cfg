SPECIFICATION GroundedSpec
CONSTANTS
  Args = {0, 1, 2}
  Query = {"q"}
INVARIANTS
  GroundedIsLeastComplete
  LabelsComplete
  StatusSceptical
CHECK_DEADLOCK FALSE
