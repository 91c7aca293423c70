SPECIFICATION Spec
CONSTANTS
  Kinds = {"staged"}
  MaxJobs = 1
  MaxCancels = 1
  MaxTicks = 2
INVARIANTS
  CancelledBaseIsNotRefined
CHECK_DEADLOCK FALSE
