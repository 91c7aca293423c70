SPECIFICATION Spec
CONSTANTS
  NumShards = 2
  MaxSource = 1
  Opts = {"w4"}
  None = None
INVARIANT PlanListsEveryShard
