SPECIFICATION FairSpec
CONSTANTS
  Kinds = {"staged", "klein", "krea2"}
  MaxJobs = 2
  MaxCancels = 2
  MaxTicks = 2
INVARIANTS
  TypeOK
  NoCrossTalk
  FenceOwnAck
PROPERTIES
  ImplementsDrive
  EveryDriveEnds
  FenceIsAnswered
CHECK_DEADLOCK FALSE
