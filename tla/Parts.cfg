SPECIFICATION PartsSpec
CONSTANTS
  NumShards = 2
  MaxSource = 2
  Opts = {"w4"}
  None = None
  NumUnits = 3
  Pins = {"p1", "p2"}
  NoFile = NoFile  Torn = Torn
  MaxEvents = 4
  Cap = 2
  Readers = {"r1", "r2"}
  Blocks = {"b1", "b2", "b3"}
  NoBlock = NoBlock  Mixed = Mixed
  Stores = {TRUE}
  CopyModes = {"copy", "default"}
  MaxStages = 3
  MaxAwaits = 3
INVARIANTS
  KernelsReadTheirBlock
  PartsTypeOK
  FinishedBuildIsWhole
  FramesAreFaithful
PROPERTIES
  ImplementsResumableBuild
  CImplementsResumableBuild
  IndexListsValidatedShards
  AttachedSocketsClose
CHECK_DEADLOCK FALSE
