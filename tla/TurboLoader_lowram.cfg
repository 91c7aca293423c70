SPECIFICATION USpec
CONSTANTS
  Blocks = {b1, b2, b3}
  NoBlock = NoBlock  Mixed = Mixed
  Stores = {FALSE}
  CopyModes = {"copy"}
  MaxStages = 3
  MaxAwaits = 3
INVARIANT KernelsReadTheirBlock
CHECK_DEADLOCK FALSE
