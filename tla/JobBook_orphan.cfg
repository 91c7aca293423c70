SPECIFICATION Spec
CONSTANTS
  MaxId = 2
  MaxSessions = 2
PROPERTIES
  NoArtifactOverwritten
CHECK_DEADLOCK FALSE
