SPECIFICATION Spec
CONSTANTS
  MaxId = 2
  MaxSessions = 2
PROPERTIES
  CrashSafeRewrite
CHECK_DEADLOCK FALSE
