SPECIFICATION WSpec
CONSTANTS
  Starts = {a1}
  Submits = {c1}
  Readers = {r1}
  NFiles = 1
  Size = 1
  Budgets = {0, 1}
PROPERTIES
  CancelledStaysCancelled
CHECK_DEADLOCK FALSE
