SPECIFICATION StorageSpec
CONSTANTS
  MaxId = 3
  MaxSessions = 3
  Starts = {a1, a2}
  Submits = {c1}
  Readers = {r1, r2}
  NFiles = 2
  Size = 2
  Budgets = {0, 3}
SYMMETRY Alike
INVARIANTS
  StorageTypeOK
  NoReissue
  ReorderIsExact
  AtMostOneLateRead
  WithinBudget
  StatusIsItsOwn
  CompleteIsExact
PROPERTIES
  HistoryIsKept
CHECK_DEADLOCK FALSE
