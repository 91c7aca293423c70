SPECIFICATION Spec
CONSTANTS
  j1 = j1  j2 = j2  k1 = k1  k2 = k2
  v1 = v1  v2 = v2  m1 = m1  s1 = s1
  Jobs = {j1, j2}
  Keys = {k1, k2}
  KeyOf <- TwoKeys
  BootKey = k1
  RecycleKeys = {k2}
  ShareKeys = {k1}
  HiresJobs = {j1}
  Evictors = {}
  Holders = {}
  Sams = {}
  Pressable = {j1}
  Free = Free  NoJob = NoJob  NoKey = NoKey
INVARIANTS
  TypeOK
  AtMostOneRunning
  LiveJobHasChannel
  DrivenByOwnWorker
  EventMatchesRecord
  OnlyAskedJobsAreCancelled
PROPERTIES
  SavesAreWhole
  AcceptedCancelNeverStarts
  ImplementsJobLog
CHECK_DEADLOCK FALSE
