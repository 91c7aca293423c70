SPECIFICATION CastSpec
CONSTANTS
  j1 = j1  j2 = j2  k1 = k1  k2 = k2
  v1 = v1  v2 = v2  m1 = m1  s1 = s1
  Jobs = {j1}
  Keys = {k1, k2}
  KeyOf <- OneKey
  BootKey = k1
  RecycleKeys = {k2}
  ShareKeys = {k1}
  HiresJobs = {j1}
  Evictors = {v1,v2}
  Holders = {m1}
  Casts = {{v1,v2}, {v1,m1}, {v1,s1}}
  Sams = {s1}
  Pressable = {}
  Free = Free  NoJob = NoJob  NoKey = NoKey
INVARIANTS
  LeaseExclusive
  EvictedMeansReaped
  LeaseHolderNeverRefused
  DrivenByOwnWorker
PROPERTIES
  ImplementsLifecycle
  EveryJobEnds
  EvictionIsAnswered
  ChannelsAreEvicted
  OutcomesArePersisted
CHECK_DEADLOCK FALSE
