\* Three jobs on two permits, one full file fills the quota; three requests of
\* the workbench on two connections, one save, one
\* dropped request, one cancel at a time; two tasks with three operations on a
\* store, whose thresholds reach their floor with the second evolution.
SPECIFICATION ServerSpec
CONSTANTS
  Request = {1, 2, 3}
  MaxJobs = 2
  MaxFile = 1
  Quota = 1
  MaxCancels = 1
  ServerReqs = {1, 2, 3}
  PoolConns = {1, 2}
  MaxSaves = 1
  MaxDrops = 1
  MaxKills = 1
  StoreTasks = {1, 2}
  MaxOps = 3
  Floor = 2
  NoFile = NoFile
  Empty = Empty
  Torn = Torn
INVARIANTS
  OverrunIsBounded
  KillsHitTheirOwn
  ServedIsFresh
  StoresSurvive
PROPERTIES
  PoolPromise
  ServerWaitingEnds
CHECK_DEADLOCK FALSE
