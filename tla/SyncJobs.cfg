SPECIFICATION FairSpec
CONSTANTS
  j1 = j1
  j2 = j2
  Job = {j1, j2}
  Request = {1, 2, 3, 4}
  MaxJobs = 2
  Steps = 2
  None = None
  NoJob = NoJob
INVARIANTS
  BusyJobHasWorker
  PlansArePublished
  ReportedDeployCommitted
PROPERTIES
  PoolPromise
  CompareStaysPublished
  JobWaitingEnds
CHECK_DEADLOCK FALSE
