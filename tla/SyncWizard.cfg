\* One wizard, one job, its three stages.
SPECIFICATION WizardSpec
CONSTANTS
  j1 = j1
  Job = {j1}
  Request = {1, 2, 3}
  MaxJobs = 2
  Steps = 1
  None = None
  NoJob = NoJob
INVARIANT AnnouncedIsCommitted
CHECK_DEADLOCK FALSE
