\* One export and its cancel.
SPECIFICATION Spec
CONSTANTS
  Request = {1}
  MaxJobs = 1
  MaxFile = 1
  Quota = 1
  MaxCancels = 1
INVARIANT CanceledStays
CHECK_DEADLOCK FALSE
