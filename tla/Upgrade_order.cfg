\* The order in which Ginkgo runs the containers.
CONSTANTS
  Selections <- MCSelections
  MaxJobs = 2
  MaxPolicies = 2
  None = None
SPECIFICATION Spec
INVARIANT PostChecksAfterUpgrade
\* There may be no further job.
CHECK_DEADLOCK FALSE
