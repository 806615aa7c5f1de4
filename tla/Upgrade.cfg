\* Two jobs on one cluster; the label filters are those of a topology, or none.
CONSTANTS
  Selections <- MCSelections
  MaxJobs = 2
  MaxPolicies = 2
  None = None
SPECIFICATION FairSpec
INVARIANTS TypeOK PassedMeansUpgraded NoUpgradeBehindTheSpecs SignalMeansUpgrade
PROPERTIES JobEnds
\* There may be no further job.
CHECK_DEADLOCK FALSE
