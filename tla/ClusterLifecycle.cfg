\* Three executions of a lifecycle spec, one after the other.
CONSTANTS
  Clusters = {c1, c2, c3}
  None = None
SPECIFICATION FairSpec
INVARIANTS NoOrphan
PROPERTIES SpecEnds
\* There may be no further execution.
CHECK_DEADLOCK FALSE
