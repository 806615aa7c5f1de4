\* Three verifiers in parallel, every combination of verdicts.
CONSTANTS
  Verifiers = {v1, v2, v3}
  NoReport = NoReport
SPECIFICATION FairSpec
INVARIANTS SendNeverBlocks EveryFailureReported
PROPERTIES Joins ImplementsJoin
\* RunVerifiers returns once and for all.
CHECK_DEADLOCK FALSE
