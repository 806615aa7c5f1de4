\* Two executions of the KMS storage spec, or of the workload spec.
CONSTANTS
  Execs = {x1, x2}
  Kinds = {"workload", "kms"}
  MaxPolls = 2
SPECIFICATION FairSpec
INVARIANTS LeakNeedsAFailure
PROPERTIES SpecsEnd
\* All executions may be over.
CHECK_DEADLOCK FALSE
