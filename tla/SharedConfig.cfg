\* Three specs of one process, while the ConfigMap is rewritten once.
CONSTANTS
  Inputs <- SomeInputs
  Topologies = {"hcp", "classic"}
  MaxSpecs = 3
  MaxVersions = 1
  MaxAttempts = 4
SPECIFICATION FairSpec
INVARIANTS OneSource MetricsFollowProbe
PROPERTIES NoSkipOnceServed SpecsEnd
\* There may be no further spec.
CHECK_DEADLOCK FALSE
