SPECIFICATION VerifiersSpec
CONSTANTS
  Deployments = {d1, d2}
  MaxRevision = 3
  Timeout = 4
  PodPoll = 3
  EndpointPoll = 2
  ListTime = 1
  RequestTime = 2
  Events <- MCEvents
  MaxLog = 4
  MaxPages = 3
  MaxConditions = 2
  MaxObjects = 2
  MaxItems = 3
  MaxTopk = 2
  MaxSeries = 3
  MaxDeltaPct = 50
  MaxSeriesPerMetric = 2
  Accounts <- MCAccounts
INVARIANTS
  VerifiersTypeOK
  RolloutsVerdict
  OAuthTiming
  NoDenialUnseen
  ClusterVerdictsSound
  ServiceVerdictsSound
  AccountVerdicts
CHECK_DEADLOCK FALSE
