\* One run that is provisioned up to twice, with failures until the account settles.
CONSTANTS
  a = a
  b = b
  d1 = d1
  d2 = d2
  Runs = {a}
  Dirs = {d1}
  DirOf <- OwnDir
  WantsKey = {a}
  Given = {}
  Shaky = {a}
  MaxTries <- Twice
  Org = Org
  NoFile = NoFile
SPECIFICATION FairSpec
INVARIANTS RecordedRunIsCleaned
PROPERTIES KeyOutlivesCluster TeardownEnds
\* The run may be over.
CHECK_DEADLOCK FALSE
