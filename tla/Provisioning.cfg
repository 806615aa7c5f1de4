\* Two runs of one organisation, each with its own SHARED_DIR; the first creates a
\* key and may fail, the second may be provisioned again under its name.
CONSTANTS
  a = a
  b = b
  d1 = d1
  d2 = d2
  Runs = {a, b}
  Dirs = {d1, d2}
  DirOf <- OwnDir
  WantsKey = {a}
  Given = {}
  Shaky = {a}
  MaxTries <- OneAgain
  Org = Org
  NoFile = NoFile
SPECIFICATION Spec
INVARIANTS NothingUnderALiveCluster
PROPERTIES AdoptedConfigsKept
\* Both runs may be over.
CHECK_DEADLOCK FALSE
