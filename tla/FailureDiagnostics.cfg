\* Two objects of a kind are kept, three may exist.  An output is 31 to 74 bytes
\* long, so the limit is met by some, exactly reached by some and out of reach
\* for a HostedCluster with long statuses.
CONSTANTS
  DiagnosticLimit = 2
  DiagnosticMaxBytes = 48
  MaxItems = 3
  ItemBytes <- SmallItems
  BaseBytes = 3
SPECIFICATION FairSpec
INVARIANTS TypeOK CompleteMeansAll FitsTheLimit NoPartialFile
PROPERTIES FailuresStayVisible Ends
\* The function returns once.
CHECK_DEADLOCK FALSE
