\* Two jobs, one step of progress, at most two events in flight.
\* With all jobs finished and shown, nothing is left to happen but reconnecting.
SPECIFICATION FairSpec
CONSTANTS
  None = None
  MaxJobs = 2
  MaxPercent = 1
  MaxWire = 2
  MaxDeletes = 1
INVARIANTS PagesTellTheTruth SentReachesClient CompletedIsListed
PROPERTIES ShownMovesForward FollowedToTheEnd
