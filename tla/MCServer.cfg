\* Two GGUF files that displace each other and a snapshot, two chats, two DELETEs: the number
\* of downloads is bounded, so this part may run out of things to do.  And two runs over a
\* dataset of up to two cases that is edited under them, where every case fails unless a
\* reviewer says otherwise (the outcomes of a case are in the cfg of the review page): once
\* both have ended only edits, verdicts and restarts are left.
SPECIFICATION MCSpec
CONSTANTS
  Nothing = Nothing
  None = None
  Paths = {a, b, s}
  Snapshots = {s}
  Chats = {c1, c2}
  Deletes = {d1, d2}
  MaxRecords = 2
  MaxDownloads = 2
  MaxLoads = 2
  Models = {m1}
  Categories = {x, y}
  Outcomes = {FALSE}
  MaxRuns = 2
  MaxCases = 2
  MaxReviewed = 1
SYMMETRY MCSymmetry
INVARIANTS NoMixUp RoomBeforeLoading FreshUnlessLate CacheInv
           RunningIsDriven ResultsFollowCases ReportCountsOnce
PROPERTIES EveryModelIsDropped ReportMovesWithLatest ImplementsRunLifecycle
CHECK_DEADLOCK FALSE
