\* One run of two cases, of which one passes and one fails.
SPECIFICATION ReviewSpec
CONSTANTS
  None = None
  Models = {m1}
  Categories = {x}
  Outcomes = {TRUE, FALSE}
  MaxRuns = 1
  MaxCases = 2
  MaxReviewed = 1
  MaxSaves = 1
ACTION_CONSTRAINT DatasetStays
INVARIANTS NextIgnoresTheFilter
