\* One run of up to two cases and the page that reviews it; every case fails by itself, so
\* that verdicts decide who passes.  Once the run has ended, restarts and verdicts are left.
SPECIFICATION ReviewSpec
CONSTANTS
  None = None
  Models = {m1}
  Categories = {x}
  Outcomes = {FALSE}
  MaxRuns = 1
  MaxCases = 2
  MaxReviewed = 1
  MaxSaves = 2
ACTION_CONSTRAINT DatasetStays
INVARIANTS PageInv EndedPageIsComplete VerdictsAreShown
