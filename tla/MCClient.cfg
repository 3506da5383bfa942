SPECIFICATION MCSpec
CONSTANTS
  Sends = {1, 2}
  MaxDeltas = 2
  MaxCalls = 1
  MaxWire = 2
  Repos = {"A", "B"}
  Quants = {"q1", "q2"}
  Lists <- MCLists
  IdTexts = {"", "a", "a/b"}
  Texts = {"", "blank", "x"}
  SchemaTexts = {"", "object", "garbage"}
  ToolNames = {"t"}
  MaxMessages = 2
  MaxAssertions = 1
  MaxFilled = 4
  CaseIds = {"a", "a-copy"}
  Contents = {"x"}
  Requests = {r1, r2}
  Runs = {1, 2}
  MaxTotal = 1
  Calls = {1, 2}
  MaxEvents = 2
  Payloads = {"p", "q"}
  MaxFrames = 2
  MaxLines = 2
  h1 = h1
  h2 = h2
  Hub = {h1, h2}
  Details <- MCDetails
  Rankings <- MCRankings
  Usable = 100
  RatedModels = {1, 2}
  RatedBackends = {1, 2}
  RatedCategories = {1, 2}
  Counts <- MCCounts
  Metrics <- MCMetrics
  MaxReportRows = 3
SYMMETRY MCSymmetry
INVARIANTS PlayInv HistoryIsWhole SavedCasesSurviveReopening DataInv ListCatchesUp
           ClientInv FinishedRunIsReported FramesAreWhole RowsTellTheirModel MatrixAddsUp
PROPERTIES SelectionFollowsTheList
CHECK_DEADLOCK FALSE
