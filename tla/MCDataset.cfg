SPECIFICATION DataSpec
CONSTANTS
  CaseIds = {"a", "a-copy"}
  Contents = {"x"}
  Requests = {r1, r2}
PROPERTIES DraftReachesEditor
CHECK_DEADLOCK FALSE
