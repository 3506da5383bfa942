\* One chat and one DELETE of the model the chat is about to load.
SPECIFICATION CacheSpec
CONSTANTS
  Nothing = Nothing
  Paths = {a}
  Snapshots = {}
  Chats = {c1}
  Deletes = {d1}
  MaxRecords = 1
  MaxDownloads = 1
  MaxLoads = 1
INVARIANTS DeletedModelUnloaded
CHECK_DEADLOCK FALSE
