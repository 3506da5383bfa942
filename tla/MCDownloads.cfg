\* A GGUF and a snapshot, two POST threads and two DELETE threads.  Without symmetry,
\* which is unsound for the liveness property.
SPECIFICATION FairSpec
CONSTANTS
  None = None
  Targets = {gguf, snap}
  Snapshots = {snap}
  Requests = {r1, r2}
  Deletes = {d1, d2}
  MaxJobs = 2
  NumParts = 2
CONSTRAINT FewMishaps
INVARIANTS OneCopy RecordedFileWhole ActiveJobRuns SafetyInv
PROPERTIES RowsLeaveByTheirOwnDelete LifecycleSpec SettlesAfterStream
