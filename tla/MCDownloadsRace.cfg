\* Two POST threads for one target: _reject_duplicate looks first and inserts later.
SPECIFICATION Spec
CONSTANTS
  None = None
  Targets = {gguf}
  Snapshots = {}
  Requests = {r1, r2}
  Deletes = {d1}
  MaxJobs = 2
  NumParts = 1
SYMMETRY ThreadSymmetry
INVARIANTS NoSecondRecord
