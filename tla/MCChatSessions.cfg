\* Two turns over two session ids and two DELETEs.  With every turn made and the
\* last session there is, nothing may be left to do but restart.
SPECIFICATION Spec
CONSTANTS
  None = None
  Turns = {t1, t2}
  Deletes = {d1, d2}
  MaxSessions = 2
  MaxMessages = 4
SYMMETRY RequestSymmetry
INVARIANTS ReadsInOrder RepliesAreWhole
PROPERTIES DeleteIsExact
