\* One turn and a DELETE of its session.
SPECIFICATION Spec
CONSTANTS
  None = None
  Turns = {t1}
  Deletes = {d1}
  MaxSessions = 1
  MaxMessages = 2
INVARIANTS MessagesHaveASession
