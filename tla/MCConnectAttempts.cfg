\* Expected violation: ConnectAttempts.
SPECIFICATION Safety
CONSTANTS
  MaxSessions = 2
  Replies = {hello}
  None = None
INVARIANTS
  ConnectAttempts
CHECK_DEADLOCK FALSE
