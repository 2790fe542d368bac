\* The chain of one client session against any server.
SPECIFICATION Spec
CONSTANTS
  Sessions = {s1}
  Replies = {hello, other}
  None = None
INVARIANTS
  TypeOK
  PrintedIsAnswer
PROPERTIES
  NoDeadlineOnceOpen
  EndsUnlessUnanswered
\* Once the sessions are over nothing is left to happen.
CHECK_DEADLOCK FALSE
