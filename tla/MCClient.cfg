\* Three connect commands, and any other lines between them.
SPECIFICATION Spec
CONSTANTS
  MaxSessions = 3
  Replies = {hello}
  None = None
INVARIANTS
  TypeOK
  QuietAtPrompt
PROPERTIES
  PromptReturns
\* The program may have exited, or the bound on sessions be reached.
CHECK_DEADLOCK FALSE
