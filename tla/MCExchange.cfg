\* One connect command against its session on the server, and everything that
\* can happen to the two and to the connection between them.
SPECIFICATION Spec
CONSTANTS
  Pairs = {e1}
  Parts <- MCParts
  Window = 1
  Hello <- MCHello
  None = None
INVARIANTS
  PrintedIsSent
  EndsAgree
  LostOnlyIfDisturbed
PROPERTIES
  ImplementsClient
  Completes
  EndsUnlessSilent
  ServerLetsGo
\* The command comes to an end.
CHECK_DEADLOCK FALSE
