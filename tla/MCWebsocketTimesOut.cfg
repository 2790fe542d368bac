\* Expected violation: WebsocketTimesOut.
SPECIFICATION Spec
CONSTANTS
  Sessions = {s1}
  Replies = {hello}
  None = None
PROPERTIES
  WebsocketTimesOut
CHECK_DEADLOCK FALSE
