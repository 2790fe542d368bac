\* One connection, three messages, window of one.
SPECIFICATION Spec
CONSTANTS
  a = a
  b = b
  Conns = {c1}
  Parts <- MCParts
  Messages <- MCMessages
  Window = 1
  MaxSend = 3
INVARIANTS
  TypeOK
  EchoFaithful
  ClosedMeansAnswered
  EchoInv
PROPERTIES
  ImplementsEcho
  DepartedReleased
  HandshakeBounded
\* Once the only connection is gone nothing is left to happen.
CHECK_DEADLOCK FALSE
