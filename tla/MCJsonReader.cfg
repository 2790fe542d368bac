\* Every file of up to ten tokens.
SPECIFICATION Spec
CONSTANTS
  Strings = {ip, port}
  Null = Null
  Scalars = {Null}
  NoElement = NoElement
  MaxTokens = 10
INVARIANTS
  TypeOK
  AssertsHold
  ReferencesGood
  DocumentGood
  ReadsJson
  ReadsAsWritten
\* The reader ends with the value.
CHECK_DEADLOCK FALSE
