\* Command lines of up to three arguments, every state of the config file and
\* of the path, and changes of both at any time.
SPECIFICATION Spec
CONSTANTS
  NoNumber = NoNumber
  Texts <- MCTexts
  NoText = NoText
  Arguments <- MCArguments
  Lines <- MCLines
  Defaults <- MCDefaults
  DefaultConfig <- MCDefaultConfig
  Documents <- MCDocuments
  Absent = Absent
  Targets <- MCTargets
  Directories <- MCDirectories
  OwnerReadable <- MCOwnerReadable
INVARIANTS
  TypeOK
  ReadAsMeant
  StableVerdict
  VerdictDespiteChanges
  RunsWithSense
PROPERTIES
  ImplementsSetup
\* Start-up ends.
CHECK_DEADLOCK FALSE
