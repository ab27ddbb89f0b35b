SPECIFICATION Spec
CONSTANTS
  WORD = 256
  SIZE = 1024
  MaxLength = 127
  Lengths <- MCLengths
  DwLengths <- MCDwLengths
  Headers <- MCHeaders
  Tasks = {"verify", "generate", "force", "read"}
CHECK_DEADLOCK FALSE
INVARIANTS
  TypeOK
  SplitsAgree
PROPERTIES
  SignatureNearItsList
  VerdictIsFirst
  LoopIsClosedForm
  Ends
