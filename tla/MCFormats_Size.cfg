SPECIFICATION Spec
CONSTANTS
  WORD = 256
  SIZE = 1024
  MaxLength = 127
  Lengths <- MCLengths
  DwLengths <- MCDwLengths
  Headers <- MCHeaders
  Tasks = {"verify"}
CHECK_DEADLOCK FALSE
PROPERTY SignatureInItsList
