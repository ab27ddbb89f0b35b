SPECIFICATION Spec
CONSTANTS
  WORD = 256
  SIZE = 1024
  MaxLength = 127
  Lengths <- MCLengths
  DwLengths <- MCDwLengths
  Headers <- MCHeaders
  Tasks = {"read"}
CHECK_DEADLOCK FALSE
PROPERTY ReadEnds
