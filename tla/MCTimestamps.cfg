SPECIFICATION Spec
CONSTANTS
  BYTE = 4
  YEARS = 8
  First <- MCFirst
  Last <- MCLast
  Typed <- MCTyped
  Foreign <- MCForeign
CHECK_DEADLOCK FALSE
INVARIANTS
  TypeOK
  LaterIsAccepted
PROPERTIES
  MovesForward
  OursKeepTsValid
