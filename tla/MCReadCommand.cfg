SPECIFICATION Spec
CONSTANTS
  Missing = Missing
  None = None
  Directories <- MCDirectories
  InFiles <- MCInFiles
  MaxDigits = 4
  SizeMod = 65536
  StampSize = 16
  ListHeader = 28
  Guid = 16
  MaxData = 121
CHECK_DEADLOCK FALSE
INVARIANTS
  TypeOK
  SuccessMeansShown
  SoundIsShown
