SPECIFICATION Spec
CONSTANTS
  w1 = w1
  w2 = w2
  a1 = a1
  b1 = b1
  b2 = b2
  c1 = c1
  c2 = c2
  c3 = c3
  o1 = o1
  Writers <- MCWriters
  Documents <- MCDocuments
  Scraps <- MCScraps
  Original <- MCOriginal
  Parts = {a1, b1, b2, c1, c2, c3, o1}
CHECK_DEADLOCK FALSE
INVARIANTS
  TypeOK
  WrittenIsValidated
  LastWriteLeads
PROPERTIES
  AloneIsWhole
