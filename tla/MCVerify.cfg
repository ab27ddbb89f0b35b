SPECIFICATION Spec
CONSTANTS
  pk1 = pk1
  pk2 = pk2
  kek1 = kek1
  db1 = db1
  outsider = outsider
  digest = digest
  noise = noise
  Malformed = Malformed
  Old = Old
  Torn = Torn
  Certs <- MCCerts
  Hashes <- MCHashes
  Junk <- MCJunk
  Strong <- MCStrong
  UpdateArgs <- MCUpdateArgs
  StoredVars <- MCStoredVars
  ListedVars <- MCListedVars
  Faults = {"unreadable", "short", "write", "open"}
  MaxUpdates = 2
CHECK_DEADLOCK FALSE
INVARIANTS
  TypeOK
  BackendCalledAsAssumed
  SuccessMeansWritten
  SuccessMeansSigned
PROPERTIES
  KeepsPromise
  Ends
