SPECIFICATION LSpec
CONSTANTS
  pk1 = pk1
  pk2 = pk2
  kek1 = kek1
  db1 = db1
  outsider = outsider
  digest = digest
  noise = noise
  Malformed = Malformed
  Old = Old
  Torn = Torn
  Unreadable = Unreadable
  Certs <- MCCerts
  Hashes <- MCHashes
  Junk <- MCJunk
  Strong <- MCStrong
  UpdateArgs <- MCUpdateArgs
  StoredVars = {}
  ListedVars = {}
  WriteArgs <- MCValidWriteArgs
  FirstBanks <- MCFirstBanks
  Faults = {}
  MaxTurns = 3
CHECK_DEADLOCK FALSE
PROPERTY VerifiedIsAccepted
