SPECIFICATION Spec
CONSTANTS
  pk1 = pk1
  pk2 = pk2
  kek1 = kek1
  db1 = db1
  outsider = outsider
  digest = digest
  noise = noise
  Malformed = Malformed
  Other = Other
  NoFile = NoFile
  Unreadable = Unreadable
  Library = "openssl"
  Certs <- MCCerts
  Hashes <- MCAlgs
  Junk <- MCJunk
  Strong <- MCStrong
  Length <- MCLength
  Given <- MCGiven
  Holders = {kek1}
  Commands <- MCCommands
  Bank <- MCBank
  MaxClock = 2
  MaxRuns = 2
CHECK_DEADLOCK FALSE
INVARIANT SignatureReplacesKey
