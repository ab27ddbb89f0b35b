SPECIFICATION Spec
CONSTANTS
  pk1 = pk1
  pk2 = pk2
  kek1 = kek1
  db1 = db1
  outsider = outsider
  digest = digest
  noise = noise
  Certs <- MCCerts
  Hashes <- MCHashes
  Junk <- MCJunk
  Banks <- MCBanks
  UpdateQueues <- MCUpdateQueues
  MaxQueue = 2
CHECK_DEADLOCK FALSE
PROPERTY AcceptedMeansSigned
