SPECIFICATION FairSpec
CONSTANTS
  Clients = {c1, c2}
  Suites <- MCSuites
  KdfTypes = {"sha256", "blake3"}
  DispatchModes = {"auto"}
  Faults <- MCKeySafeFaults
  ClientsMayDie = TRUE
PROPERTIES
  ImplementsKeyAgreement
  EveryHandshakeEnds
CHECK_DEADLOCK FALSE
