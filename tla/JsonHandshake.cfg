SPECIFICATION FairSpec
CONSTANTS
  Suites <- MCSuites
  KdfTypes = {"sha256", "blake3"}
  ClientKinds = {"c", "python", "binary"}
  ServerKinds = {"c", "dispatch", "python"}
  Faults <- MCFaults
  MaxFailures = 3
  ClientMayDie = TRUE
INVARIANTS
  JsonInv
  EveryPairInteroperates
  NoClientDowngrade
  ServerSurvives
PROPERTIES
  ImplementsKeyAgreement
  EveryHandshakeEnds
CHECK_DEADLOCK FALSE
