SPECIFICATION Spec
CONSTANTS
  Suites <- MCSuites
  KdfTypes = {"sha256", "blake3"}
  ClientKinds = {"c", "python"}
  ServerKinds = {"c", "dispatch"}
  Faults = {}
  MaxFailures = 0
  ClientMayDie = FALSE
INVARIANT KeysAlwaysAgree
CHECK_DEADLOCK FALSE
