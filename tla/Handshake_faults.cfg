SPECIFICATION Spec
CONSTANTS
  Clients = {c1, c2}
  Suites <- MCSuites
  KdfTypes = {"sha256"}
  DispatchModes = {"auto"}
  Faults <- MCAllFaults
  ClientsMayDie = TRUE
INVARIANTS
  IInv
  NoClientDowngrade
  WaiterIsServed
  OnlyClassicalDeathsKill
CHECK_DEADLOCK FALSE
