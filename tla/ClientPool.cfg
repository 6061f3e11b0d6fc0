SPECIFICATION FairSpec
CONSTANTS
  MaxCalls = 3
  MaxInits = 2
  NCpus = 2
  PinFails = TRUE
INVARIANTS
  IInv
  FrameIsLive
  PoolOutlivesUse
PROPERTIES
  ImplementsKeyExchange
  EveryExchangeEnds
  ExitEnds
