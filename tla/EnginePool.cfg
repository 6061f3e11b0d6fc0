SPECIFICATION FairSpec
CONSTANTS
  Combos <- MCCombos
  MaxCalls = 3
  NCpus = 2
  PinFails = TRUE
INVARIANTS
  IInv
  ReplyIsFresh
  NoOutcomeRace
PROPERTIES
  ImplementsKeyExchange
  ShutdownReturns
  EveryExchangeEnds
