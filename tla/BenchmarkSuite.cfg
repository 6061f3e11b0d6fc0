SPECIFICATION SuiteFairSpec
CONSTANTS
  Combos <- MCCombos
  Hybrids <- MCHybrids
  NUM_ITERATIONS = 3
  Warmups = 1
  MaxCalls = 14
  NCpus = 2
  PinFails = FALSE
INVARIANTS
  ResultsAreOwnTracks
  TracksAreComparable
  PinnedApart
PROPERTIES
  SuiteEnds
