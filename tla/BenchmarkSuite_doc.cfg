SPECIFICATION SuiteSpec
CONSTANTS
  Combos <- MCCombos
  Hybrids <- MCHybrids
  NUM_ITERATIONS = 2
  Warmups = 1
  MaxCalls = 14
  NCpus = 2
  PinFails = FALSE
INVARIANT ColdStartOmitted
