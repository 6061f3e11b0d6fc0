SPECIFICATION E2ESpec
CONSTANTS
  Hybrids <- MCHybrids
  Runs <- MCRuns
  MaxCalls = 12
  MaxInits = 2
  NCpus = 4
  PinFails = FALSE
INVARIANTS
  RowsAreWholeTracks
  TracksAreUniform
  MaskOnlyNarrows
