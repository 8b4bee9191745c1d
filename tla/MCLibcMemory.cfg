SPECIFICATION FairSpec
CONSTANTS
  MemTop = 460
  Starts = {0, 1, 4, 61, 63}
  Counts = {0, 1, 3, 4, 5, 64, 66, 131}
  Inputs <- MCInputs
INVARIANTS TypeOK RangeWritten WideAccessesAligned
PROPERTY CallReturns
