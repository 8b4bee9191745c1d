SPECIFICATION FairSpec
CONSTANTS
  Self = "self"
  Others = {"b", "c", "d"}
  Regs = {"s2", "s3"}
  MaxLen = 3
  CodeTargets = {"self", "b", "c"}
  InitialCodes <- MCCodes
INVARIANTS TypeOK FlowKept AnalysisRight EdgesCoverFlow
PROPERTY ScanReturns
