SPECIFICATION FairSpec
CONSTANTS
  Width = 5
  Precision = 3
INVARIANT SignedQuotientRight
