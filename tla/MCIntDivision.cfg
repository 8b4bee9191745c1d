SPECIFICATION FairSpec
CONSTANTS
  Width = 7
  Precision = 4
INVARIANTS QuotientRight RemainderRight FloatDivisionRight FloatDivisionClose
PROPERTY DivisionReturns
