SPECIFICATION FairSpec
CONSTANTS
  Threads = {t1}
  Bit = {0, 1}
  Calls <- MCCalls
  RunKinds = {"swap"}
  S1Holds = {"nonzero"}
PROPERTY AtomicSpec
