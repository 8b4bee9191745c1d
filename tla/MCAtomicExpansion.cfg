SPECIFICATION FairSpec
CONSTANTS
  Threads = {t1, t2}
  Bit = {0, 1}
  Calls <- MCCalls
  RunKinds = {"add", "sub", "and", "or", "xor", "nand", "cmp_swap", "load", "swap", "store"}
  S1Holds = {"zero", "nonzero", "old", "new", "arg"}
INVARIANTS TypeOK UndisturbedStoreIsAtomic
PROPERTIES LoadErasesOnlyWhenRaced AtomicUnlessTorn OperationsComplete
