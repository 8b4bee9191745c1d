SPECIFICATION Spec
CONSTANTS
  Programs <- MCPrograms
  BranchHalf = 16
  JumpHalf = 64
  HalfWord = 16
  HeaderBytes = 20
  TextStart = 48
  DataStart = 80
  BlockBytes = 16
  ScratchpadSize = 20
  Bases = {0, 16}
  MemTop = 207
INVARIANTS TypeOK MemoryRight FetchedRight
PROPERTY NoByteSpoiled
