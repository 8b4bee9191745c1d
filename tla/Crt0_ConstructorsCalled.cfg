SPECIFICATION Spec
CONSTANTS
  Tile = {0, 1}
  ThreadId = {0, 1}
  ThreadsPerCore = 8
  StacksBase = 524288
  StacksDim = 16384
  ImageSize = 70
  ScratchSize = 72
  Constructors = {1048576, 1048580}
  Workers <- MCWorkers
  ProgramOffsets = {69}
  Results = {9}
INVARIANT ConstructorsCalled
