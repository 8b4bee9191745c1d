SPECIFICATION Spec
CONSTANTS
  Functions = {"outer", "inner"}
  Main = "outer"
  SavedScalars <- ScalarList
  SavedVectors <- VectorList
  Programs <- MCPrograms
  StackTop = 2368
  MaxDepth = 3
  MaxCalls = 1
INVARIANTS TypeOK ReturnsRight StackBalanced VectorAccessesAligned
PROPERTY FramesArePrivate
