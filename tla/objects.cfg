SPECIFICATION Spec
CONSTANTS
  W = 2
  Tails <- SomeTails
  HeapSize = 18
  MaxCorrupt = 2
  Shapes <- SomeShapes
INVARIANTS LiveKept DataInside
