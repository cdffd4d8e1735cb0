SPECIFICATION Spec
CONSTANTS
  Total = 5
  BlockSize = 4
  HeapAddr = 8
  WordMod = 64
  Sizes = {1, 4}
INVARIANTS WithinHeap
PROPERTIES AllocSpec
