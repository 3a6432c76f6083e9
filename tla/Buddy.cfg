SPECIFICATION Spec
CONSTANTS
  HEAP_ORDER_MAX = 3
  STACK_CAPACITY = 5
  MaxRequest = 9
INVARIANTS
  MinOrderFits
  HeapSound
  LostOnlyWhole
PROPERTY CallsReturn
