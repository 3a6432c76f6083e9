SPECIFICATION Spec
CONSTANTS
  POOL_NUM = 2
  pool_size_class <- MCClasses
  PAGE_SIZE = 8
  HEADER = 1
  IntRange = 32
  STACK_CAPACITY = 4
  Block = {b1, b2, b3}
  Requests = {1, 2, 3, 4, 5, 31}
SYMMETRY BlockSymmetry
INVARIANTS
  PoolsExact
PROPERTY BlocksGivenBackInOrder
\* free_block with a wild pointer: what the kernel does then is not defined
CHECK_DEADLOCK FALSE
