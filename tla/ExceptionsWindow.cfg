SPECIFICATION Spec
CONSTANTS
  Pid = 0
  Sizes = {6, 7}
  MaxIrqs = 3
INVARIANT ContextKept
CHECK_DEADLOCK FALSE
