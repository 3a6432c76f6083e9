SPECIFICATION Spec
CONSTANTS
  TASK_QUEUE_SIZE = 3
  MaxTasks = 2
  LateAuxIrq = TRUE
INVARIANT AuxHandlerUninterruptible
\* who calls a null pointer stays there
CHECK_DEADLOCK FALSE
