SPECIFICATION Spec
CONSTANTS
  TASK_QUEUE_SIZE = 3
  MaxTasks = 4
  LateAuxIrq = FALSE
INVARIANTS
  TimerTasksInOrder
  AuxHandlerAtOnce
PROPERTIES
  TimerRingIsFifo
  TimerTasksRun
