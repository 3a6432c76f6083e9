SPECIFICATION Spec
CONSTANTS
  MAX_TIMER_EVENTS = 3
  MAX_MESSAGES = 2
  TASK_QUEUE_SIZE = 3
  FRQ = 1
  TvalRange = 64
  CounterRange = 1024
  Delays = {0, 2}
  MaxNow = 1
  MaxLatency = 1
INVARIANTS
  TypeOK
  QueueExact
  ArmedForFirst
  MessageHeldOnce
PROPERTIES
  LostOnlyWhenFull
  MessagesEnd
\* Time stops when no request is left and nothing is queued.
CHECK_DEADLOCK FALSE
