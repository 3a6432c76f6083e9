SPECIFICATION Spec
CONSTANTS
  Pid = 0
  Sizes = {6, 7}
  MaxIrqs = 3
INVARIANTS
  TypeOK
  FramesIntact
  OnlyTheWindowLoses
  CallAnswered
PROPERTY CallReturns
\* A context whose eret went astray is lost: the machine stops.
CHECK_DEADLOCK FALSE
