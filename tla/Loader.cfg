SPECIFICATION LoaderSpec
CONSTANTS
  Width = 65536
  Image <- MCImage
  MaxReadBuffer = 6
  FifoSize = 3
  MaxRuns = 3
  MaxResets = 2
INVARIANTS
  LoaderTypeOK
  ImageLoaded
  KernelComesUp
  ErrorIsFinal
PROPERTY PatientHostLoads
\* When the kernel is up, or an error has occurred, nothing more need happen.
CHECK_DEADLOCK FALSE
