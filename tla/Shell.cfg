SPECIFICATION Spec
CONSTANTS
  Width = 65536
  CmdBufferSize = 6
  MaxReaderBuffer = 3
  Base = 8
  Archives <- MCArchives
  HeapSize = 150
  MaxLines = 2
  MaxTimers = 1
INVARIANTS
  TypeOK
  TakenAsTyped
  ArchiveServed
PROPERTY ShellGetsOn
\* Nobody need type, and reboot and load_program end the shell.
CHECK_DEADLOCK FALSE
