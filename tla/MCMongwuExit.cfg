CONSTANTS
  MaxProcs = 3
  SyscallSets <- OnlyExit
SPECIFICATION Spec
PROPERTY
  TerminatedIsFinal
CHECK_DEADLOCK FALSE
