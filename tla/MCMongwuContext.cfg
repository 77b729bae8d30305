CONSTANTS
  MaxProcs = 3
  SyscallSets <- OnlyShipped
SPECIFICATION Spec
INVARIANT
  DispatchPreservesContext
CHECK_DEADLOCK FALSE
