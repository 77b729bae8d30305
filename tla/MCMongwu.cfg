CONSTANTS
  MaxProcs = 4
  SyscallSets <- AllSets
SPECIFICATION Spec
INVARIANTS
  TableMatchesCpu
  KernelStackBounded
  ContextsAreWhole
PROPERTIES
  RoundRobinOrder
  EveryoneStarts
CHECK_DEADLOCK FALSE
