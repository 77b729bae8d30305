CONSTANTS
  f1 = f1
  f2 = f2
  NoFile = NoFile
  File <- MCFile
  WatchedFile = NoFile
  RenameSaves = {f2}
  BatchSize = 2
  MaxWrites = 3
SPECIFICATION Spec
INVARIANTS
  PendingHasEvent
PROPERTIES
  ImplementsRecompiler
  RecompilesOnWrite
  Settles
CHECK_DEADLOCK FALSE
