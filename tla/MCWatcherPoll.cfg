CONSTANTS
  f1 = f1
  f2 = f2
  NoFile = NoFile
  File <- MCFile
  MaxFiles = 2
  QuickSaves = FALSE
  MaxTime = 2
  MaxWrites = 3
SPECIFICATION PollSpec
INVARIANTS
  ChangesAreNoticed
PROPERTIES
  ImplementsRecompiler
  ChangesAreCompiled
CHECK_DEADLOCK FALSE
