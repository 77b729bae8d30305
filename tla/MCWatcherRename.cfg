CONSTANTS
  f1 = f1
  f2 = f2
  NoFile = NoFile
  File <- MCFile
  WatchedFile = NoFile
  RenameSaves = {f1, f2}
  BatchSize = 2
  MaxWrites = 3
SPECIFICATION Spec
PROPERTY
  RecompilesOnChange
CHECK_DEADLOCK FALSE
