CONSTANTS
  root = root
  a = a
  b = b
  Module <- MCModule
  Root = root
  ImportLists <- MCImportLists
  MaxLoaded = 3
  MaxDepth = 3
  MaxPrograms = 6
SPECIFICATION Spec
INVARIANTS
  LinksAreFinished
  HolesAreReported
  CyclesAreReported
  ReadsTheReachable
PROPERTIES
  Terminates
  ImplementsModuleLoader
CHECK_DEADLOCK FALSE
